---------------------------- MODULE LspSyncProofs ----------------------------
(***************************************************************************)
(* The safety of the synchronisation with a language server for every set  *)
(* of files and all bounds on texts, versions and openings: the types,     *)
(* what is sent fits the text the server has, what is answered the text of *)
(* the buffer, and the request that the editor loop waits for is not lost. *)
(***************************************************************************)
EXTENDS LspSync, SequenceTheorems, TLAPS

(* The request r is of a later opening of its file, or of a later version. *)
After(r, g, v) == r.buf.gen > g \/ (r.buf.gen = g /\ r.version > v)

AfterRequest(r, s) == r.buf.doc = s.buf.doc => After(r, s.buf.gen, s.version)

AfterServer(r) == After(r, srvVersion[r.buf.doc].gen, srvVersion[r.buf.doc].version)

Past(g, v, d) == g < gen[d] \/ (g = gen[d] /\ v \leq version[d])

PastRequest(r) == Past(r.buf.gen, r.version, r.buf.doc)

InOrder(q) == \A i, j \in DOMAIN q : i < j => AfterRequest(q[j], q[i])

(* The requests of a file are in order, in the queue and from the sync loop to it, and only the  *)
(* current one may have been sent.                                                               *)
RequestsInOrder ==
  /\ InOrder(pending) /\ InOrder(reqs)
  /\ \A i \in DOMAIN reqs, j \in DOMAIN pending : AfterRequest(pending[j], reqs[i])
  /\ \A j \in DOMAIN pending : AfterServer(pending[j]) /\ PastRequest(pending[j])
  /\ \A i \in DOMAIN reqs : PastRequest(reqs[i]) /\ (AfterServer(reqs[i]) \/ (pc = "ask" /\ i = 1))
  /\ \A d \in Docs : Past(srvVersion[d].gen, srvVersion[d].version, d)

(* The text that is believed to be at the server is, unless its file was opened again. *)
SyncedIsKnown ==
  \A b \in serverSynced :
    /\ srvVersion[b.doc].gen \geq b.gen
    /\ srvVersion[b.doc].gen = b.gen => srvText[b.doc] = serverText[b]

(* Where the sync loop is. *)
LoopInOrder ==
  /\ pc \in {"idle", "take"} => reqs = <<>>
  /\ pc = "ask" => reqs # <<>>
  /\ pc \in {"text", "ask"} => ready
  /\ pc = "start" => ~ready
  /\ down => ~ready /\ pc = "over"

(* The commands come from a server that has started, and an import from a text without it. *)
CommandsInOrder ==
  \A x \in {inbox, sending} : x # None => ready /\ (x.do = "imports" => x.req.imp = 0)

BuffersInOrder ==
  /\ \A d \in open : gen[d] \geq 1
  /\ \A d \in Docs : suggestions[d] # None => d \in open /\ ready

SameRequest(r, s) == r.buf = s.buf /\ r.version = s.version

(* The loop waits for the formatting of the text the buffer has, which no other request has the  *)
(* version of.                                                                                   *)
WaitsForCurrent ==
  waiting # None =>
    LET d == waiting.buf.doc IN
    /\ d \in open
    /\ waiting.buf = BufOf(d) /\ waiting.version = version[d] /\ waiting.text = text[d]
    /\ \A i \in DOMAIN pending : SameRequest(pending[i], waiting) => pending[i].text = waiting.text
    /\ \A i \in DOMAIN reqs : SameRequest(reqs[i], waiting) => reqs[i].text = waiting.text

(* The edits and the imports that are applied fit the text. *)
AppliedFit == EditsFit /\ ImportedOnce

IInv ==
  /\ TypeOK /\ RequestsInOrder /\ SyncedIsKnown /\ LoopInOrder /\ CommandsInOrder
  /\ BuffersInOrder /\ WaitsForCurrent /\ RequestsFit /\ AppliedFit /\ FormatIsAnswered

(* A completion is wanted where the text was last edited, unless the text is another by now. *)
Wanted(r) == r.at \in At /\ (r.text = text[r.buf.doc] => r.at = edited[r.buf.doc])

Known(r) == r.text \leq text[r.buf.doc] /\ ("completion" \in r.ask => Wanted(r))

KnownCommand(x) ==
  x # None => x.req.text \leq text[x.req.buf.doc] /\ (x.do = "completion" => Wanted(x.req))

(* The requests and the commands are of texts that the buffers have or have had. *)
CompletionsKnown ==
  /\ \A i \in DOMAIN pending : Known(pending[i])
  /\ \A i \in DOMAIN reqs : Known(reqs[i])
  /\ KnownCommand(inbox) /\ KnownCommand(sending)

(* The cursor is where the text was edited, or at another position. *)
CursorKnown == \A d \in Docs : cursor[d] = edited[d] \/ Apart(cursor[d], edited[d])

(* A suggestion is all that is left of the word. *)
Whole(s) == s.at.typed + s.rest = Word[s.at.place]

SuggestionsWhole == \A d \in Docs : suggestions[d] # None => Whole(suggestions[d])

(* What the completions rest on besides. *)
CInv == CompletionsKnown /\ CursorKnown /\ SuggestionsWhole

-----------------------------------------------------------------------------
(* The queue. *)

LEMMA RequestFields ==
  ASSUME NEW r \in Request
  PROVE  /\ r.buf \in Buf /\ r.buf.doc \in Docs /\ r.buf.gen \in 1 .. MaxOpens /\ r.buf.gen \in Nat
         /\ r.text \in Nat /\ r.version \in Nat /\ r.imp \in Nat /\ r.ask \subseteq Question
BY BoundsAssumption DEF Request, Buf

LEMMA SameBuf ==
  ASSUME NEW b \in Buf, NEW c \in Buf, b.doc = c.doc, b.gen = c.gen
  PROVE  b = c
BY DEF Buf

LEMMA QueueType ==
  ASSUME NEW q \in Seq(Request)
  PROVE  /\ Len(q) \in Nat /\ DOMAIN q = 1 .. Len(q)
         /\ \A i \in DOMAIN q : q[i] \in Request
BY LenProperties, ElementOfSeq

(* What is in the queue after a request is pushed. *)
LEMMA AddedRequest ==
  ASSUME NEW q \in Seq(Request), NEW req \in Request,
         \A i, j \in DOMAIN q : q[i].buf = q[j].buf => i = j
  PROVE  LET n == AddRequest(q, req) IN
         /\ n \in Seq(Request)
         /\ \A i, j \in DOMAIN n : n[i].buf = n[j].buf => i = j
         /\ \A i \in DOMAIN q : i \in DOMAIN n /\ n[i].buf = q[i].buf
         /\ \A i \in DOMAIN n :
              \/ i \in DOMAIN q /\ n[i].buf # req.buf /\ n[i] = q[i]
              \/ /\ SameRequest(n[i], req) /\ n[i].text = req.text /\ n[i].at = req.at
                 /\ n[i].ask \subseteq req.ask \cup {"imports"}
         /\ \E i \in DOMAIN n : SameRequest(n[i], req) /\ req.ask \subseteq n[i].ask
<1> DEFINE n == AddRequest(q, req)
<1>1. DOMAIN q = 1 .. Len(q) /\ Len(q) \in Nat /\ \A i \in DOMAIN q : q[i] \in Request
  BY QueueType
<1>2. CASE \E i \in DOMAIN q : q[i].buf = req.buf
  <2>1. n = [i \in DOMAIN q |-> IF q[i].buf = req.buf THEN Merge(q[i], req) ELSE q[i]]
    BY <1>2 DEF AddRequest
  <2>2. \A r \in Request : /\ Merge(r, req) \in Request /\ req.ask \subseteq Merge(r, req).ask
                           /\ Merge(r, req).buf = req.buf /\ Merge(r, req).text = req.text
                           /\ Merge(r, req).version = req.version /\ Merge(r, req).at = req.at
                           /\ Merge(r, req).ask \subseteq req.ask \cup {"imports"}
    BY DEF Merge, Request, Question
  <2> HIDE DEF n
  <2>3. n \in [1 .. Len(q) -> Request]
    BY <1>1, <2>1, <2>2
  <2>4. n \in Seq(Request) /\ DOMAIN n = 1 .. Len(q)
    <3>1. DEFINE k == Len(q)
    <3>2. n \in [1 .. k -> Request] /\ k \in Nat
      BY <1>1, <2>3
    <3> HIDE DEF k
    <3>3. n \in Seq(Request)
      BY <3>2, SeqDef, Zenon
    <3>4. DOMAIN n = 1 .. k
      BY <3>2
    <3>5. QED
      BY <3>3, <3>4 DEF k
  <2>5. \A i \in DOMAIN q : /\ q[i].buf # req.buf => n[i] = q[i]
                            /\ q[i].buf = req.buf => /\ SameRequest(n[i], req) /\ n[i].text = req.text
                                                     /\ n[i].at = req.at /\ req.ask \subseteq n[i].ask
                                                     /\ n[i].ask \subseteq req.ask \cup {"imports"}
    BY <1>1, <2>1, <2>2 DEF SameRequest
  <2>6. \A i \in DOMAIN q : n[i].buf = q[i].buf
    BY <2>5 DEF SameRequest
  <2>7. QED
    BY <1>1, <1>2, <2>4, <2>5, <2>6 DEF SameRequest, n
<1>3. CASE ~ \E i \in DOMAIN q : q[i].buf = req.buf
  <2>1. n = Append(q, req)
    BY <1>3 DEF AddRequest
  <2> HIDE DEF n
  <2>2. n \in Seq(Request) /\ Len(n) = Len(q) + 1 /\ n[Len(q) + 1] = req /\ \A i \in 1 .. Len(q) : n[i] = q[i]
    BY <1>1, <2>1, AppendProperties
  <2>3. DOMAIN n = 1 .. Len(q) + 1
    BY <2>2, LenProperties
  <2>4. QED
    BY <1>1, <1>3, <2>2, <2>3 DEF SameRequest, n
<1>4. QED
  BY <1>2, <1>3

-----------------------------------------------------------------------------
(* What a step that leaves some of the variables alone keeps. *)

LEMMA KeptSynced ==
  ASSUME SyncedIsKnown, UNCHANGED <<known, server>>
  PROVE  SyncedIsKnown'
BY DEF SyncedIsKnown, known, server

LEMMA KeptLoop ==
  ASSUME LoopInOrder, UNCHANGED <<pc, reqs, state>>
  PROVE  LoopInOrder'
BY DEF LoopInOrder, state

LEMMA KeptCommands ==
  ASSUME CommandsInOrder, UNCHANGED <<inbox, sending, state>>
  PROVE  CommandsInOrder'
BY DEF CommandsInOrder, state

LEMMA KeptBuffers ==
  ASSUME BuffersInOrder, UNCHANGED <<editor, state>>
  PROVE  BuffersInOrder'
BY DEF BuffersInOrder, editor, state

LEMMA NotWaiting ==
  ASSUME waiting' = None
  PROVE  WaitsForCurrent' /\ FormatIsAnswered'
BY DEF WaitsForCurrent, FormatIsAnswered

LEMMA KeptFit ==
  ASSUME RequestsFit, UNCHANGED <<pc, reqs, server>>
  PROVE  RequestsFit'
BY DEF RequestsFit, Req, server

LEMMA KeptAnswers ==
  ASSUME AppliedFit, UNCHANGED <<editor, format>>
  PROVE  AppliedFit'
BY DEF AppliedFit, EditsFit, ImportedOnce, editor, format

LEMMA KeptRequests ==
  ASSUME RequestsInOrder, UNCHANGED <<editor, pending, reqs, pc, server>>
  PROVE  RequestsInOrder'
BY DEF RequestsInOrder, InOrder, AfterRequest, AfterServer, After, PastRequest, Past, editor, server

LEMMA KeptWait ==
  ASSUME WaitsForCurrent, FormatIsAnswered, UNCHANGED <<editor, format, pending, reqs>>
  PROVE  WaitsForCurrent' /\ FormatIsAnswered'
BY DEF WaitsForCurrent, FormatIsAnswered, SameRequest, BufOf, editor, format

-----------------------------------------------------------------------------
(* The initial states. *)

LEMMA InitInv == Init => IInv
<1> SUFFICES ASSUME Init PROVE IInv
  OBVIOUS
<1>1. TypeOK
  <2>1. /\ <<>> \in Seq(Request) /\ DOMAIN <<>> = {}
        /\ \A i, j \in DOMAIN pending : pending[i].buf = pending[j].buf => i = j
    BY DEF Init
  <2>2. /\ gen \in [Docs -> 0 .. MaxOpens] /\ text \in [Docs -> 0 .. MaxText]
        /\ imp \in [Docs -> Nat] /\ version \in [Docs -> Nat]
        /\ serverText \in [Buf -> Nat]
    BY BoundsAssumption DEF Init
  <2>3. /\ suggestions \in [Docs -> Suggestion \cup {None}] /\ srvText \in [Docs -> Nat \cup {None, Garbage}]
        /\ srvVersion \in [Docs -> [gen : Nat, version : Nat]]
    BY DEF Init
  <2>4. QED
    BY <2>1, <2>2, <2>3 DEF Init, TypeOK
<1>2. RequestsInOrder
  BY DEF Init, RequestsInOrder, InOrder, Past
<1>3. SyncedIsKnown /\ LoopInOrder /\ CommandsInOrder /\ BuffersInOrder
  BY DEF Init, SyncedIsKnown, LoopInOrder, CommandsInOrder, BuffersInOrder
<1>4. WaitsForCurrent /\ FormatIsAnswered
  BY DEF Init, WaitsForCurrent, FormatIsAnswered
<1>5. RequestsFit /\ AppliedFit
  BY NoneAssumption DEF Init, RequestsFit, AppliedFit, EditsFit, ImportedOnce
<1>6. QED
  BY <1>1, <1>2, <1>3, <1>4, <1>5 DEF IInv

-----------------------------------------------------------------------------
(* The editor loop pushes a request that is later than all others of its file. *)

LEMMA PushedRequests ==
  ASSUME RequestsInOrder, pending \in Seq(Request), reqs \in Seq(Request),
         \A i, j \in DOMAIN pending : pending[i].buf = pending[j].buf => i = j,
         NEW req \in Request, PushRequest(req),
         \A g, v \in Nat : Past(g, v, req.buf.doc) => After(req, g, v),
         \A d \in Docs, g, v \in Nat : Past(g, v, d) => Past(g, v, d)',
         Past(req.buf.gen, req.version, req.buf.doc)',
         srvVersion \in [Docs -> [gen : Nat, version : Nat]],
         UNCHANGED <<pc, reqs, server>>
  PROVE  RequestsInOrder'
<1> DEFINE q == pending
           n == pending'
           PastNext(r) == \/ r.buf.gen < gen'[r.buf.doc]
                          \/ r.buf.gen = gen'[r.buf.doc] /\ r.version \leq version'[r.buf.doc]
<1>1. /\ n \in Seq(Request)
      /\ \A i, j \in DOMAIN n : n[i].buf = n[j].buf => i = j
      /\ \A i \in DOMAIN q : i \in DOMAIN n /\ n[i].buf = q[i].buf
      /\ \A i \in DOMAIN n : \/ i \in DOMAIN q /\ n[i].buf # req.buf /\ n[i] = q[i]
                             \/ SameRequest(n[i], req)
  <2> DEFINE added == AddRequest(pending, req)
  <2>1. /\ added \in Seq(Request)
        /\ \A i, j \in DOMAIN added : added[i].buf = added[j].buf => i = j
        /\ \A i \in DOMAIN pending : i \in DOMAIN added /\ added[i].buf = pending[i].buf
        /\ \A i \in DOMAIN added : \/ i \in DOMAIN pending /\ added[i].buf # req.buf /\ added[i] = pending[i]
                                   \/ SameRequest(added[i], req)
    BY AddedRequest
  <2>2. n = added
    BY DEF PushRequest
  <2> HIDE DEF added
  <2>3. QED
    BY <2>1, <2>2
<1>2. /\ \A i \in DOMAIN q : q[i] \in Request
      /\ DOMAIN q = 1 .. Len(q) /\ Len(q) \in Nat
      /\ DOMAIN n = 1 .. Len(n) /\ Len(n) \in Nat
      /\ \A i \in DOMAIN reqs : reqs[i] \in Request
  BY <1>1, QueueType
<1>3. \A r \in Request : r.buf \in Buf /\ r.buf.doc \in Docs /\ r.buf.gen \in Nat /\ r.version \in Nat
  BY RequestFields
<1>4. /\ \A i \in DOMAIN q : PastRequest(q[i]) /\ AfterServer(q[i])
      /\ \A i \in DOMAIN reqs : PastRequest(reqs[i])
      /\ InOrder(q) /\ InOrder(reqs)
      /\ \A i \in DOMAIN reqs, j \in DOMAIN q : AfterRequest(q[j], reqs[i])
      /\ \A d \in Docs : Past(srvVersion[d].gen, srvVersion[d].version, d)
  BY DEF RequestsInOrder
<1>5. \A r \in Request : PastRequest(r) => AfterRequest(req, r) /\ PastNext(r)
  <2> SUFFICES ASSUME NEW r \in Request, PastRequest(r) PROVE AfterRequest(req, r) /\ PastNext(r)
    OBVIOUS
  <2>1. r.buf.doc \in Docs /\ r.buf.gen \in Nat /\ r.version \in Nat /\ Past(r.buf.gen, r.version, r.buf.doc)
    BY <1>3 DEF PastRequest
  <2>2. Past(r.buf.gen, r.version, r.buf.doc)'
    BY <2>1
  <2>3. QED
    BY <2>1, <2>2 DEF Past, AfterRequest
<1> HIDE DEF q, n
<1>6. InOrder(n)
  <2> SUFFICES ASSUME NEW i \in DOMAIN n, NEW j \in DOMAIN n, i < j PROVE AfterRequest(n[j], n[i])
    BY DEF InOrder
  <2>1. CASE SameRequest(n[j], req)
    <3>1. n[i].buf # n[j].buf /\ i \in DOMAIN q /\ n[i] = q[i]
      BY <1>1, <1>2, <2>1 DEF SameRequest
    <3>2. AfterRequest(req, n[i])
      BY <1>2, <1>4, <1>5, <3>1
    <3>3. QED
      BY <2>1, <3>2 DEF AfterRequest, After, SameRequest
  <2>2. CASE j \in DOMAIN q /\ n[j].buf # req.buf /\ n[j] = q[j]
    <3>1. i \in DOMAIN q /\ AfterRequest(q[j], q[i])
      BY <1>2, <1>4, <2>2 DEF InOrder
    <3>2. CASE n[i] = q[i]
      BY <2>2, <3>1, <3>2
    <3>3. CASE SameRequest(n[i], req)
      <4>1. q[i].buf = req.buf
        BY <1>1, <3>1, <3>3 DEF SameRequest
      <4> SUFFICES ASSUME q[j].buf.doc = req.buf.doc PROVE FALSE
        BY <2>2, <3>3 DEF AfterRequest, SameRequest
      <4>2. After(req, q[j].buf.gen, q[j].version) /\ After(q[j], req.buf.gen, q[i].version)
        BY <1>2, <1>4, <1>5, <2>2, <3>1, <4>1 DEF AfterRequest
      <4>3. q[j].buf.gen \in Nat /\ req.buf.gen \in Nat /\ q[j].buf \in Buf /\ req.buf \in Buf
        BY <1>2, <1>3, <2>2
      <4>4. q[j].buf.gen = req.buf.gen
        BY <4>2, <4>3 DEF After
      <4>5. q[j].buf = req.buf
        BY <4>3, <4>4, SameBuf
      <4>6. QED
        BY <2>2, <4>5
    <3>4. QED
      BY <1>1, <3>2, <3>3
  <2>3. QED
    BY <1>1, <2>1, <2>2
<1>7. \A i \in DOMAIN reqs, j \in DOMAIN n : AfterRequest(n[j], reqs[i])
  <2> SUFFICES ASSUME NEW i \in DOMAIN reqs, NEW j \in DOMAIN n PROVE AfterRequest(n[j], reqs[i])
    OBVIOUS
  <2>1. CASE SameRequest(n[j], req)
    <3>1. AfterRequest(req, reqs[i])
      BY <1>2, <1>4, <1>5
    <3>2. QED
      BY <2>1, <3>1 DEF AfterRequest, After, SameRequest
  <2>2. QED
    BY <1>1, <1>4, <2>1
<1>8. \A j \in DOMAIN n : AfterServer(n[j]) /\ PastNext(n[j])
  <2> SUFFICES ASSUME NEW j \in DOMAIN n PROVE AfterServer(n[j]) /\ PastNext(n[j])
    OBVIOUS
  <2>1. CASE SameRequest(n[j], req)
    <3>1. srvVersion[req.buf.doc].gen \in Nat /\ srvVersion[req.buf.doc].version \in Nat /\ req.buf.doc \in Docs
      BY <1>3
    <3>2. After(req, srvVersion[req.buf.doc].gen, srvVersion[req.buf.doc].version)
      BY <1>4, <3>1
    <3>3. AfterServer(n[j])
      BY <2>1, <3>2 DEF AfterServer, After, SameRequest
    <3>4. PastNext(n[j])
      BY <2>1 DEF SameRequest, Past
    <3>5. QED
      BY <3>3, <3>4
  <2>2. CASE j \in DOMAIN q /\ n[j] = q[j]
    <3>1. q[j] \in Request /\ PastRequest(q[j]) /\ AfterServer(q[j])
      BY <1>2, <1>4, <2>2
    <3>2. PastNext(q[j])
      BY <1>5, <3>1
    <3>3. QED
      BY <2>2, <3>1, <3>2
  <2>3. QED
    BY <1>1, <2>1, <2>2
<1>9. \A d \in Docs : Past(srvVersion[d].gen, srvVersion[d].version, d)'
  <2> SUFFICES ASSUME NEW d \in Docs PROVE Past(srvVersion[d].gen, srvVersion[d].version, d)'
    OBVIOUS
  <2>1. srvVersion[d].gen \in Nat /\ srvVersion[d].version \in Nat /\ srvVersion' = srvVersion
    BY DEF server
  <2>2. Past(srvVersion[d].gen, srvVersion[d].version, d)
    BY <1>4
  <2>3. QED
    BY <2>1, <2>2 DEF Past
<1>10. \A i \in DOMAIN reqs : PastNext(reqs[i]) /\ (AfterServer(reqs[i]) \/ (pc = "ask" /\ i = 1))
  <2>1. \A i \in DOMAIN reqs : PastNext(reqs[i])
    BY <1>2, <1>4, <1>5
  <2>2. QED
    BY <2>1 DEF RequestsInOrder
<1>11. QED
  BY <1>4, <1>6, <1>7, <1>8, <1>9, <1>10 DEF RequestsInOrder, PastRequest, Past, AfterServer, server, n

(* What TypeOK says of the queue. *)
QueueOK ==
  /\ pending \in Seq(Request)
  /\ \A i, j \in DOMAIN pending : pending[i].buf = pending[j].buf => i = j

LEMMA PushedQueue ==
  ASSUME QueueOK, NEW req \in Request, PushRequest(req)
  PROVE  QueueOK' /\ wake' \in BOOLEAN
BY AddedRequest DEF QueueOK, PushRequest

LEMMA AtFields ==
  ASSUME NEW at \in At
  PROVE  at.place \in Place /\ at.typed \in Nat /\ Word[at.place] \in Nat /\ at.typed \leq Word[at.place]
<1>1. PICK p \in Place : at \in [place : {p}, typed : 0 .. Word[p]]
  BY DEF At
<1>2. Word[p] \in Nat
  BY WordsAssumption
<1>3. QED
  BY <1>1, <1>2

(* What is kept of a suggestion fits the cursor. *)
LEMMA KeptSuggestion ==
  ASSUME NEW s \in Suggestion \cup {None}, NEW now \in At
  PROVE  /\ TypeThrough(s, now) \in Suggestion \cup {None}
         /\ TypeThrough(s, now) # None => s # None
         /\ TypeThrough(s, now) = None \/ (Whole(s) => Fits(TypeThrough(s, now), now))
<1>1. CASE s # None /\ Agrees(s, now)
  <2>1. s \in Suggestion /\ s.at \in At /\ s.rest \in Nat \ {0} /\ TypeThrough(s, now) = Consume(s, now)
    BY <1>1 DEF Suggestion, TypeThrough
  <2>2. s.at.typed \in Nat /\ now.typed \in Nat
    BY <2>1, AtFields
  <2>3. s.at.typed + s.rest - now.typed \in Nat \ {0}
    BY <1>1, <2>1, <2>2 DEF Agrees
  <2>4. Consume(s, now) \in Suggestion
    BY <2>3 DEF Consume, Suggestion
  <2>5. Whole(s) => Fits(Consume(s, now), now)
    <3> SUFFICES ASSUME Whole(s) PROVE Fits(Consume(s, now), now)
      OBVIOUS
    <3>1. Consume(s, now).at = now /\ Consume(s, now).rest = s.at.typed + s.rest - now.typed
      BY DEF Consume
    <3>2. Word[now.place] = s.at.typed + s.rest
      BY <1>1 DEF Agrees, Whole
    <3>3. QED
      BY <2>1, <2>2, <3>1, <3>2 DEF Fits
  <2>6. QED
    BY <1>1, <2>1, <2>4, <2>5
<1>2. CASE ~(s # None /\ Agrees(s, now))
  BY <1>2 DEF TypeThrough
<1>3. QED
  BY <1>1, <1>2

(* So does what a completion finds, where it was asked for. *)
LEMMA FoundSuggestion ==
  ASSUME NEW at \in At
  PROVE  /\ Found(at) \in Suggestion \cup {None}
         /\ Found(at) = None \/ (Whole(Found(at)) /\ Fits(Found(at), at))
<1>1. at.typed \in Nat /\ Word[at.place] \in Nat
  BY AtFields
<1>2. CASE at.typed < Word[at.place]
  <2>1. Found(at) = [at |-> at, rest |-> Word[at.place] - at.typed] /\ Word[at.place] - at.typed \in Nat \ {0}
    BY <1>1, <1>2 DEF Found
  <2>2. QED
    BY <1>1, <2>1 DEF Suggestion, Whole, Fits
<1>3. CASE ~(at.typed < Word[at.place])
  BY <1>3 DEF Found
<1>4. QED
  BY <1>2, <1>3

(* And what is shown when the answer comes. *)
LEMMA AssignedSuggestion ==
  ASSUME NEW req, NEW d \in Docs, d = req.buf.doc, Assign(req), Wanted(req), CursorKnown, cursor[d] \in At,
         suggestions \in [Docs -> Suggestion \cup {None}]
  PROVE  /\ suggestions' \in [Docs -> Suggestion \cup {None}]
         /\ \A c \in Docs : c # d => suggestions'[c] = suggestions[c]
         /\ suggestions'[d] \in {suggestions[d], None} \/ Fits(suggestions'[d], cursor[d])
<1>1. CASE UNCHANGED suggestions
  BY <1>1
<1>2. CASE ~UNCHANGED suggestions
  <2>1. PICK found \in {Found(req.at), None} :
          suggestions' = [suggestions EXCEPT ![d] =
                            IF text[d] # req.text THEN AssignLate(found, cursor[d], @)
                            ELSE IF Pos(cursor[d]) = Pos(req.at) THEN found ELSE @]
    BY <1>2 DEF Assign
  <2>2. /\ req.at \in At /\ found \in Suggestion \cup {None}
        /\ found # None => Whole(found) /\ Fits(found, req.at)
    BY <2>1, FoundSuggestion DEF Wanted
  <2> DEFINE new == IF text[d] # req.text THEN AssignLate(found, cursor[d], suggestions[d])
                    ELSE IF Pos(cursor[d]) = Pos(req.at) THEN found ELSE suggestions[d]
  <2>3. suggestions' = [suggestions EXCEPT ![d] = new]
    BY <2>1
  <2>4. /\ new \in Suggestion \cup {None}
        /\ new \in {suggestions[d], None} \/ Fits(new, cursor[d])
    <3>1. CASE text[d] # req.text
      <4>1. /\ TypeThrough(found, cursor[d]) \in Suggestion \cup {None}
            /\ TypeThrough(found, cursor[d]) # None => found # None
            /\ TypeThrough(found, cursor[d]) = None \/ (Whole(found) => Fits(TypeThrough(found, cursor[d]), cursor[d]))
        BY <2>2, KeptSuggestion
      <4>2. new = IF TypeThrough(found, cursor[d]) # None THEN TypeThrough(found, cursor[d]) ELSE suggestions[d]
        BY <3>1 DEF AssignLate
      <4> HIDE DEF new
      <4>3. QED
        BY <2>2, <4>1, <4>2
    <3>2. CASE text[d] = req.text /\ Pos(cursor[d]) = Pos(req.at)
      <4>1. cursor[d] = req.at
        BY <3>2 DEF Wanted, CursorKnown, Apart
      <4>2. new = found
        BY <3>2
      <4> HIDE DEF new
      <4>3. QED
        BY <2>2, <4>1, <4>2
    <3>3. CASE text[d] = req.text /\ Pos(cursor[d]) # Pos(req.at)
      <4>1. new = suggestions[d]
        BY <3>3
      <4> HIDE DEF new
      <4>2. QED
        BY <4>1
    <3>4. QED
      BY <3>1, <3>2, <3>3
  <2> HIDE DEF new
  <2>5. QED
    BY <2>3, <2>4
<1>3. QED
  BY <1>1, <1>2

(* The next version of an open buffer is later than all that was pushed. *)
LEMMA NextVersion ==
  ASSUME TypeOK, BuffersInOrder, RequestsInOrder, NEW d \in open,
         NEW txt \in Nat, NEW i \in Nat, NEW ask \in SUBSET Question, NEW at \in At,
         version' = [version EXCEPT ![d] = @ + 1],
         PushRequest(NewRequest(d, txt, version[d] + 1, i, ask, at)),
         UNCHANGED <<gen, pc, reqs, server>>
  PROVE  /\ NewRequest(d, txt, version[d] + 1, i, ask, at) \in Request
         /\ QueueOK' /\ wake' \in BOOLEAN
         /\ version' \in [Docs -> Nat]
         /\ RequestsInOrder'
<1> DEFINE req == NewRequest(d, txt, version[d] + 1, i, ask, at)
<1>1. /\ d \in Docs /\ gen[d] \in 1 .. MaxOpens /\ gen[d] \in Nat
      /\ \A c \in Docs : gen[c] \in Nat /\ version[c] \in Nat
  BY BoundsAssumption DEF TypeOK, BuffersInOrder
<1>2. version' \in [Docs -> Nat] /\ \A c \in Docs : version'[c] = IF c = d THEN version[d] + 1 ELSE version[c]
  BY <1>1, BoundsAssumption DEF TypeOK
<1>3. req \in Request
  BY <1>1 DEF NewRequest, BufOf, Request, Buf
<1>4. req.buf.doc = d /\ req.buf.gen = gen[d] /\ req.version = version[d] + 1
  BY DEF NewRequest, BufOf
<1>5. PushRequest(req)
  OBVIOUS
<1>6. srvVersion \in [Docs -> [gen : Nat, version : Nat]] /\ QueueOK /\ reqs \in Seq(Request)
  BY DEF TypeOK, QueueOK
<1>7. PICK r \in Request : r = req
  BY <1>3
<1>8. PushRequest(r) /\ r.buf.doc = d /\ r.buf.gen = gen[d] /\ r.version = version[d] + 1
  BY <1>4, <1>5, <1>7
<1> HIDE DEF req
<1>9. /\ \A g, v \in Nat : Past(g, v, r.buf.doc) => After(r, g, v)
      /\ \A c \in Docs, g, v \in Nat : Past(g, v, c) => Past(g, v, c)'
  BY <1>1, <1>2, <1>8 DEF Past, After
<1>10. Past(r.buf.gen, r.version, r.buf.doc)'
  BY <1>1, <1>2, <1>8 DEF Past
<1>11. RequestsInOrder'
  BY <1>6, <1>8, <1>9, <1>10, PushedRequests DEF QueueOK
<1>12. QED
  BY <1>2, <1>3, <1>5, <1>6, <1>11, PushedQueue DEF req

LEMMA OpenBufferInv ==
  ASSUME IInv, NEW d \in Docs, OpenBuffer(d)
  PROVE  IInv'
<1> USE DEF IInv, OpenBuffer
<1> DEFINE req == [buf |-> [doc |-> d, gen |-> gen[d] + 1], text |-> text[d] + 1, version |-> 1,
                   imp |-> imp[d], ask |-> {}, at |-> None]
<1>1. \A c \in Docs : gen[c] \in 0 .. MaxOpens /\ gen[c] \in Nat /\ text[c] \in Nat /\ version[c] \in Nat /\ imp[c] \in Nat
  BY BoundsAssumption DEF TypeOK
<1>2. req \in Request /\ PushRequest(req)
  BY <1>1, BoundsAssumption DEF Request, Buf
<1>3. /\ \A c \in Docs : gen'[c] = IF c = d THEN gen[d] + 1 ELSE gen[c]
      /\ \A c \in Docs : version'[c] = IF c = d THEN 1 ELSE version[c]
      /\ \A c \in Docs : text'[c] = IF c = d THEN text[d] + 1 ELSE text[c]
      /\ gen' \in [Docs -> 0 .. MaxOpens] /\ version' \in [Docs -> Nat] /\ text' \in [Docs -> 0 .. MaxText]
  BY <1>1, BoundsAssumption DEF TypeOK
<1>4. QueueOK /\ reqs \in Seq(Request) /\ srvVersion \in [Docs -> [gen : Nat, version : Nat]]
  BY DEF TypeOK, QueueOK
<1>5. RequestsInOrder'
  <2>1. PICK r \in Request : r = req
    BY <1>2
  <2>2. PushRequest(r) /\ r.buf.doc = d /\ r.buf.gen = gen[d] + 1 /\ r.version = 1
    BY <1>2, <2>1
  <2> HIDE DEF req
  <2>3. /\ \A g, v \in Nat : Past(g, v, r.buf.doc) => After(r, g, v)
        /\ \A c \in Docs, g, v \in Nat : Past(g, v, c) => Past(g, v, c)'
    BY <1>1, <1>3, <2>2 DEF Past, After
  <2>4. Past(r.buf.gen, r.version, r.buf.doc)'
    BY <1>1, <1>3, <2>2 DEF Past
  <2>5. QED
    BY <1>4, <2>2, <2>3, <2>4, PushedRequests DEF QueueOK
<1>6. TypeOK'
  <2>1. QueueOK' /\ wake' \in BOOLEAN
    BY <1>2, <1>4, PushedQueue
  <2>2. QED
    BY <1>3, <2>1 DEF TypeOK, QueueOK, format, state, known, server
<1>7. BuffersInOrder'
  BY <1>1, <1>3 DEF BuffersInOrder, state
<1>8. WaitsForCurrent' /\ FormatIsAnswered'
  BY NotWaiting DEF Free, format
<1>9. AppliedFit'
  BY DEF AppliedFit, EditsFit, ImportedOnce, Free, format
<1>10. SyncedIsKnown' /\ LoopInOrder' /\ CommandsInOrder' /\ RequestsFit'
  BY KeptSynced, KeptLoop, KeptCommands, KeptFit
<1>11. QED
  BY <1>5, <1>6, <1>7, <1>8, <1>9, <1>10

LEMMA CloseBufferInv ==
  ASSUME IInv, NEW d \in Docs, CloseBuffer(d)
  PROVE  IInv'
<1> USE DEF IInv, CloseBuffer
<1>1. TypeOK'
  BY DEF TypeOK, format, queue, state, known, server
<1>2. RequestsInOrder'
  BY DEF RequestsInOrder, InOrder, AfterRequest, AfterServer, After, PastRequest, Past, queue, server
<1>3. BuffersInOrder'
  BY DEF BuffersInOrder, TypeOK, state
<1>4. WaitsForCurrent' /\ FormatIsAnswered'
  BY NotWaiting DEF Free, format
<1>5. AppliedFit'
  BY DEF AppliedFit, EditsFit, ImportedOnce, TypeOK, Free, format
<1>6. SyncedIsKnown' /\ LoopInOrder' /\ CommandsInOrder' /\ RequestsFit'
  BY KeptSynced, KeptLoop, KeptCommands, KeptFit
<1>7. QED
  BY <1>1, <1>2, <1>3, <1>4, <1>5, <1>6

LEMMA DismissInv ==
  ASSUME IInv, NEW d \in Docs, Dismiss(d)
  PROVE  IInv'
<1> USE DEF IInv, Dismiss
<1>1. TypeOK'
  BY DEF TypeOK, format, queue, state, known, server
<1>2. RequestsInOrder'
  BY DEF RequestsInOrder, InOrder, AfterRequest, AfterServer, After, PastRequest, Past, queue, server
<1>3. BuffersInOrder'
  BY DEF BuffersInOrder, TypeOK, state
<1>4. WaitsForCurrent' /\ FormatIsAnswered'
  BY NotWaiting DEF Free, format
<1>5. AppliedFit'
  BY DEF AppliedFit, EditsFit, ImportedOnce, TypeOK, Free, format
<1>6. SyncedIsKnown' /\ LoopInOrder' /\ CommandsInOrder' /\ RequestsFit'
  BY KeptSynced, KeptLoop, KeptCommands, KeptFit
<1>7. QED
  BY <1>1, <1>2, <1>3, <1>4, <1>5, <1>6

LEMMA MoveCursorInv ==
  ASSUME IInv, NEW d \in Docs, MoveCursor(d)
  PROVE  IInv'
<1> USE DEF IInv, MoveCursor
<1>1. {cursor', edited'} \subseteq [Docs -> At] /\ TypeOK'
  BY DEF TypeOK, format, queue, state, known, server
<1>2. RequestsInOrder'
  BY DEF RequestsInOrder, InOrder, AfterRequest, AfterServer, After, PastRequest, Past, queue, server
<1>3. BuffersInOrder'
  BY DEF BuffersInOrder, TypeOK, state
<1>4. WaitsForCurrent' /\ FormatIsAnswered'
  BY NotWaiting DEF Free, format
<1>5. AppliedFit'
  BY DEF AppliedFit, EditsFit, ImportedOnce, TypeOK, Free, format
<1>6. SyncedIsKnown' /\ LoopInOrder' /\ CommandsInOrder' /\ RequestsFit'
  BY KeptSynced, KeptLoop, KeptCommands, KeptFit
<1>7. QED
  BY <1>1, <1>2, <1>3, <1>4, <1>5, <1>6

(* An edit, of a key, of the formatting or of an import, when the loop waits for nothing more. *)
LEMMA AfterEditInv ==
  ASSUME IInv, NEW d \in open, NEW i \in Nat, Bare \/ i \leq 1, AfterEdit(d, i),
         waiting' = None, reply' \in Nat \cup {None, Nothing, Garbage}, inbox' \in {inbox, None},
         UNCHANGED <<gen, open, closing, pc, reqs, sending, state, known, server>>
  PROVE  IInv'
<1> USE DEF IInv
<1> PICK now \in At : AfterEditAt(d, i, now)
  BY DEF AfterEdit
<1>1. d \in Docs /\ \A c \in Docs : text[c] \in Nat /\ text[c] \in 0 .. MaxText
  BY BoundsAssumption DEF TypeOK
<1>2. /\ \A c \in Docs : text'[c] = IF c = d THEN text[d] + 1 ELSE text[c]
      /\ \A c \in Docs : imp'[c] = IF c = d THEN i ELSE imp[c]
      /\ text' \in [Docs -> 0 .. MaxText] /\ imp' \in [Docs -> Nat]
      /\ {cursor', edited'} \subseteq [Docs -> At]
  BY <1>1, BoundsAssumption DEF TypeOK, AfterEditAt
<1>3. /\ QueueOK' /\ wake' \in BOOLEAN
      /\ version' \in [Docs -> Nat]
      /\ suggestions' \in [Docs -> Suggestion \cup {None}]
      /\ \A c \in Docs : suggestions'[c] # None => suggestions[c] # None
      /\ RequestsInOrder'
  <2>1. CASE down
    <3>1. UNCHANGED <<version, suggestions, queue>> /\ ~ready
      BY <2>1 DEF AfterEditAt, LoopInOrder
    <3>2. \A c \in Docs : suggestions[c] = None
      BY <3>1 DEF BuffersInOrder
    <3>3. RequestsInOrder'
      BY <3>1 DEF RequestsInOrder, InOrder, AfterRequest, AfterServer, After, PastRequest, Past, queue, server
    <3>4. QED
      BY <3>1, <3>2, <3>3 DEF TypeOK, QueueOK, queue
  <2>2. CASE ~down
    <3>1. version' = [version EXCEPT ![d] = @ + 1]
      BY <2>2 DEF AfterEditAt
    <3>2. PICK ask \in SUBSET {"completion", "imports"} :
            /\ suggestions' = [suggestions EXCEPT ![d] =
                                 IF "completion" \in ask THEN TypeThrough(@, now) ELSE None]
            /\ PushRequest(NewRequest(d, text[d] + 1, version[d] + 1, i, ask, now))
      BY <2>2 DEF AfterEditAt
    <3>3. ask \in SUBSET Question /\ text[d] + 1 \in Nat
      BY <1>1 DEF Question
    <3>4. /\ QueueOK' /\ wake' \in BOOLEAN
          /\ version' \in [Docs -> Nat]
          /\ RequestsInOrder'
      BY <3>1, <3>2, <3>3, NextVersion
    <3>5. suggestions \in [Docs -> Suggestion \cup {None}]
      BY DEF TypeOK
    <3>6. /\ TypeThrough(suggestions[d], now) \in Suggestion \cup {None}
          /\ TypeThrough(suggestions[d], now) # None => suggestions[d] # None
      BY <1>1, <3>5, KeptSuggestion
    <3>7. QED
      BY <1>1, <3>2, <3>4, <3>5, <3>6
  <2>3. QED
    BY <2>1, <2>2
<1>4. TypeOK'
  BY <1>2, <1>3 DEF TypeOK, QueueOK, state, known, server
<1>5. BuffersInOrder'
  BY <1>3 DEF BuffersInOrder, state
<1>6. AppliedFit'
  BY <1>2, <1>3 DEF AppliedFit, EditsFit, ImportedOnce
<1>7. CommandsInOrder'
  BY DEF CommandsInOrder, state
<1>8. SyncedIsKnown' /\ LoopInOrder' /\ RequestsFit' /\ WaitsForCurrent' /\ FormatIsAnswered'
  BY KeptSynced, KeptLoop, KeptFit, NotWaiting
<1>9. QED
  BY <1>3, <1>4, <1>5, <1>6, <1>7, <1>8

LEMMA EditInv ==
  ASSUME IInv, NEW d \in Docs, Edit(d)
  PROVE  IInv'
<1>1. d \in open /\ imp[d] \in Nat /\ (Bare \/ imp[d] \leq 1)
  BY DEF Edit, IInv, TypeOK, AppliedFit, EditsFit, ImportedOnce
<1>2. /\ AfterEdit(d, imp[d]) /\ waiting' = None /\ inbox' \in {inbox, None}
      /\ reply' \in Nat \cup {None, Nothing, Garbage}
      /\ UNCHANGED <<gen, open, closing, pc, reqs, sending, state, known, server>>
  BY DEF Edit, Free, IInv, TypeOK, format
<1>3. QED
  BY <1>1, <1>2, AfterEditInv

LEMMA FindDefinitionInv ==
  ASSUME IInv, NEW d \in Docs, FindDefinition(d)
  PROVE  IInv'
<1> USE DEF IInv, FindDefinition
<1>1. d \in open /\ text[d] \in Nat /\ imp[d] \in Nat /\ {"definition"} \in SUBSET Question /\ cursor[d] \in At
  BY BoundsAssumption DEF TypeOK, Question
<1>2. QueueOK' /\ wake' \in BOOLEAN /\ version' \in [Docs -> Nat] /\ RequestsInOrder'
  BY <1>1, NextVersion
<1>3. TypeOK'
  BY <1>2 DEF TypeOK, QueueOK, format, state, known, server
<1>4. BuffersInOrder'
  BY DEF BuffersInOrder, state
<1>5. AppliedFit'
  BY DEF AppliedFit, EditsFit, ImportedOnce, format
<1>6. SyncedIsKnown' /\ LoopInOrder' /\ CommandsInOrder' /\ RequestsFit' /\ WaitsForCurrent' /\ FormatIsAnswered'
  BY KeptSynced, KeptLoop, KeptCommands, KeptFit, NotWaiting DEF Free, format
<1>7. QED
  BY <1>2, <1>3, <1>4, <1>5, <1>6

LEMMA BeginFormatInv ==
  ASSUME IInv, NEW d \in Docs, BeginFormat(d)
  PROVE  IInv'
<1> USE DEF IInv, BeginFormat
<1> DEFINE req == NewRequest(d, text[d], version[d] + 1, imp[d], {"format"}, cursor[d])
<1>1. /\ d \in open /\ text[d] \in Nat /\ imp[d] \in Nat /\ {"format"} \in SUBSET Question /\ cursor[d] \in At
      /\ version[d] \in Nat /\ gen[d] \in Nat
  BY BoundsAssumption DEF TypeOK, Question
<1>2. /\ QueueOK' /\ wake' \in BOOLEAN /\ version' \in [Docs -> Nat] /\ RequestsInOrder'
      /\ req \in Request
  BY <1>1, NextVersion
<1>3. version'[d] = version[d] + 1
  BY <1>1 DEF TypeOK
<1>4. TypeOK'
  BY <1>2 DEF TypeOK, QueueOK, state, known, server
<1>5. BuffersInOrder'
  BY DEF BuffersInOrder, state
<1>6. AppliedFit'
  BY DEF AppliedFit, EditsFit, ImportedOnce
<1>7. req.buf = BufOf(d) /\ req.version = version[d] + 1 /\ req.text = text[d] /\ req.ask = {"format"}
      /\ req.buf.doc = d /\ req.buf.gen = gen[d] /\ waiting' = req /\ PushRequest(req)
  BY DEF NewRequest, BufOf
<1> HIDE DEF req
<1>8. /\ \A i \in DOMAIN pending' : \/ i \in DOMAIN pending /\ pending'[i].buf # req.buf
                                    \/ pending'[i].text = req.text
      /\ \E i \in DOMAIN pending' : SameRequest(pending'[i], req) /\ req.ask \subseteq pending'[i].ask
  <2>1. pending' = AddRequest(pending, req) /\ QueueOK
    BY <1>7 DEF PushRequest, TypeOK, QueueOK
  <2> DEFINE n == AddRequest(pending, req)
  <2>2. pending \in Seq(Request) /\ \A i, j \in DOMAIN pending : pending[i].buf = pending[j].buf => i = j
    BY <2>1 DEF QueueOK
  <2>3. /\ \A i \in DOMAIN n : \/ i \in DOMAIN pending /\ n[i].buf # req.buf /\ n[i] = pending[i]
                               \/ SameRequest(n[i], req) /\ n[i].text = req.text
        /\ \E i \in DOMAIN n : SameRequest(n[i], req) /\ req.ask \subseteq n[i].ask
    BY <1>2, <2>2, AddedRequest
  <2> HIDE DEF n
  <2>4. QED
    BY <2>1, <2>3 DEF n
<1>9. \A i \in DOMAIN reqs : ~SameRequest(reqs[i], req)
  <2> SUFFICES ASSUME NEW i \in DOMAIN reqs, SameRequest(reqs[i], req) PROVE FALSE
    OBVIOUS
  <2>1. PastRequest(reqs[i]) /\ reqs[i].buf = req.buf /\ reqs[i].version = version[d] + 1
    BY <1>7 DEF RequestsInOrder, SameRequest
  <2>2. QED
    BY <1>1, <1>7, <2>1 DEF PastRequest, Past
<1>10. WaitsForCurrent'
  <2>1. waiting'.buf.doc = d /\ d \in open' /\ waiting'.buf = BufOf(d)' /\ waiting'.version = version'[d]
        /\ waiting'.text = text'[d]
    BY <1>3, <1>7 DEF BufOf
  <2>2. \A i \in DOMAIN pending' : SameRequest(pending'[i], waiting') => pending'[i].text = waiting'.text
    BY <1>7, <1>8 DEF SameRequest
  <2>3. \A i \in DOMAIN reqs' : SameRequest(reqs'[i], waiting') => reqs'[i].text = waiting'.text
    BY <1>7, <1>9
  <2>4. QED
    BY <2>1, <2>2, <2>3 DEF WaitsForCurrent, SameRequest
<1>11. FormatIsAnswered'
  <2>1. PICK i \in DOMAIN pending' : SameRequest(pending'[i], req) /\ req.ask \subseteq pending'[i].ask
    BY <1>8
  <2>2. pending'[i].buf = waiting'.buf /\ pending'[i].version = waiting'.version /\ "format" \in pending'[i].ask
    BY <1>7, <2>1 DEF SameRequest
  <2>3. QED
    BY <2>2 DEF FormatIsAnswered
<1>12. SyncedIsKnown' /\ LoopInOrder' /\ CommandsInOrder' /\ RequestsFit'
  BY KeptSynced, KeptLoop, KeptCommands, KeptFit
<1>13. QED
  BY <1>2, <1>4, <1>5, <1>6, <1>10, <1>11, <1>12

(* The loop does not wait any more, and nothing else changes. *)
LEMMA EndWait ==
  ASSUME IInv, waiting' = None, reply' \in Nat \cup {None, Nothing, Garbage}, inbox' \in {inbox, None},
         closing' \in BOOLEAN, UNCHANGED <<editor, queue, pc, reqs, sending, state, known, server>>
  PROVE  IInv'
<1> USE DEF IInv
<1>1. TypeOK'
  BY DEF TypeOK, editor, queue, state, known, server
<1>2. AppliedFit'
  BY DEF AppliedFit, EditsFit, ImportedOnce, editor
<1>3. CommandsInOrder'
  BY DEF CommandsInOrder, state
<1>4. QED
  BY <1>1, <1>2, <1>3, KeptSynced, KeptLoop, KeptBuffers, KeptFit, KeptRequests, NotWaiting DEF queue

LEMMA EndFormatInv ==
  ASSUME IInv, EndFormat
  PROVE  IInv'
<1> DEFINE d == waiting.buf.doc
<1>1. /\ waiting' = None /\ reply' \in Nat \cup {None, Nothing, Garbage} /\ inbox' \in {inbox, None}
      /\ closing' \in BOOLEAN
      /\ UNCHANGED <<gen, open, closing, pc, reqs, sending, state, known, server>>
  BY DEF EndFormat, IInv, TypeOK
<1>2. CASE AfterEdit(d, imp[d])
  <2>1. d \in open
    BY DEF EndFormat, IInv, WaitsForCurrent
  <2>2. imp[d] \in Nat /\ (Bare \/ imp[d] \leq 1)
    BY <2>1 DEF IInv, TypeOK, AppliedFit, EditsFit, ImportedOnce
  <2>3. QED
    BY <1>1, <1>2, <2>1, <2>2, AfterEditInv
<1>3. CASE UNCHANGED <<text, imp, version, cursor, edited, suggestions, queue>>
  BY <1>1, <1>3, EndWait DEF editor
<1>4. QED
  BY <1>2, <1>3 DEF EndFormat

LEMMA FormatTimeoutInv ==
  ASSUME IInv, FormatTimeout
  PROVE  IInv'
<1>1. /\ waiting' = None /\ reply' \in Nat \cup {None, Nothing, Garbage} /\ inbox' \in {inbox, None}
      /\ closing' \in BOOLEAN
  BY DEF FormatTimeout, IInv, TypeOK
<1>2. QED
  BY <1>1, EndWait DEF FormatTimeout

LEMMA BeginCloseInv ==
  ASSUME IInv, BeginClose
  PROVE  IInv'
<1>1. /\ waiting' = None /\ reply' \in Nat \cup {None, Nothing, Garbage} /\ inbox' \in {inbox, None}
      /\ closing' \in BOOLEAN
  BY DEF BeginClose, Free, format, IInv, TypeOK
<1>2. QED
  BY <1>1, EndWait DEF BeginClose

LEMMA RunCommandInv ==
  ASSUME IInv, CInv, RunCommand
  PROVE  IInv'
<1> DEFINE req == inbox.req
           d == req.buf.doc
           current == d \in open /\ req.buf = BufOf(d)
<1>1. /\ inbox # None /\ inbox' = None /\ waiting' = None
      /\ reply' \in Nat \cup {None, Nothing, Garbage} /\ closing' \in BOOLEAN
      /\ UNCHANGED <<gen, open, format, closing, pc, reqs, sending, state, known, server>>
  BY DEF RunCommand, Free, format, IInv, TypeOK
<1>2. ready /\ (inbox.do = "imports" => req.imp = 0)
  BY <1>1 DEF IInv, CommandsInOrder
<1>3. CASE inbox.do = "imports" /\ current /\ SameHeader(req) /\ AfterEdit(d, imp[d] + 1)
  <2>1. d \in open /\ imp[d] \in Nat
    BY <1>3 DEF IInv, TypeOK
  <2>2. imp[d] + 1 \in Nat /\ (Bare \/ imp[d] + 1 \leq 1)
    BY <1>2, <1>3, <2>1 DEF SameHeader
  <2>3. QED
    BY <1>1, <1>3, <2>1, <2>2, AfterEditInv
<1>4. CASE UNCHANGED <<text, imp, version, cursor, edited, suggestions, queue>>
  BY <1>1, <1>4, EndWait DEF editor
<1>5. CASE inbox.do = "completion" /\ current /\ Assign(req) /\ UNCHANGED <<text, imp, version, cursor, edited, queue>>
  <2> USE DEF IInv
  <2>1. d \in open /\ d \in Docs /\ cursor[d] \in At /\ suggestions \in [Docs -> Suggestion \cup {None}]
    BY <1>5 DEF TypeOK
  <2>2. Wanted(req) /\ CursorKnown
    BY <1>1, <1>5 DEF CInv, CompletionsKnown, KnownCommand
  <2>3. /\ suggestions' \in [Docs -> Suggestion \cup {None}]
        /\ \A c \in Docs : c # d => suggestions'[c] = suggestions[c]
    BY <1>5, <2>1, <2>2, AssignedSuggestion
  <2>4. TypeOK'
    BY <1>1, <1>5, <2>3 DEF TypeOK, queue, state, known, server
  <2>5. RequestsInOrder'
    BY <1>1, <1>5 DEF RequestsInOrder, InOrder, AfterRequest, AfterServer, After, PastRequest, Past, queue, server
  <2>6. BuffersInOrder'
    BY <1>1, <1>2, <2>1, <2>3 DEF BuffersInOrder, state
  <2>7. AppliedFit'
    BY <1>1, <1>5 DEF AppliedFit, EditsFit, ImportedOnce
  <2>8. CommandsInOrder'
    BY <1>1 DEF CommandsInOrder, state
  <2>9. QED
    BY <1>1, <2>4, <2>5, <2>6, <2>7, <2>8, KeptSynced, KeptLoop, KeptFit, NotWaiting
<1>6. QED
  BY <1>3, <1>4, <1>5 DEF RunCommand

-----------------------------------------------------------------------------
(* The sync loop. *)

LEMMA FirstRequest ==
  ASSUME NEW q \in Seq(Request), q # <<>>
  PROVE  /\ Len(q) \in Nat \ {0} /\ DOMAIN q = 1 .. Len(q)
         /\ Head(q) = q[1] /\ q[1] \in Request /\ 1 \in DOMAIN q
         /\ Tail(q) \in Seq(Request) /\ DOMAIN Tail(q) = 1 .. Len(q) - 1
         /\ \A i \in 1 .. Len(q) - 1 : Tail(q)[i] = q[i + 1] /\ i + 1 \in DOMAIN q
BY EmptySeq, LenProperties, ElementOfSeq, HeadTailProperties

(* The requests after a question of the first one is asked. *)
AskedOf(q, a) == <<[Head(q) EXCEPT !.ask = @ \ {a}]>> \o Tail(q)

LEMMA AskedRequest ==
  ASSUME NEW q \in Seq(Request), q # <<>>, NEW a
  PROVE  LET n == AskedOf(q, a) IN
         /\ n \in Seq(Request) /\ n # <<>>
         /\ DOMAIN n = DOMAIN q
         /\ \A i \in DOMAIN q : /\ SameRequest(n[i], q[i]) /\ n[i].text = q[i].text /\ n[i].at = q[i].at
                                /\ n[i].ask = IF i = 1 THEN q[i].ask \ {a} ELSE q[i].ask
<1> DEFINE r == [Head(q) EXCEPT !.ask = @ \ {a}]
           n == AskedOf(q, a)
<1>1. Len(q) \in Nat \ {0} /\ DOMAIN q = 1 .. Len(q) /\ Head(q) = q[1] /\ q[1] \in Request
  BY FirstRequest
<1>2. /\ r \in Request /\ SameRequest(r, q[1]) /\ r.text = q[1].text /\ r.at = q[1].at /\ r.ask = q[1].ask \ {a}
  BY <1>1 DEF Request, SameRequest
<1>3. Tail(q) \in Seq(Request) /\ Len(Tail(q)) = Len(q) - 1 /\ \A i \in 1 .. Len(q) - 1 : Tail(q)[i] = q[i + 1]
  BY HeadTailProperties, LenProperties, EmptySeq
<1>4. n = <<r>> \o Tail(q)
  BY DEF AskedOf
<1> HIDE DEF r, n
<1>5. <<r>> \in Seq(Request) /\ Len(<<r>>) = 1 /\ <<r>>[1] = r
  BY <1>2
<1>6. /\ n \in Seq(Request) /\ Len(n) = 1 + Len(Tail(q))
      /\ \A i \in 1 .. Len(n) : n[i] = IF i \leq 1 THEN <<r>>[i] ELSE Tail(q)[i - 1]
  <2> DEFINE joined == <<r>> \o Tail(q)
  <2>1. /\ joined \in Seq(Request) /\ Len(joined) = Len(<<r>>) + Len(Tail(q))
        /\ \A i \in 1 .. Len(<<r>>) + Len(Tail(q)) :
             joined[i] = IF i \leq Len(<<r>>) THEN <<r>>[i] ELSE Tail(q)[i - Len(<<r>>)]
    BY <1>3, <1>5, ConcatProperties
  <2> HIDE DEF joined
  <2>2. n = joined
    BY <1>4 DEF joined
  <2>3. QED
    BY <1>5, <2>1, <2>2
<1>7. /\ DOMAIN n = 1 .. Len(q) /\ n # <<>>
      /\ n[1] = r /\ \A i \in 2 .. Len(q) : n[i] = q[i]
  BY <1>1, <1>3, <1>5, <1>6, LenProperties, EmptySeq
<1>8. \A i \in DOMAIN q : /\ SameRequest(n[i], q[i]) /\ n[i].text = q[i].text /\ n[i].at = q[i].at
                          /\ n[i].ask = IF i = 1 THEN q[i].ask \ {a} ELSE q[i].ask
  <2> SUFFICES ASSUME NEW i \in 1 .. Len(q)
               PROVE  /\ SameRequest(n[i], q[i]) /\ n[i].text = q[i].text /\ n[i].at = q[i].at
                      /\ n[i].ask = IF i = 1 THEN q[i].ask \ {a} ELSE q[i].ask
    BY <1>1
  <2>1. CASE i = 1
    BY <1>2, <1>7, <2>1
  <2>2. CASE i # 1
    BY <1>1, <1>7, <2>2 DEF SameRequest
  <2>3. QED
    BY <2>1, <2>2
<1>9. QED
  BY <1>1, <1>6, <1>7, <1>8 DEF n

(* The server gets the current request: the change fits the text it has, and it is newer. *)
LEMMA DeliveredText ==
  ASSUME TypeOK, RequestsInOrder, SyncedIsKnown, pc = "text", reqs # <<>>, Deliver(Req)
  PROVE  /\ Req \in Request /\ Req = reqs[1]
         /\ srvText' = [srvText EXCEPT ![Req.buf.doc] = Req.text]
         /\ srvVersion' = [srvVersion EXCEPT ![Req.buf.doc] = [gen |-> Req.buf.gen, version |-> Req.version]]
         /\ After(Req, srvVersion[Req.buf.doc].gen, srvVersion[Req.buf.doc].version)
<1>1. Req \in Request /\ Req = reqs[1] /\ 1 \in DOMAIN reqs
  BY FirstRequest DEF TypeOK, Req
<1>2. After(Req, srvVersion[Req.buf.doc].gen, srvVersion[Req.buf.doc].version)
  BY <1>1 DEF RequestsInOrder, AfterServer
<1>3. /\ Req.buf.doc \in Docs /\ Req.buf.gen \in Nat
      /\ srvVersion[Req.buf.doc].gen \in Nat
  BY <1>1, RequestFields DEF TypeOK
<1>4. IsNewer(Req)
  BY <1>2 DEF IsNewer, After
<1>5. Changed(Req) = Req.text
  <2>1. CASE Req.buf \in serverSynced
    <3>1. srvVersion[Req.buf.doc].gen = Req.buf.gen
      BY <1>2, <1>3, <2>1 DEF SyncedIsKnown, After
    <3>2. srvText[Req.buf.doc] = serverText[Req.buf]
      BY <2>1, <3>1 DEF SyncedIsKnown
    <3>3. QED
      BY <3>2 DEF Changed
  <2>2. CASE Req.buf \notin serverSynced
    BY <2>2 DEF Changed, SendsDiff
  <2>3. QED
    BY <2>1, <2>2
<1>6. QED
  BY <1>1, <1>2, <1>4, <1>5 DEF Deliver

(* What is left of the requests is later than what the server has. *)
LEMMA ServedRequests ==
  ASSUME TypeOK, RequestsInOrder, reqs # <<>>, UNCHANGED <<editor, pending>>,
         \/ UNCHANGED srvVersion
         \/ srvVersion' = [srvVersion EXCEPT ![Req.buf.doc] = [gen |-> Req.buf.gen, version |-> Req.version]],
         NEW k \in {0, 1}, k = 0 => pc' = "ask",
         DOMAIN reqs' = 1 .. Len(reqs) - k,
         \A i \in DOMAIN reqs' : SameRequest(reqs'[i], reqs[i + k])
  PROVE  RequestsInOrder'
<1>1. /\ Len(reqs) \in Nat \ {0} /\ DOMAIN reqs = 1 .. Len(reqs) /\ Req = reqs[1]
      /\ \A i \in DOMAIN reqs : reqs[i] \in Request
      /\ \A i \in DOMAIN pending : pending[i] \in Request
  BY FirstRequest, QueueType DEF TypeOK, Req
<1>2. \A r \in Request : r.buf \in Buf /\ r.buf.doc \in Docs /\ r.buf.gen \in Nat /\ r.version \in Nat
  BY RequestFields
<1>3. \A i \in DOMAIN reqs' : i + k \in DOMAIN reqs /\ i \in Nat \ {0}
  BY <1>1
<1>4. \A r \in Request : AfterRequest(r, Req) /\ AfterServer(r)
                           => After(r, srvVersion'[r.buf.doc].gen, srvVersion'[r.buf.doc].version)
  <2> SUFFICES ASSUME NEW r \in Request, AfterRequest(r, Req), AfterServer(r)
               PROVE  After(r, srvVersion'[r.buf.doc].gen, srvVersion'[r.buf.doc].version)
    OBVIOUS
  <2>1. CASE r.buf.doc = Req.buf.doc /\ ~UNCHANGED srvVersion
    <3>1. r.buf.doc \in DOMAIN srvVersion
      BY <1>2 DEF TypeOK
    <3>2. srvVersion'[r.buf.doc] = [gen |-> Req.buf.gen, version |-> Req.version]
      BY <2>1, <3>1
    <3>3. srvVersion'[r.buf.doc].gen = Req.buf.gen /\ srvVersion'[r.buf.doc].version = Req.version
      BY <3>2
    <3>4. QED
      BY <2>1, <3>3 DEF AfterRequest
  <2>2. CASE r.buf.doc # Req.buf.doc /\ ~UNCHANGED srvVersion
    BY <1>2, <2>2 DEF AfterServer, TypeOK
  <2>3. CASE UNCHANGED srvVersion
    BY <2>3 DEF AfterServer
  <2>4. QED
    BY <2>1, <2>2, <2>3
<1>5. InOrder(reqs)'
  <2> SUFFICES ASSUME NEW i \in DOMAIN reqs', NEW j \in DOMAIN reqs', i < j
               PROVE  AfterRequest(reqs'[j], reqs'[i])
    BY DEF InOrder, AfterRequest, After
  <2>1. AfterRequest(reqs[j + k], reqs[i + k])
    BY <1>1, <1>3 DEF RequestsInOrder, InOrder
  <2>2. QED
    BY <2>1 DEF AfterRequest, After, SameRequest
<1>6. \A i \in DOMAIN reqs', j \in DOMAIN pending' : AfterRequest(pending'[j], reqs'[i])
  <2> SUFFICES ASSUME NEW i \in DOMAIN reqs', NEW j \in DOMAIN pending
               PROVE  AfterRequest(pending[j], reqs'[i])
    OBVIOUS
  <2>1. AfterRequest(pending[j], reqs[i + k])
    BY <1>3 DEF RequestsInOrder
  <2>2. QED
    BY <2>1 DEF AfterRequest, After, SameRequest
<1>7. \A j \in DOMAIN pending' : AfterServer(pending[j])' /\ PastRequest(pending[j])'
  <2> SUFFICES ASSUME NEW j \in DOMAIN pending
               PROVE  /\ After(pending[j], srvVersion'[pending[j].buf.doc].gen, srvVersion'[pending[j].buf.doc].version)
                      /\ PastRequest(pending[j])
    BY DEF AfterServer, After, PastRequest, Past, editor
  <2>1. AfterRequest(pending[j], Req) /\ AfterServer(pending[j]) /\ PastRequest(pending[j])
    BY <1>1 DEF RequestsInOrder
  <2>2. QED
    BY <1>1, <1>4, <2>1
<1>8. \A i \in DOMAIN reqs' : PastRequest(reqs[i])' /\ (AfterServer(reqs[i])' \/ (pc' = "ask" /\ i = 1))
  <2> SUFFICES ASSUME NEW i \in DOMAIN reqs'
               PROVE  PastRequest(reqs[i])' /\ (AfterServer(reqs[i])' \/ (pc' = "ask" /\ i = 1))
    OBVIOUS
  <2>1. PastRequest(reqs[i + k])
    BY <1>3 DEF RequestsInOrder
  <2>2. PastRequest(reqs[i])'
    BY <2>1 DEF PastRequest, Past, SameRequest, editor
  <2>3. CASE i + k = 1
    BY <1>3, <2>2, <2>3
  <2>4. CASE i + k # 1
    <3>1. i + k \in DOMAIN reqs /\ 1 \in DOMAIN reqs /\ 1 < i + k
      BY <1>1, <1>3, <2>4
    <3>2. AfterRequest(reqs[i + k], Req) /\ AfterServer(reqs[i + k])
      BY <1>1, <3>1 DEF RequestsInOrder, InOrder
    <3>3. After(reqs[i + k], srvVersion'[reqs[i + k].buf.doc].gen, srvVersion'[reqs[i + k].buf.doc].version)
      BY <1>1, <1>4, <3>1, <3>2
    <3>4. QED
      BY <2>2, <3>3 DEF AfterServer, After, SameRequest
  <2>5. QED
    BY <2>3, <2>4
<1>9. \A d \in Docs : Past(srvVersion[d].gen, srvVersion[d].version, d)'
  <2> SUFFICES ASSUME NEW d \in Docs PROVE Past(srvVersion'[d].gen, srvVersion'[d].version, d)
    BY DEF Past, editor
  <2>1. Past(srvVersion[d].gen, srvVersion[d].version, d) /\ PastRequest(Req)
    BY <1>1 DEF RequestsInOrder
  <2>2. CASE srvVersion'[d] = srvVersion[d]
    BY <2>1, <2>2
  <2>3. CASE d = Req.buf.doc /\ srvVersion'[d] = [gen |-> Req.buf.gen, version |-> Req.version]
    BY <2>1, <2>3 DEF PastRequest
  <2>4. QED
    BY <2>2, <2>3 DEF TypeOK
<1>10. InOrder(pending)'
  BY DEF RequestsInOrder, InOrder, AfterRequest, After
<1>11. QED
  BY <1>5, <1>6, <1>7, <1>8, <1>9, <1>10 DEF RequestsInOrder, AfterRequest, After

(* The request that the loop waits for is the one it has asked with. *)
LEMMA ServedWait ==
  ASSUME TypeOK, WaitsForCurrent, reqs # <<>>, UNCHANGED <<editor, waiting, pending>>, NEW k \in {0, 1},
         DOMAIN reqs' = 1 .. Len(reqs) - k,
         \A i \in DOMAIN reqs' : SameRequest(reqs'[i], reqs[i + k]) /\ reqs'[i].text = reqs[i + k].text
  PROVE  WaitsForCurrent'
<1> SUFFICES ASSUME waiting # None PROVE WaitsForCurrent'
  BY DEF WaitsForCurrent
<1>1. \A i \in DOMAIN reqs' : i + k \in DOMAIN reqs
  BY FirstRequest DEF TypeOK
<1>2. \A i \in DOMAIN reqs : SameRequest(reqs[i], waiting) => reqs[i].text = waiting.text
  BY DEF WaitsForCurrent
<1>3. \A i \in DOMAIN reqs' : SameRequest(reqs'[i], waiting) => reqs'[i].text = waiting.text
  BY <1>1, <1>2 DEF SameRequest
<1>4. QED
  BY <1>3 DEF WaitsForCurrent, SameRequest, BufOf, editor

(* The current request is dropped, after it has been replied to. *)
LEMMA DroppedRequest ==
  ASSUME TypeOK, FormatIsAnswered, reqs # <<>>, reqs' = Tail(reqs), UNCHANGED <<waiting, pending>>,
         reply # None => reply' # None,
         waiting # None /\ SameRequest(Req, waiting) /\ "format" \in Req.ask => reply' # None
  PROVE  FormatIsAnswered'
<1> SUFFICES ASSUME waiting # None, reply' = None
             PROVE  \E q \in {pending', reqs'} : \E i \in DOMAIN q :
                      q[i].buf = waiting.buf /\ q[i].version = waiting.version /\ "format" \in q[i].ask
  BY DEF FormatIsAnswered
<1>1. PICK q \in {pending, reqs} : \E i \in DOMAIN q :
        q[i].buf = waiting.buf /\ q[i].version = waiting.version /\ "format" \in q[i].ask
  BY DEF FormatIsAnswered
<1>2. PICK i \in DOMAIN q : q[i].buf = waiting.buf /\ q[i].version = waiting.version /\ "format" \in q[i].ask
  BY <1>1
<1>3. CASE q = pending
  BY <1>2, <1>3
<1>4. CASE q = reqs
  <2>1. /\ Len(reqs) \in Nat \ {0} /\ DOMAIN reqs = 1 .. Len(reqs) /\ Req = reqs[1]
        /\ DOMAIN reqs' = 1 .. Len(reqs) - 1 /\ \A n \in 1 .. Len(reqs) - 1 : reqs'[n] = reqs[n + 1]
    BY FirstRequest DEF TypeOK, Req
  <2>2. i # 1
    BY <1>2, <1>4, <2>1 DEF SameRequest
  <2>3. i - 1 \in DOMAIN reqs' /\ reqs'[i - 1] = reqs[i]
    BY <1>2, <1>4, <2>1, <2>2
  <2>4. QED
    BY <1>2, <1>4, <2>3
<1>5. QED
  BY <1>3, <1>4

LEMMA EndLoopInv ==
  ASSUME IInv, EndLoop
  PROVE  IInv'
<1> USE DEF IInv, EndLoop
<1>1. TypeOK'
  BY DEF TypeOK, editor, format, queue, state, known, server
<1>2. RequestsInOrder'
  BY DEF RequestsInOrder, InOrder, AfterRequest, AfterServer, After, PastRequest, Past, editor, queue, server
<1>3. LoopInOrder' /\ RequestsFit'
  BY DEF LoopInOrder, RequestsFit, state, server
<1>4. QED
  BY <1>1, <1>2, <1>3, KeptSynced, KeptCommands, KeptBuffers, KeptAnswers, KeptWait DEF queue

LEMMA WakeInv ==
  ASSUME IInv, Wake
  PROVE  IInv'
<1> USE DEF IInv, Wake
<1>1. TypeOK'
  BY DEF TypeOK, editor, format, state, known, server
<1>2. RequestsInOrder'
  BY DEF RequestsInOrder, InOrder, AfterRequest, AfterServer, After, PastRequest, Past, editor, server
<1>3. LoopInOrder' /\ RequestsFit'
  BY DEF LoopInOrder, RequestsFit, state, server
<1>4. QED
  BY <1>1, <1>2, <1>3, KeptSynced, KeptCommands, KeptBuffers, KeptAnswers, KeptWait

LEMMA TakeInv ==
  ASSUME IInv, Take
  PROVE  IInv'
<1> USE DEF IInv, Take
<1>1. reqs = <<>> /\ DOMAIN pending' = {} /\ pending' \in Seq(Request) /\ reqs' = pending
  BY DEF LoopInOrder
<1>2. TypeOK'
  BY <1>1 DEF TypeOK, editor, format, state, known, server
<1>3. RequestsInOrder'
  BY <1>1 DEF RequestsInOrder, InOrder, AfterRequest, AfterServer, After, PastRequest, Past, editor, server
<1>4. LoopInOrder' /\ RequestsFit'
  BY DEF LoopInOrder, RequestsFit, state, server
<1>5. WaitsForCurrent'
  BY <1>1 DEF WaitsForCurrent, SameRequest, BufOf, editor, format
<1>6. FormatIsAnswered'
  <2> SUFFICES ASSUME waiting # None, reply = None
               PROVE  \E i \in DOMAIN pending : /\ pending[i].buf = waiting.buf
                                                /\ pending[i].version = waiting.version
                                                /\ "format" \in pending[i].ask
    BY <1>1 DEF FormatIsAnswered, format
  <2>1. PICK q \in {pending, reqs} : \E i \in DOMAIN q :
          q[i].buf = waiting.buf /\ q[i].version = waiting.version /\ "format" \in q[i].ask
    BY DEF FormatIsAnswered
  <2>2. DOMAIN reqs = {}
    BY <1>1
  <2>3. QED
    BY <2>1, <2>2
<1>7. QED
  BY <1>2, <1>3, <1>4, <1>5, <1>6, KeptSynced, KeptCommands, KeptBuffers, KeptAnswers

LEMMA StartInv ==
  ASSUME IInv, Start
  PROVE  IInv'
<1> USE DEF IInv, Start
<1>1. TypeOK'
  BY DEF TypeOK, editor, format, queue, known, server
<1>2. RequestsInOrder'
  BY DEF RequestsInOrder, InOrder, AfterRequest, AfterServer, After, PastRequest, Past, editor, queue, server
<1>3. LoopInOrder' /\ RequestsFit' /\ CommandsInOrder' /\ BuffersInOrder'
  BY DEF LoopInOrder, RequestsFit, CommandsInOrder, BuffersInOrder, TypeOK, editor, server
<1>4. QED
  BY <1>1, <1>2, <1>3, KeptSynced, KeptAnswers, KeptWait DEF queue

LEMMA SyncTextInv ==
  ASSUME IInv, SyncText
  PROVE  IInv'
<1> USE DEF IInv, SyncText
<1> DEFINE b == Req.buf
           d == Req.buf.doc
<1>1. /\ Req \in Request /\ Req = reqs[1]
      /\ srvText' = [srvText EXCEPT ![d] = Req.text]
      /\ srvVersion' = [srvVersion EXCEPT ![d] = [gen |-> Req.buf.gen, version |-> Req.version]]
      /\ After(Req, srvVersion[d].gen, srvVersion[d].version)
  BY DeliveredText
<1>2. d \in Docs /\ b \in Buf /\ b.gen \in Nat /\ Req.version \in Nat /\ Req.text \in Nat
  BY <1>1, RequestFields
<1>3. /\ srvText' \in [Docs -> Nat \cup {None, Garbage}] /\ serverText' \in [Buf -> Nat]
      /\ srvVersion' \in [Docs -> [gen : Nat, version : Nat]]
      /\ \A c \in Docs : srvText'[c] = IF c = d THEN Req.text ELSE srvText[c]
      /\ \A c \in Docs : srvVersion'[c] = IF c = d THEN [gen |-> b.gen, version |-> Req.version] ELSE srvVersion[c]
      /\ \A c \in Buf : serverText'[c] = IF c = b THEN Req.text ELSE serverText[c]
  BY <1>1, <1>2 DEF TypeOK
<1>4. TypeOK'
  BY <1>2, <1>3 DEF TypeOK, editor, format, queue, state
<1>5. RequestsInOrder'
  <2>1. DOMAIN reqs' = 1 .. Len(reqs) - 0 /\ \A i \in DOMAIN reqs' : SameRequest(reqs'[i], reqs[i + 0])
    BY FirstRequest DEF TypeOK, SameRequest
  <2>2. UNCHANGED <<editor, pending>> /\ 0 \in {0, 1} /\ pc' = "ask"
    BY DEF queue
  <2>3. QED
    BY <1>1, <2>1, <2>2, ServedRequests
<1>6. SyncedIsKnown'
  <2> SUFFICES ASSUME NEW c \in serverSynced'
               PROVE  /\ srvVersion'[c.doc].gen \geq c.gen
                      /\ srvVersion'[c.doc].gen = c.gen => srvText'[c.doc] = serverText'[c]
    BY DEF SyncedIsKnown
  <2>1. c \in Buf /\ c.doc \in Docs /\ c.gen \in Nat /\ (c # b => c \in serverSynced)
    BY <1>2, BoundsAssumption DEF TypeOK, Buf
  <2>2. CASE c = b
    BY <1>2, <1>3, <2>2
  <2>3. CASE c # b /\ c.doc # d
    BY <1>3, <2>1, <2>3 DEF SyncedIsKnown
  <2>4. CASE c # b /\ c.doc = d
    <3>1. srvVersion[d].gen \geq c.gen /\ srvVersion[d].gen \in Nat
      BY <1>2, <2>1, <2>4 DEF SyncedIsKnown, TypeOK
    <3>2. b.gen \geq srvVersion[d].gen
      BY <1>1, <1>2, <3>1 DEF After
    <3>3. b.gen # c.gen
      BY <1>2, <2>1, <2>4, SameBuf
    <3>4. QED
      BY <1>2, <1>3, <2>1, <2>4, <3>1, <3>2, <3>3
  <2>5. QED
    BY <2>2, <2>3, <2>4
<1>7. LoopInOrder'
  BY DEF LoopInOrder, state
<1>8. RequestsFit'
  BY <1>2, <1>3, NoneAssumption DEF RequestsFit, Req
<1>9. QED
  BY <1>4, <1>5, <1>6, <1>7, <1>8, KeptCommands, KeptBuffers, KeptAnswers, KeptWait DEF queue

LEMMA FailTextInv ==
  ASSUME IInv, FailText
  PROVE  IInv'
<1> USE DEF IInv, FailText, DropRequest, ForgetSynced
<1> DEFINE b == Req.buf
           d == Req.buf.doc
<1>1. /\ Req \in Request /\ Req = reqs[1]
      /\ reqs' \in Seq(Request) /\ DOMAIN reqs' = 1 .. Len(reqs) - 1
      /\ \A i \in 1 .. Len(reqs) - 1 : reqs'[i] = reqs[i + 1]
  BY FirstRequest DEF TypeOK, Req
<1>2. d \in Docs /\ b \in Buf /\ b.gen \in Nat /\ Req.version \in Nat /\ Req.text \in Nat
  BY <1>1, RequestFields
<1>3. \/ UNCHANGED <<srvText, srvVersion>>
      \/ /\ srvText' = [srvText EXCEPT ![d] = Req.text]
         /\ srvVersion' = [srvVersion EXCEPT ![d] = [gen |-> Req.buf.gen, version |-> Req.version]]
         /\ After(Req, srvVersion[d].gen, srvVersion[d].version)
  BY DeliveredText DEF server
<1>4. /\ srvText' \in [Docs -> Nat \cup {None, Garbage}]
      /\ srvVersion' \in [Docs -> [gen : Nat, version : Nat]]
      /\ \A c \in Docs : srvText'[c] \in {srvText[c], Req.text}
      /\ \A c \in Docs : c # d => srvText'[c] = srvText[c] /\ srvVersion'[c] = srvVersion[c]
  <2>1. /\ srvText \in [Docs -> Nat \cup {None, Garbage}]
        /\ srvVersion \in [Docs -> [gen : Nat, version : Nat]]
    BY DEF TypeOK
  <2>2. CASE UNCHANGED <<srvText, srvVersion>>
    BY <2>1, <2>2
  <2>3. CASE /\ srvText' = [srvText EXCEPT ![d] = Req.text]
             /\ srvVersion' = [srvVersion EXCEPT ![d] = [gen |-> Req.buf.gen, version |-> Req.version]]
    <3>1. [gen |-> Req.buf.gen, version |-> Req.version] \in [gen : Nat, version : Nat]
      BY <1>2
    <3>2. QED
      BY <1>2, <2>1, <2>3, <3>1
  <2>4. QED
    BY <1>3, <2>2, <2>3
<1>5. reply' \in {reply, Nothing}
  BY DEF ReplyNothing, Answer
<1>6. TypeOK'
  BY <1>1, <1>4, <1>5 DEF TypeOK, editor, queue, state
<1>7. RequestsInOrder' /\ WaitsForCurrent'
  <2>1. /\ DOMAIN reqs' = 1 .. Len(reqs) - 1
        /\ \A i \in DOMAIN reqs' : SameRequest(reqs'[i], reqs[i + 1]) /\ reqs'[i].text = reqs[i + 1].text
    BY <1>1 DEF SameRequest
  <2>2. UNCHANGED <<editor, waiting, pending>> /\ 1 \in {0, 1} /\ 1 # 0 /\ reqs # <<>>
    BY DEF queue
  <2>3. \/ UNCHANGED srvVersion
        \/ srvVersion' = [srvVersion EXCEPT ![Req.buf.doc] = [gen |-> Req.buf.gen, version |-> Req.version]]
    BY <1>3
  <2>4. RequestsInOrder'
    BY <2>1, <2>2, <2>3, ServedRequests
  <2>5. WaitsForCurrent'
    BY <2>1, <2>2, ServedWait
  <2>6. QED
    BY <2>4, <2>5
<1>8. SyncedIsKnown'
  <2> SUFFICES ASSUME NEW c \in serverSynced'
               PROVE  /\ srvVersion'[c.doc].gen \geq c.gen
                      /\ srvVersion'[c.doc].gen = c.gen => srvText'[c.doc] = serverText'[c]
    BY DEF SyncedIsKnown
  <2>1. c \in Buf /\ c.doc \in Docs /\ c.gen \in Nat /\ c # b /\ c \in serverSynced
    BY BoundsAssumption DEF TypeOK, Buf
  <2>2. CASE srvText'[c.doc] = srvText[c.doc] /\ srvVersion'[c.doc] = srvVersion[c.doc]
    BY <2>1, <2>2 DEF SyncedIsKnown
  <2>3. CASE c.doc = d /\ srvVersion' = [srvVersion EXCEPT ![d] = [gen |-> Req.buf.gen, version |-> Req.version]]
             /\ After(Req, srvVersion[d].gen, srvVersion[d].version)
    <3>1. srvVersion[d].gen \geq c.gen /\ srvVersion[d].gen \in Nat
      BY <1>2, <2>1, <2>3 DEF SyncedIsKnown, TypeOK
    <3>2. srvVersion'[d].gen = b.gen /\ b.gen \geq srvVersion[d].gen
      BY <1>2, <2>3, <3>1 DEF After, TypeOK
    <3>3. b.gen # c.gen
      BY <1>2, <2>1, <2>3, SameBuf
    <3>4. QED
      BY <1>2, <2>1, <2>3, <3>1, <3>2, <3>3
  <2>4. QED
    BY <1>3, <1>4, <2>1, <2>2, <2>3
<1>9. LoopInOrder'
  BY DEF LoopInOrder, state
<1>10. RequestsFit'
  BY <1>2, <1>4, NoneAssumption DEF RequestsFit
<1>11. AppliedFit'
  BY <1>5 DEF AppliedFit, EditsFit, ImportedOnce, editor
<1>12. FormatIsAnswered'
  <2>1. waiting # None /\ SameRequest(Req, waiting) /\ "format" \in Req.ask => reply' # None
    BY NoneAssumption DEF ReplyNothing, Answer, SameRequest
  <2>2. reply # None => reply' # None
    BY <1>5, NoneAssumption
  <2>3. UNCHANGED <<waiting, pending>> /\ reqs # <<>> /\ reqs' = Tail(reqs)
    BY DEF queue
  <2>4. QED
    BY <2>1, <2>2, <2>3, DroppedRequest
<1>13. QED
  BY <1>6, <1>7, <1>8, <1>9, <1>10, <1>11, <1>12, KeptCommands, KeptBuffers

(* A question of the current request is asked. *)
LEMMA AskedInv ==
  ASSUME IInv, NEW a, pc = "ask", reqs # <<>>, Asked(a), UNCHANGED <<pending, waiting, pc, editor, server>>
  PROVE  /\ RequestsInOrder' /\ WaitsForCurrent' /\ RequestsFit'
         /\ reqs' \in Seq(Request) /\ reqs' # <<>>
         /\ DOMAIN reqs' = DOMAIN reqs
         /\ \A i \in DOMAIN reqs : /\ SameRequest(reqs'[i], reqs[i])
                                   /\ reqs'[i].ask = IF i = 1 THEN reqs[i].ask \ {a} ELSE reqs[i].ask
<1> USE DEF IInv
<1>1. /\ reqs' \in Seq(Request) /\ reqs' # <<>>
      /\ DOMAIN reqs' = DOMAIN reqs
      /\ \A i \in DOMAIN reqs : /\ SameRequest(reqs'[i], reqs[i]) /\ reqs'[i].text = reqs[i].text
                                /\ reqs'[i].ask = IF i = 1 THEN reqs[i].ask \ {a} ELSE reqs[i].ask
  <2>1. reqs \in Seq(Request) /\ reqs' = AskedOf(reqs, a)
    BY DEF TypeOK, Asked, Req, AskedOf
  <2> DEFINE n == AskedOf(reqs, a)
  <2>2. /\ n \in Seq(Request) /\ n # <<>>
        /\ DOMAIN n = DOMAIN reqs
        /\ \A i \in DOMAIN reqs : /\ SameRequest(n[i], reqs[i]) /\ n[i].text = reqs[i].text /\ n[i].at = reqs[i].at
                                  /\ n[i].ask = IF i = 1 THEN reqs[i].ask \ {a} ELSE reqs[i].ask
    BY <2>1, AskedRequest
  <2> HIDE DEF n
  <2>3. QED
    BY <2>1, <2>2 DEF n
<1>2. /\ Len(reqs) \in Nat \ {0} /\ DOMAIN reqs = 1 .. Len(reqs) /\ Req = reqs[1] /\ 1 \in DOMAIN reqs
      /\ Head(reqs') = reqs'[1]
  BY <1>1, FirstRequest DEF TypeOK, Req
<1>3. /\ DOMAIN reqs' = 1 .. Len(reqs) - 0
      /\ \A i \in DOMAIN reqs' : SameRequest(reqs'[i], reqs[i + 0]) /\ reqs'[i].text = reqs[i + 0].text
  <2>1. Len(reqs) - 0 = Len(reqs) /\ \A i \in DOMAIN reqs : i + 0 = i
    BY <1>2
  <2>2. QED
    BY <1>1, <1>2, <2>1
<1>4. UNCHANGED <<editor, waiting, pending, srvVersion>> /\ 0 \in {0, 1} /\ pc' = "ask"
  BY DEF server
<1>5. RequestsInOrder'
  BY <1>3, <1>4, ServedRequests
<1>6. WaitsForCurrent'
  BY <1>3, <1>4, ServedWait
<1>7. RequestsFit'
  BY <1>1, <1>2 DEF RequestsFit, SameRequest, Req, server
<1>8. QED
  BY <1>1, <1>5, <1>6, <1>7

LEMMA FormatInv ==
  ASSUME IInv, Format
  PROVE  IInv'
<1> USE DEF IInv, Format
<1>1. /\ pc = "ask" /\ reqs # <<>> /\ "format" \in Req.ask /\ Asked("format")
      /\ UNCHANGED <<pending, waiting, pc, editor, server>>
  BY DEF Asks, LoopInOrder, queue
<1>2. /\ RequestsInOrder' /\ WaitsForCurrent' /\ RequestsFit'
      /\ reqs' \in Seq(Request) /\ reqs' # <<>>
      /\ DOMAIN reqs' = DOMAIN reqs
      /\ \A i \in DOMAIN reqs : /\ SameRequest(reqs'[i], reqs[i])
                                /\ reqs'[i].ask = IF i = 1 THEN reqs[i].ask \ {"format"} ELSE reqs[i].ask
  BY <1>1, AskedInv
<1>3. Req = reqs[1] /\ 1 \in DOMAIN reqs /\ Req.text \in Nat /\ srvText[Req.buf.doc] = Req.text
  BY <1>1, FirstRequest, RequestFields DEF TypeOK, Req, RequestsFit
<1>4. PICK edits \in {Req.text, Nothing} : Answer(Req, edits)
  BY <1>3
<1>5. edits # None /\ edits \in Nat \cup {None, Nothing, Garbage}
  BY <1>3, NoneAssumption
<1>6. \/ reply' = reply /\ (waiting = None \/ ~SameRequest(Req, waiting))
      \/ reply' = edits /\ waiting # None /\ SameRequest(Req, waiting)
  BY <1>4 DEF Answer, SameRequest
<1>7. TypeOK'
  BY <1>2, <1>5, <1>6 DEF TypeOK, editor, queue, state, known, server
<1>8. AppliedFit'
  <2>1. CASE reply' = reply
    BY <2>1 DEF AppliedFit, EditsFit, ImportedOnce, editor
  <2>2. CASE reply' = edits /\ waiting # None /\ SameRequest(Req, waiting)
    <3>1. Req.text = text[waiting.buf.doc]
      BY <1>3, <2>2 DEF WaitsForCurrent
    <3>2. QED
      BY <1>1, <2>2, <3>1 DEF AppliedFit, EditsFit, ImportedOnce, editor
  <2>3. QED
    BY <1>6, <2>1, <2>2
<1>9. FormatIsAnswered'
  <2> SUFFICES ASSUME waiting # None, reply' = None
               PROVE  \E q \in {pending', reqs'} : \E i \in DOMAIN q :
                        q[i].buf = waiting.buf /\ q[i].version = waiting.version /\ "format" \in q[i].ask
    BY DEF FormatIsAnswered
  <2>1. reply = None /\ ~SameRequest(Req, waiting)
    BY <1>5, <1>6
  <2>2. PICK q \in {pending, reqs} : \E i \in DOMAIN q :
          q[i].buf = waiting.buf /\ q[i].version = waiting.version /\ "format" \in q[i].ask
    BY <2>1 DEF FormatIsAnswered
  <2>3. PICK i \in DOMAIN q : q[i].buf = waiting.buf /\ q[i].version = waiting.version /\ "format" \in q[i].ask
    BY <2>2
  <2>4. CASE q = pending
    BY <1>1, <2>3, <2>4
  <2>5. CASE q = reqs
    <3>1. i # 1
      BY <1>3, <2>1, <2>3, <2>5 DEF SameRequest
    <3>2. i \in DOMAIN reqs' /\ SameRequest(reqs'[i], reqs[i]) /\ reqs'[i].ask = reqs[i].ask
      BY <1>2, <2>3, <2>5, <3>1
    <3>3. QED
      BY <2>3, <2>5, <3>2 DEF SameRequest
  <2>6. QED
    BY <2>4, <2>5
<1>10. LoopInOrder'
  BY <1>1, <1>2 DEF LoopInOrder, state
<1>11. QED
  BY <1>1, <1>2, <1>7, <1>8, <1>9, <1>10, KeptSynced, KeptCommands, KeptBuffers

LEMMA AskInv ==
  ASSUME IInv, NEW q \in Question, Ask(q)
  PROVE  IInv'
<1> USE DEF IInv, Ask
<1>1. /\ pc = "ask" /\ reqs # <<>> /\ q # "format" /\ Asked(q)
      /\ UNCHANGED <<pending, waiting, pc, editor, server>>
  BY DEF Asks, LoopInOrder, queue, format
<1>2. /\ RequestsInOrder' /\ WaitsForCurrent' /\ RequestsFit'
      /\ reqs' \in Seq(Request) /\ reqs' # <<>>
      /\ DOMAIN reqs' = DOMAIN reqs
      /\ \A i \in DOMAIN reqs : /\ SameRequest(reqs'[i], reqs[i])
                                /\ reqs'[i].ask = IF i = 1 THEN reqs[i].ask \ {q} ELSE reqs[i].ask
  BY <1>1, AskedInv
<1>3. Req \in Request
  BY <1>1, FirstRequest DEF TypeOK, Req
<1>4. sending' = None \/ (sending' \in Command /\ sending'.req = Req /\ sending'.do = q /\ (q = "imports" => Req.imp = 0))
  BY <1>1, <1>3 DEF Command, Question
<1>5. TypeOK'
  BY <1>2, <1>4 DEF TypeOK, editor, format, queue, state, known, server
<1>6. CommandsInOrder'
  BY <1>1, <1>4 DEF CommandsInOrder, LoopInOrder, state
<1>7. FormatIsAnswered'
  <2> SUFFICES ASSUME waiting # None, reply = None
               PROVE  \E x \in {pending', reqs'} : \E i \in DOMAIN x :
                        x[i].buf = waiting.buf /\ x[i].version = waiting.version /\ "format" \in x[i].ask
    BY DEF FormatIsAnswered, format
  <2>1. PICK x \in {pending, reqs} : \E i \in DOMAIN x :
          x[i].buf = waiting.buf /\ x[i].version = waiting.version /\ "format" \in x[i].ask
    BY DEF FormatIsAnswered
  <2>2. PICK i \in DOMAIN x : x[i].buf = waiting.buf /\ x[i].version = waiting.version /\ "format" \in x[i].ask
    BY <2>1
  <2>3. CASE x = pending
    BY <1>1, <2>2, <2>3
  <2>4. CASE x = reqs
    <3>1. i \in DOMAIN reqs' /\ SameRequest(reqs'[i], reqs[i]) /\ "format" \in reqs'[i].ask
      BY <1>1, <1>2, <2>2, <2>4
    <3>2. QED
      BY <2>2, <2>4, <3>1 DEF SameRequest
  <2>5. QED
    BY <2>3, <2>4
<1>8. LoopInOrder'
  BY <1>1, <1>2 DEF LoopInOrder, state
<1>9. QED
  BY <1>1, <1>2, <1>5, <1>6, <1>7, <1>8, KeptSynced, KeptBuffers, KeptAnswers

LEMMA SendInv ==
  ASSUME IInv, Send
  PROVE  IInv'
<1> USE DEF IInv, Send
<1>1. inbox' \in {inbox, sending} /\ sending' = None
  BY DEF TakenOrDropped
<1>2. TypeOK'
  BY <1>1 DEF TypeOK, editor, format, queue, state, known, server
<1>3. CommandsInOrder'
  BY <1>1 DEF CommandsInOrder, state
<1>4. QED
  BY <1>2, <1>3, KeptSynced, KeptLoop, KeptBuffers, KeptFit, KeptAnswers, KeptRequests, KeptWait DEF queue

LEMMA NextRequestInv ==
  ASSUME IInv, NextRequest
  PROVE  IInv'
<1> USE DEF IInv, NextRequest
<1>1. /\ reqs # <<>> /\ reqs' \in Seq(Request) /\ DOMAIN reqs' = 1 .. Len(reqs) - 1
      /\ \A i \in DOMAIN reqs' : SameRequest(reqs'[i], reqs[i + 1]) /\ reqs'[i].text = reqs[i + 1].text
  BY FirstRequest DEF TypeOK, LoopInOrder, SameRequest
<1>2. UNCHANGED <<editor, waiting, pending, reply, srvVersion>> /\ 1 \in {0, 1} /\ 1 # 0
  BY DEF queue, format, server
<1>3. RequestsInOrder'
  BY <1>1, <1>2, ServedRequests
<1>4. WaitsForCurrent'
  BY <1>1, <1>2, ServedWait
<1>5. FormatIsAnswered'
  BY <1>1, <1>2, DroppedRequest
<1>6. TypeOK'
  BY <1>1 DEF TypeOK, editor, format, queue, state, known, server
<1>7. LoopInOrder' /\ RequestsFit'
  BY DEF LoopInOrder, RequestsFit, state, server
<1>8. QED
  BY <1>3, <1>4, <1>5, <1>6, <1>7, KeptSynced, KeptCommands, KeptBuffers, KeptAnswers

LEMMA EndTakenInv ==
  ASSUME IInv, EndTaken
  PROVE  IInv'
<1> USE DEF IInv, EndTaken
<1>1. TypeOK'
  BY DEF TypeOK, editor, format, queue, state, known, server
<1>2. RequestsInOrder'
  BY DEF RequestsInOrder, InOrder, AfterRequest, AfterServer, After, PastRequest, Past, editor, queue, server
<1>3. LoopInOrder' /\ RequestsFit'
  BY DEF LoopInOrder, RequestsFit, state, server
<1>4. QED
  BY <1>1, <1>2, <1>3, KeptSynced, KeptCommands, KeptBuffers, KeptAnswers, KeptWait DEF queue

-----------------------------------------------------------------------------

LEMMA StepInv == IInv /\ CInv /\ [Next]_vars => IInv'
<1> SUFFICES ASSUME IInv, CInv, [Next]_vars PROVE IInv'
  OBVIOUS
<1>1. CASE UNCHANGED vars
  <2>1. UNCHANGED <<editor, format, inbox, closing, queue, pc, reqs, sending, state, known, server>>
    BY <1>1 DEF vars
  <2>2. TypeOK'
    BY <2>1 DEF IInv, TypeOK, editor, format, queue, state, known, server
  <2>3. QED
    BY <2>1, <2>2, KeptSynced, KeptLoop, KeptCommands, KeptBuffers, KeptFit, KeptAnswers, KeptRequests, KeptWait
       DEF IInv, queue
<1>2. CASE EditorLoop
  BY <1>2, OpenBufferInv, CloseBufferInv, EditInv, DismissInv, MoveCursorInv, FindDefinitionInv, BeginFormatInv, EndFormatInv,
     FormatTimeoutInv, RunCommandInv, BeginCloseInv DEF EditorLoop
<1>3. CASE SyncLoop
  BY <1>3, EndLoopInv, WakeInv, TakeInv, StartInv, SyncTextInv, FailTextInv, FormatInv, AskInv, SendInv,
     NextRequestInv, EndTakenInv DEF SyncLoop
<1>4. QED
  BY <1>1, <1>2, <1>3 DEF Next, Quiet

-----------------------------------------------------------------------------
(* The completions. *)

KnownNext(r) ==
  /\ r.text \leq text'[r.buf.doc]
  /\ "completion" \in r.ask => r.at \in At /\ (r.text = text'[r.buf.doc] => r.at = edited'[r.buf.doc])

(* The request r is for what s is for. *)
StandsFor(r, s) ==
  /\ r.buf = s.buf /\ r.text = s.text /\ r.at = s.at
  /\ "completion" \in r.ask => "completion" \in s.ask

(* A text, and where it was edited, stay until there is a newer text. *)
TextsGrow == \A d \in Docs : (text'[d] = text[d] /\ edited'[d] = edited[d]) \/ text'[d] > text[d]

Texts == text \in [Docs -> Nat] /\ text' \in [Docs -> Nat]

LEMMA TextsTyped ==
  ASSUME TypeOK, TypeOK'
  PROVE  Texts
<1>1. MaxText \in Nat
  BY BoundsAssumption
<1>2. text \in [Docs -> 0 .. MaxText] /\ text' \in [Docs -> 0 .. MaxText]
  BY DEF TypeOK
<1>3. QED
  BY <1>1, <1>2 DEF Texts

LEMMA StillKnown ==
  ASSUME Texts, TextsGrow, NEW r \in Request, NEW s \in Request, Known(s), StandsFor(r, s)
  PROVE  KnownNext(r)
<1>1. /\ r.buf.doc \in Docs /\ s.text \in Nat /\ r.buf.doc = s.buf.doc /\ r.text = s.text /\ r.at = s.at
      /\ "completion" \in r.ask => "completion" \in s.ask
  BY RequestFields DEF StandsFor
<1> DEFINE d == r.buf.doc
<1>2. text[d] \in Nat /\ text'[d] \in Nat /\ s.text \leq text[d]
  BY <1>1 DEF Texts, Known
<1>3. CASE text'[d] = text[d] /\ edited'[d] = edited[d]
  BY <1>1, <1>3 DEF Known, Wanted, KnownNext
<1>4. CASE text'[d] > text[d]
  <2>1. s.text < text'[d]
    BY <1>1, <1>2, <1>4
  <2>2. s.text \leq text'[d] /\ s.text # text'[d]
    BY <1>1, <1>2, <2>1
  <2>3. QED
    BY <1>1, <2>2 DEF Known, Wanted, KnownNext
<1>5. QED
  BY <1>1, <1>3, <1>4 DEF TextsGrow

(* Where what the queue has in the next state comes from. *)
Stands(r) == KnownNext(r) \/ (\E i \in DOMAIN pending : StandsFor(r, pending[i]))
                          \/ (\E i \in DOMAIN reqs : StandsFor(r, reqs[i]))

LEMMA KeptCompletions ==
  ASSUME TypeOK, CompletionsKnown, Texts, TextsGrow, pending' \in Seq(Request), reqs' \in Seq(Request),
         \A i \in DOMAIN pending' : Stands(pending'[i]),
         \A i \in DOMAIN reqs' : Stands(reqs'[i]),
         inbox' \in {inbox, sending, None},
         \/ sending' \in {sending, None}
         \/ sending'.req \in Request /\ Known(sending'.req) /\ sending'.do \in sending'.req.ask
  PROVE  CompletionsKnown'
<1>1. /\ \A i \in DOMAIN pending : pending[i] \in Request /\ Known(pending[i])
      /\ \A i \in DOMAIN reqs : reqs[i] \in Request /\ Known(reqs[i])
  BY QueueType DEF TypeOK, CompletionsKnown
<1>2. \A r \in Request : Stands(r) => KnownNext(r)
  BY <1>1, StillKnown DEF Stands
<1>3. \A i \in DOMAIN pending' : KnownNext(pending'[i])
  BY <1>2, QueueType
<1>4. \A i \in DOMAIN reqs' : KnownNext(reqs'[i])
  BY <1>2, QueueType
<1> DEFINE Next_(x) == x # None => /\ x.req.text \leq text'[x.req.buf.doc]
                                   /\ x.do = "completion" =>
                                        /\ x.req.at \in At
                                        /\ x.req.text = text'[x.req.buf.doc] => x.req.at = edited'[x.req.buf.doc]
<1>5. \A x \in {inbox, sending} : Next_(x)
  <2> SUFFICES ASSUME NEW x \in {inbox, sending}, x # None PROVE Next_(x)
    OBVIOUS
  <2>1. x \in Command /\ KnownCommand(x)
    BY DEF TypeOK, CompletionsKnown
  <2>2. x.req \in Request /\ x.do \in {"imports", "definition", "completion"}
    BY <2>1 DEF Command
  <2> DEFINE s == [x.req EXCEPT !.ask = {x.do}]
  <2>3. /\ s \in Request /\ s.text = x.req.text /\ s.buf = x.req.buf /\ s.at = x.req.at
        /\ s.ask = {x.do}
    BY <2>2 DEF Request, Question
  <2> HIDE DEF s
  <2>4. Known(s)
    BY <2>1, <2>3 DEF KnownCommand, Known, Wanted
  <2>5. KnownNext(s)
    BY <2>3, <2>4, StillKnown DEF StandsFor
  <2>6. QED
    BY <2>3, <2>5 DEF KnownNext
<1>6. Next_(sending')
  <2>1. CASE sending' \in {sending, None}
    BY <1>5, <2>1
  <2>2. CASE sending'.req \in Request /\ Known(sending'.req) /\ sending'.do \in sending'.req.ask
    <3>1. PICK r \in Request : r = sending'.req
      BY <2>2
    <3>2. KnownNext(r)
      BY <2>2, <3>1, StillKnown DEF StandsFor
    <3>3. QED
      BY <2>2, <3>1, <3>2 DEF KnownNext
  <2>3. QED
    BY <2>1, <2>2
<1>7. Next_(inbox')
  BY <1>5
<1>8. QED
  BY <1>3, <1>4, <1>6, <1>7 DEF CompletionsKnown, Known, KnownCommand, Wanted, KnownNext

(* A request is pushed. *)
LEMMA PushedStands ==
  ASSUME TypeOK, NEW req \in Request, PushRequest(req), KnownNext(req)
  PROVE  \A i \in DOMAIN pending' : Stands(pending'[i])
<1>1. pending \in Seq(Request) /\ \A i, j \in DOMAIN pending : pending[i].buf = pending[j].buf => i = j
  BY DEF TypeOK
<1> DEFINE n == AddRequest(pending, req)
<1>2. \A i \in DOMAIN n :
        \/ i \in DOMAIN pending /\ n[i].buf # req.buf /\ n[i] = pending[i]
        \/ /\ SameRequest(n[i], req) /\ n[i].text = req.text /\ n[i].at = req.at
           /\ n[i].ask \subseteq req.ask \cup {"imports"}
  BY <1>1, AddedRequest
<1>3. pending' = n
  BY DEF PushRequest
<1> HIDE DEF n
<1> SUFFICES ASSUME NEW i \in DOMAIN n PROVE Stands(n[i])
  BY <1>3
<1>4. CASE i \in DOMAIN pending /\ n[i] = pending[i]
  BY <1>4 DEF Stands, StandsFor
<1>5. CASE /\ SameRequest(n[i], req) /\ n[i].text = req.text /\ n[i].at = req.at
           /\ n[i].ask \subseteq req.ask \cup {"imports"}
  BY <1>5 DEF Stands, KnownNext, SameRequest
<1>6. QED
  BY <1>2, <1>4, <1>5

Fitting == \A d \in Docs : KeepsFitting(d)

LEMMA FittingIsWhole ==
  ASSUME SuggestionsWhole, Fitting
  PROVE  SuggestionsWhole'
<1> SUFFICES ASSUME NEW d \in Docs, suggestions'[d] # None PROVE Whole(suggestions'[d])
  BY DEF SuggestionsWhole, Whole
<1>1. CASE suggestions'[d] = suggestions[d]
  BY <1>1 DEF SuggestionsWhole
<1>2. CASE Fits(suggestions'[d], cursor'[d])
  BY <1>2 DEF Fits, Whole
<1>3. QED
  BY <1>1, <1>2 DEF Fitting, KeepsFitting

(* Nothing is pushed, and no text changes. *)
LEMMA KeptTexts ==
  ASSUME IInv, IInv', CInv, UNCHANGED <<text, edited, pending, reqs, sending>>, inbox' \in {inbox, None},
         UNCHANGED cursor \/ CursorKnown', \A d \in Docs : suggestions'[d] \in {suggestions[d], None}
  PROVE  CInv' /\ Fitting
<1>1. Texts /\ TextsGrow
  BY TextsTyped DEF IInv, TextsGrow
<1>2. /\ \A i \in DOMAIN pending' : Stands(pending'[i])
      /\ \A i \in DOMAIN reqs' : Stands(reqs'[i])
  BY DEF Stands, StandsFor
<1>3. CompletionsKnown'
  BY <1>1, <1>2, KeptCompletions DEF IInv, TypeOK, CInv
<1>4. CursorKnown'
  BY DEF CInv, CursorKnown
<1>5. Fitting
  BY DEF Fitting, KeepsFitting
<1>6. QED
  BY <1>3, <1>4, <1>5, FittingIsWhole DEF CInv

LEMMA EditKnown ==
  ASSUME IInv, IInv', CInv, NEW d \in open, NEW i \in Nat, AfterEdit(d, i), inbox' \in {inbox, None},
         UNCHANGED <<gen, reqs, sending>>
  PROVE  CInv' /\ Fitting
<1> PICK now \in At : AfterEditAt(d, i, now)
  BY DEF AfterEdit
<1>1. /\ d \in Docs /\ gen[d] \in Nat /\ gen[d] \in 1 .. MaxOpens
      /\ \A c \in Docs : text[c] \in Nat /\ version[c] \in Nat /\ suggestions[c] \in Suggestion \cup {None}
  BY BoundsAssumption DEF IInv, TypeOK, BuffersInOrder
<1>2. \A c \in Docs : /\ text'[c] = IF c = d THEN text[d] + 1 ELSE text[c]
                      /\ cursor'[c] = IF c = d THEN now ELSE cursor[c]
                      /\ edited'[c] = IF c = d THEN now ELSE edited[c]
  BY <1>1 DEF IInv, TypeOK, AfterEditAt
<1>3. Texts /\ TextsGrow
  <2>1. Texts
    BY TextsTyped DEF IInv
  <2>2. TextsGrow
    BY <1>1, <1>2 DEF TextsGrow
  <2>3. QED
    BY <2>1, <2>2
<1>4. CursorKnown'
  BY <1>2 DEF CInv, CursorKnown, Apart, Pos
<1>5. \A j \in DOMAIN reqs' : Stands(reqs'[j])
  BY DEF Stands, StandsFor
<1>6. (\A j \in DOMAIN pending' : Stands(pending'[j])) /\ Fitting
  <2>1. CASE down
    <3>1. UNCHANGED <<suggestions, pending>> /\ ~ready
      BY <2>1 DEF IInv, LoopInOrder, AfterEditAt, queue
    <3>2. \A c \in Docs : suggestions[c] = None
      BY <3>1 DEF IInv, BuffersInOrder
    <3>3. QED
      BY <3>1, <3>2 DEF Stands, StandsFor, Fitting, KeepsFitting
  <2>2. CASE ~down
    <3>1. PICK ask \in SUBSET {"completion", "imports"} :
            /\ suggestions' = [suggestions EXCEPT ![d] =
                                 IF "completion" \in ask THEN TypeThrough(@, now) ELSE None]
            /\ PushRequest(NewRequest(d, text[d] + 1, version[d] + 1, i, ask, now))
      BY <2>2 DEF AfterEditAt
    <3> DEFINE req == NewRequest(d, text[d] + 1, version[d] + 1, i, ask, now)
    <3>2. /\ req \in Request /\ req.buf.doc = d /\ req.text = text[d] + 1 /\ req.ask = ask
          /\ "completion" \in ask => req.at = now
      BY <1>1 DEF NewRequest, BufOf, Request, Buf, Question
    <3>3. PushRequest(req)
      BY <3>1
    <3> HIDE DEF req
    <3>4. KnownNext(req)
      BY <1>1, <1>2, <3>2 DEF KnownNext
    <3>5. \A j \in DOMAIN pending' : Stands(pending'[j])
      BY <3>2, <3>3, <3>4, PushedStands DEF IInv
    <3>6. /\ \A c \in Docs : c # d => suggestions'[c] = suggestions[c]
          /\ suggestions'[d] \in {TypeThrough(suggestions[d], now), None}
      BY <1>1, <3>1 DEF IInv, TypeOK
    <3>7. /\ TypeThrough(suggestions[d], now) # None => suggestions[d] # None
          /\ TypeThrough(suggestions[d], now) = None
               \/ (Whole(suggestions[d]) => Fits(TypeThrough(suggestions[d], now), now))
      BY <1>1, KeptSuggestion
    <3>8. KeepsFitting(d)
      BY <1>1, <1>2, <3>6, <3>7 DEF KeepsFitting, CInv, SuggestionsWhole
    <3>9. \A c \in Docs : c # d => KeepsFitting(c)
      BY <1>2, <3>6 DEF KeepsFitting
    <3>10. QED
      BY <3>5, <3>8, <3>9 DEF Fitting
  <2>3. QED
    BY <2>1, <2>2
<1>7. CompletionsKnown'
  BY <1>3, <1>5, <1>6, KeptCompletions DEF IInv, TypeOK, CInv
<1>8. QED
  BY <1>4, <1>6, <1>7, FittingIsWhole DEF CInv

(* FindDefinition and format: no completion is asked for, and the text stays. *)
LEMMA PushKnown ==
  ASSUME IInv, IInv', CInv, NEW d \in open, NEW ask \in SUBSET Question, "completion" \notin ask,
         PushRequest(NewRequest(d, text[d], version[d] + 1, imp[d], ask, cursor[d])),
         UNCHANGED <<text, cursor, edited, suggestions, inbox, reqs, sending>>
  PROVE  CInv' /\ Fitting
<1> DEFINE req == NewRequest(d, text[d], version[d] + 1, imp[d], ask, cursor[d])
<1>1. /\ d \in Docs /\ gen[d] \in Nat /\ gen[d] \in 1 .. MaxOpens /\ imp[d] \in Nat
      /\ text[d] \in Nat /\ version[d] \in Nat
  BY BoundsAssumption DEF IInv, TypeOK, BuffersInOrder
<1>2. req \in Request /\ req.buf.doc = d /\ req.text = text[d] /\ req.ask = ask /\ PushRequest(req)
  BY <1>1 DEF NewRequest, BufOf, Request, Buf
<1> HIDE DEF req
<1>3. KnownNext(req)
  BY <1>1, <1>2 DEF KnownNext
<1>4. \A j \in DOMAIN pending' : Stands(pending'[j])
  BY <1>2, <1>3, PushedStands DEF IInv
<1>5. Texts /\ TextsGrow
  BY TextsTyped DEF IInv, TextsGrow
<1>6. \A j \in DOMAIN reqs' : Stands(reqs'[j])
  BY DEF Stands, StandsFor
<1>7. CompletionsKnown'
  BY <1>4, <1>5, <1>6, KeptCompletions DEF IInv, TypeOK, CInv
<1>8. CursorKnown'
  BY DEF CInv, CursorKnown
<1>9. Fitting
  BY DEF Fitting, KeepsFitting
<1>10. QED
  BY <1>7, <1>8, <1>9, FittingIsWhole DEF CInv

(* The requests of the buffers closed before are of older texts. *)
LEMMA OpenKnown ==
  ASSUME IInv, IInv', CInv, NEW d \in Docs, OpenBuffer(d)
  PROVE  CInv' /\ Fitting
<1> DEFINE req == [buf |-> [doc |-> d, gen |-> gen[d] + 1], text |-> text[d] + 1, version |-> 1,
                   imp |-> imp[d], ask |-> {}, at |-> None]
<1>1. /\ gen[d] \in Nat /\ gen[d] + 1 \in 1 .. MaxOpens /\ imp[d] \in Nat
      /\ \A c \in Docs : text[c] \in Nat
  <2>1. gen \in [Docs -> 0 .. MaxOpens] /\ imp \in [Docs -> Nat] /\ Texts /\ gen[d] < MaxOpens
    BY TextsTyped DEF IInv, TypeOK, OpenBuffer
  <2>2. MaxOpens \in Nat
    BY BoundsAssumption
  <2>3. QED
    BY <2>1, <2>2 DEF Texts
<1>2. /\ req \in Request /\ req.buf.doc = d /\ req.text = text[d] + 1 /\ req.ask = {}
      /\ PushRequest(req)
  BY <1>1 DEF Request, Buf, OpenBuffer
<1> HIDE DEF req
<1>3. \A c \in Docs : text'[c] = IF c = d THEN text[d] + 1 ELSE text[c]
  BY <1>1 DEF IInv, TypeOK, OpenBuffer
<1>4. UNCHANGED <<cursor, edited, suggestions, inbox, reqs, sending>> /\ suggestions[d] = None
  BY DEF IInv, BuffersInOrder, OpenBuffer
<1>5. KnownNext(req)
  BY <1>1, <1>2, <1>3 DEF KnownNext
<1>6. \A j \in DOMAIN pending' : Stands(pending'[j])
  BY <1>2, <1>5, PushedStands DEF IInv
<1>7. Texts /\ TextsGrow
  <2>1. Texts
    BY TextsTyped DEF IInv
  <2>2. TextsGrow
    BY <1>1, <1>3, <1>4 DEF TextsGrow
  <2>3. QED
    BY <2>1, <2>2
<1>8. \A j \in DOMAIN reqs' : Stands(reqs'[j])
  BY <1>4 DEF Stands, StandsFor
<1>9. CompletionsKnown'
  BY <1>4, <1>6, <1>7, <1>8, KeptCompletions DEF IInv, TypeOK, CInv
<1>10. CursorKnown'
  BY <1>4 DEF CInv, CursorKnown
<1>11. Fitting
  BY <1>3, <1>4 DEF Fitting, KeepsFitting
<1>12. QED
  BY <1>9, <1>10, <1>11, FittingIsWhole DEF CInv

(* The answer to a completion is shown where it fits. *)
LEMMA AssignKnown ==
  ASSUME IInv, IInv', CInv, inbox # None, inbox.do = "completion", Assign(inbox.req), inbox' = None,
         UNCHANGED <<text, cursor, edited, pending, reqs, sending>>
  PROVE  CInv' /\ Fitting
<1> DEFINE d == inbox.req.buf.doc
<1>1. /\ inbox.req \in Request /\ d \in Docs
      /\ cursor[d] \in At /\ suggestions \in [Docs -> Suggestion \cup {None}]
  <2>1. inbox \in Command
    BY DEF IInv, TypeOK
  <2>2. inbox.req \in Request
    BY <2>1 DEF Command
  <2>3. QED
    BY <2>2, RequestFields DEF IInv, TypeOK
<1>2. Wanted(inbox.req) /\ CursorKnown
  BY DEF CInv, CompletionsKnown, KnownCommand
<1>3. /\ \A c \in Docs : c # d => suggestions'[c] = suggestions[c]
      /\ suggestions'[d] \in {suggestions[d], None} \/ Fits(suggestions'[d], cursor[d])
  BY <1>1, <1>2, AssignedSuggestion
<1>4. Fitting
  BY <1>1, <1>3 DEF Fitting, KeepsFitting
<1>5. Texts /\ TextsGrow
  BY TextsTyped DEF IInv, TextsGrow
<1>6. /\ \A i \in DOMAIN pending' : Stands(pending'[i])
      /\ \A i \in DOMAIN reqs' : Stands(reqs'[i])
  BY DEF Stands, StandsFor
<1>7. CompletionsKnown'
  BY <1>5, <1>6, KeptCompletions DEF IInv, TypeOK, CInv
<1>8. CursorKnown'
  BY DEF CInv, CursorKnown
<1>9. QED
  BY <1>4, <1>7, <1>8, FittingIsWhole DEF CInv

LEMMA EditorKnown ==
  ASSUME IInv, IInv', CInv, EditorLoop
  PROVE  CInv' /\ Fitting
<1>1. ASSUME NEW d \in Docs, OpenBuffer(d) PROVE CInv' /\ Fitting
  BY <1>1, OpenKnown
<1>2. ASSUME NEW d \in Docs, CloseBuffer(d) \/ Dismiss(d) PROVE CInv' /\ Fitting
  <2>1. \A c \in Docs : suggestions'[c] \in {suggestions[c], None}
    BY <1>2 DEF CloseBuffer, Dismiss, IInv, TypeOK
  <2>2. QED
    BY <1>2, <2>1, KeptTexts DEF CloseBuffer, Dismiss, queue
<1>3. ASSUME NEW d \in Docs, Edit(d) PROVE CInv' /\ Fitting
  <2>1. d \in open /\ imp[d] \in Nat
    BY <1>3 DEF Edit, IInv, TypeOK
  <2>2. QED
    BY <1>3, <2>1, EditKnown DEF Edit
<1>4. ASSUME NEW d \in Docs, MoveCursor(d) PROVE CInv' /\ Fitting
  <2>1. PICK now \in At : /\ now = edited[d] \/ Apart(now, edited[d])
                          /\ cursor' = [cursor EXCEPT ![d] = now]
    BY <1>4 DEF MoveCursor
  <2>2. \A c \in Docs : cursor'[c] = IF c = d THEN now ELSE cursor[c]
    BY <2>1 DEF IInv, TypeOK
  <2>3. edited' = edited
    BY <1>4 DEF MoveCursor
  <2>4. CursorKnown'
    BY <2>1, <2>2, <2>3 DEF CInv, CursorKnown, Apart, Pos
  <2>5. QED
    BY <1>4, <2>4, KeptTexts DEF MoveCursor, queue
<1>5. ASSUME NEW d \in Docs, FindDefinition(d) PROVE CInv' /\ Fitting
  <2>1. d \in open /\ {"definition"} \in SUBSET Question /\ "completion" \notin {"definition"}
    BY <1>5 DEF FindDefinition, Question
  <2>2. QED
    BY <1>5, <2>1, PushKnown DEF FindDefinition
<1>6. ASSUME NEW d \in Docs, BeginFormat(d) PROVE CInv' /\ Fitting
  <2>1. d \in open /\ {"format"} \in SUBSET Question /\ "completion" \notin {"format"}
    BY <1>6 DEF BeginFormat, Question
  <2>2. PushRequest(NewRequest(d, text[d], version[d] + 1, imp[d], {"format"}, cursor[d]))
    BY <1>6 DEF BeginFormat
  <2>3. UNCHANGED <<text, cursor, edited, suggestions, inbox, reqs, sending>>
    BY <1>6 DEF BeginFormat
  <2>4. QED
    BY <2>1, <2>2, <2>3, PushKnown
<1>7. CASE EndFormat
  <2> DEFINE d == waiting.buf.doc
  <2>1. CASE AfterEdit(d, imp[d])
    <3>1. d \in open /\ imp[d] \in Nat
      BY <1>7 DEF EndFormat, IInv, WaitsForCurrent, TypeOK
    <3>2. UNCHANGED <<gen, inbox, reqs, sending>>
      BY <1>7 DEF EndFormat
    <3>3. QED
      BY <2>1, <3>1, <3>2, EditKnown
  <2>2. CASE UNCHANGED <<text, imp, version, cursor, edited, suggestions, queue>>
    BY <1>7, <2>2, KeptTexts DEF EndFormat, queue
  <2>3. QED
    BY <1>7, <2>1, <2>2 DEF EndFormat
<1>8. CASE RunCommand
  <2> DEFINE req == inbox.req
             d == req.buf.doc
  <2>1. inbox # None /\ inbox' = None /\ UNCHANGED <<gen, pc, reqs, sending>>
    BY <1>8 DEF RunCommand
  <2>2. CASE d \in open /\ AfterEdit(d, imp[d] + 1)
    <3>1. imp[d] \in Nat
      BY <2>2 DEF IInv, TypeOK
    <3>2. PICK c \in open, i \in Nat : AfterEdit(c, i)
      BY <2>2, <3>1
    <3>3. inbox' \in {inbox, None} /\ UNCHANGED <<gen, reqs, sending>>
      BY <2>1
    <3>4. QED
      BY <3>2, <3>3, EditKnown
  <2>3. CASE inbox.do = "completion" /\ Assign(req) /\ UNCHANGED <<text, imp, version, cursor, edited, queue>>
    BY <2>1, <2>3, AssignKnown DEF queue
  <2>4. CASE UNCHANGED <<text, imp, version, cursor, edited, suggestions, queue>>
    BY <2>1, <2>4, KeptTexts DEF queue
  <2>5. QED
    BY <1>8, <2>2, <2>3, <2>4 DEF RunCommand
<1>9. CASE FormatTimeout \/ BeginClose
  BY <1>9, KeptTexts DEF FormatTimeout, BeginClose, editor, queue
<1>10. QED
  BY <1>1, <1>2, <1>3, <1>4, <1>5, <1>6, <1>7, <1>8, <1>9 DEF EditorLoop

(* The sync loop asks for no more than the requests want. *)
LEMMA SyncKnown ==
  ASSUME IInv, IInv', CInv, SyncLoop
  PROVE  CInv' /\ Fitting
<1>1. UNCHANGED editor
  BY DEF SyncLoop, EndLoop, Wake, Take, Start, SyncText, FailText, Format, Ask, Send, NextRequest, EndTaken
<1>2. Texts /\ TextsGrow
  BY <1>1, TextsTyped DEF IInv, TextsGrow, editor
<1>3. /\ pending \in Seq(Request) /\ reqs \in Seq(Request)
      /\ pending' \in Seq(Request) /\ reqs' \in Seq(Request)
  BY DEF IInv, TypeOK
<1>4. pending' \in {pending, <<>>}
  BY DEF SyncLoop, EndLoop, Wake, Take, Start, SyncText, FailText, Format, Ask, Send, NextRequest, EndTaken, queue
<1>5. \A i \in DOMAIN pending' : Stands(pending'[i])
  BY <1>4 DEF Stands, StandsFor
<1>6. \/ reqs' \in {reqs, pending}
      \/ reqs # <<>> /\ reqs' = Tail(reqs)
      \/ reqs # <<>> /\ \E a : Asked(a)
  BY DEF SyncLoop, EndLoop, Wake, Take, Start, SyncText, FailText, DropRequest, Format, Ask, Asks, Send, NextRequest,
         EndTaken, IInv, LoopInOrder
<1>7. \A i \in DOMAIN reqs' : Stands(reqs'[i])
  <2>1. CASE reqs' \in {reqs, pending}
    BY <2>1 DEF Stands, StandsFor
  <2>2. CASE reqs # <<>> /\ reqs' = Tail(reqs)
    <3>1. DOMAIN reqs' = 1 .. Len(reqs) - 1 /\ \A i \in 1 .. Len(reqs) - 1 : reqs'[i] = reqs[i + 1] /\ i + 1 \in DOMAIN reqs
      BY <1>3, <2>2, FirstRequest
    <3>2. QED
      BY <3>1 DEF Stands, StandsFor
  <2>3. CASE reqs # <<>> /\ \E a : Asked(a)
    <3>1. PICK a : Asked(a)
      BY <2>3
    <3> DEFINE n == AskedOf(reqs, a)
    <3>2. /\ DOMAIN n = DOMAIN reqs
          /\ \A i \in DOMAIN reqs : /\ SameRequest(n[i], reqs[i]) /\ n[i].text = reqs[i].text /\ n[i].at = reqs[i].at
                                    /\ n[i].ask = IF i = 1 THEN reqs[i].ask \ {a} ELSE reqs[i].ask
      BY <1>3, <2>3, AskedRequest
    <3>3. reqs' = n
      BY <3>1 DEF Asked, Req, AskedOf
    <3> HIDE DEF n
    <3> SUFFICES ASSUME NEW i \in DOMAIN reqs PROVE Stands(n[i])
      BY <3>2, <3>3
    <3>4. StandsFor(n[i], reqs[i])
      BY <3>2 DEF StandsFor, SameRequest
    <3>5. QED
      BY <3>4 DEF Stands
  <2>4. QED
    BY <1>6, <2>1, <2>2, <2>3
<1>8. inbox' \in {inbox, sending, None}
  BY DEF SyncLoop, EndLoop, Wake, Take, Start, SyncText, FailText, Format, Ask, Send, TakenOrDropped, NextRequest,
         EndTaken
<1>9. \/ sending' \in {sending, None}
      \/ sending'.req \in Request /\ Known(sending'.req) /\ sending'.do \in sending'.req.ask
  <2>1. CASE \E q \in Question : Ask(q)
    <3>1. PICK q \in Question : Ask(q)
      BY <2>1
    <3>2. q \in Req.ask /\ reqs # <<>>
      BY <3>1 DEF Ask, Asks, IInv, LoopInOrder
    <3>3. Req \in Request /\ Known(Req)
      BY <1>3, <3>2, FirstRequest DEF Req, CInv, CompletionsKnown
    <3>4. sending' = None \/ (sending'.req = Req /\ sending'.do = q)
      BY <3>1 DEF Ask
    <3>5. QED
      BY <3>2, <3>3, <3>4
  <2>2. CASE ~ \E q \in Question : Ask(q)
    BY <2>2 DEF SyncLoop, EndLoop, Wake, Take, Start, SyncText, FailText, Format, Send, NextRequest, EndTaken
  <2>3. QED
    BY <2>1, <2>2
<1>10. CompletionsKnown'
  BY <1>2, <1>3, <1>5, <1>7, <1>8, <1>9, KeptCompletions DEF IInv, CInv
<1>11. CursorKnown' /\ Fitting
  BY <1>1 DEF CInv, CursorKnown, Fitting, KeepsFitting, editor
<1>12. QED
  BY <1>10, <1>11, FittingIsWhole DEF CInv

LEMMA InitKnown == Init => CInv
<1> SUFFICES ASSUME Init PROVE CInv
  OBVIOUS
<1>1. DOMAIN pending = {} /\ DOMAIN reqs = {}
  BY DEF Init
<1>2. CompletionsKnown
  BY <1>1 DEF Init, CompletionsKnown, KnownCommand
<1>3. CursorKnown /\ SuggestionsWhole
  BY DEF Init, CursorKnown, SuggestionsWhole
<1>4. QED
  BY <1>2, <1>3 DEF CInv

(* What is shown or kept after a step fits the text and the cursor. *)
LEMMA StepKnown == IInv /\ CInv /\ [Next]_vars => CInv' /\ [Fitting]_vars
<1> SUFFICES ASSUME IInv, CInv, [Next]_vars PROVE CInv' /\ [Fitting]_vars
  OBVIOUS
<1>1. IInv'
  BY StepInv
<1>2. CASE EditorLoop
  BY <1>1, <1>2, EditorKnown
<1>3. CASE SyncLoop
  BY <1>1, <1>3, SyncKnown
<1>4. CASE UNCHANGED vars
  <2>1. UNCHANGED <<text, cursor, edited, suggestions, pending, reqs, sending, inbox>>
    BY <1>4 DEF vars, editor, queue
  <2>2. QED
    BY <1>1, <2>1, KeptTexts
<1>5. QED
  BY <1>2, <1>3, <1>4 DEF Next, Quiet

(* The invariant holds: the requests of a file are in order, from the queue to the server, and   *)
(* the completions are wanted where the text they are for was edited.                            *)
THEOREM Invariance == Spec => [](IInv /\ CInv)
<1>1. Init => IInv /\ CInv
  BY InitInv, InitKnown
<1>2. IInv /\ CInv /\ [Next]_vars => (IInv /\ CInv)'
  BY StepInv, StepKnown
<1>3. QED
  BY <1>1, <1>2, PTL DEF Spec

(* Types: the queue has one request of a buffer at most, and what is believed to be at the server *)
(* is of documents that were opened there.                                                       *)
THEOREM TypeCorrectness == Spec => []TypeOK
<1>1. IInv => TypeOK
  BY DEF IInv
<1>2. QED
  BY <1>1, Invariance, PTL

(* A change is computed from the text that the server has and has a newer version, and a question *)
(* is about that text: after failed calls, coalesced requests and files opened again.            *)
THEOREM WhatIsSentFits == Spec => []RequestsFit
<1>1. IInv => RequestsFit
  BY DEF IInv
<1>2. QED
  BY <1>1, Invariance, PTL

(* However late the answers come: the edits of a formatting are for the text of the buffer, an   *)
(* import is added once, and a suggestion that is shown by an answer, or kept over an edit,      *)
(* continues the word at the cursor to exactly the candidate.                                    *)
THEOREM WhatIsAppliedFits == Spec => AnswersFit
<1>1. IInv => EditsFit /\ ImportedOnce
  BY DEF IInv, AppliedFit
<1>2. IInv /\ CInv /\ [Next]_vars => [\A d \in Docs : KeepsFitting(d)]_vars
  BY StepKnown DEF Fitting
<1>3. QED
  BY <1>1, <1>2, Invariance, PTL DEF Spec, AnswersFit

(* The formatting that the editor loop waits for is on its way or answered. *)
THEOREM FormatIsNotLost == Spec => []FormatIsAnswered
<1>1. IInv => FormatIsAnswered
  BY DEF IInv
<1>2. QED
  BY <1>1, Invariance, PTL

=============================================================================
