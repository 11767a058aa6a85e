----------------------------- MODULE MCLspSync -----------------------------
(* An instance of LspSync for TLC.  One document that may be closed and opened again: the        *)
(* requests of different documents meet only in the order of the queue.                          *)
(*                                                                                               *)
(* The run explores two families of behaviours side by side, as their product is out of reach.   *)
(* The place where the cursor starts tells them apart, and it stays in its family.  Away from    *)
(* the words (apart) no completion finds anything, and everything else happens: the questions,   *)
(* the failures, two imports answered one after the other, the second opening of the file.       *)
(* Among the words (here and there) a file that is opened once is only typed in.                 *)
EXTENDS LspSync

CONSTANTS doc, here, there, apart

OneDoc == {doc}
Versions == <<5, 2>>
Places == {here, there, apart}
Origins == [p \in Places |-> 0]
Words == (here :> 3) @@ (there :> 1) @@ (apart :> 0)

MaxReopenedText == 4   (* bound on the edits of a file opened again     *)
MaxTypedText == 4      (* bound on the edits that type the words        *)

Wordless == cursor[doc].place = apart

WordlessOnly == gen'[doc] = 2 => text'[doc] <= MaxReopenedText

TypingOnly ==
  /\ gen'[doc] <= 1 /\ text'[doc] <= MaxTypedText /\ version'[doc] = text'[doc]
  /\ \A i \in DOMAIN pending' : pending'[i].ask \subseteq {"completion"}

InFamily ==
  /\ Wordless' = Wordless
  /\ IF Wordless THEN WordlessOnly ELSE TypingOnly

=============================================================================
