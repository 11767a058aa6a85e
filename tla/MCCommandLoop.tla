--------------------------- MODULE MCCommandLoop ---------------------------
(* An instance of CommandLoop for TLC: the goroutine reading the input, with few batches of keys   *)
(* that cover every key and the orders of a quit and an edit, and a background goroutine an      *)
(* extension waits for in its Close, which submits every other kind of command.                  *)
EXTENDS CommandLoop

CONSTANTS input, background

Batch(s) == [do |-> "keys", keys |-> s]
Plain(k) == [do |-> k]

MCSenders == {input, background}
MCBackground == {background}

MCSends ==
  input :> { Batch(<<"save", "close", "type">>), Batch(<<"open", "type", "exit">>),
             Batch(<<"move", "forceClose">>), Plain("quitAll") }
  @@ background :> { Plain(k) : k \in {"edit", "open", "reload", "render"} }

=============================================================================
