--------------------------- MODULE MCCommandProxy ---------------------------
(* Instances of CommandProxy for TLC: a client that pings, as Client does, and sends two         *)
(* commands, and another one that sends a command, replacing one of those or replaced by it, and *)
(* tells the proxy to quit.                                                                      *)
EXTENDS CommandProxy

CONSTANTS editor, other, first, second, third

MCConns == {editor, other}
MCLines == editor :> <<Ping, first, second>> @@ other :> <<third, Quit>>
NoConns == {}

=============================================================================
