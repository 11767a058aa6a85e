--------------------------- MODULE MCRemoteServer ---------------------------
(* An instance of RemoteServer for TLC: a client that keeps its connection open. *)
EXTENDS RemoteServer

CONSTANTS editor, other, first, second

MCConns == {editor, other}
MCLines == editor :> <<Ping, first>> @@ other :> <<second>>
Lingering == {other}

=============================================================================
