--------------------------- MODULE MCPaneProcess ---------------------------
(* An instance of PaneProcess for TLC: two items delivered by one editor, or by two in a tab.    *)
EXTENDS PaneProcess

CONSTANTS first, second

TwoEditors == {"left", "right"}
TwoItems == {first, second}
TwoProcs == 1 .. 2

=============================================================================
