----------------------------- MODULE MCNavRing -----------------------------
(* An instance of NavRing for TLC: a ring of four locations has two on each side of the place in *)
(* it, and wraps around after four jumps.                                                        *)
EXTENDS NavRing

CONSTANTS p, q, top, bottom

TwoPaths == {p, q}
TwoPositions == {top, bottom}

=============================================================================
