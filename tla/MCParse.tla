------------------------------- MODULE MCParse -------------------------------
(***************************************************************************)
(* Parse with small integer widths, and values around their boundaries.    *)
(***************************************************************************)
EXTENDS Parse

SmallInts == {-17, -3, -1, 0, 1, 2, 3, 4, 8, 17}
SmallHalves == {-40, -3, -1, 1, 3, 7, 40}
=============================================================================
