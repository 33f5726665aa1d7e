--------------------------- MODULE MCFlushWindow ---------------------------
(***************************************************************************)
(* Small instances of FlushWindow: one marked row.                         *)
(***************************************************************************)
EXTENDS FlushWindow

CONSTANT m1

LastTable == [m \in Mark |-> "device_status"]
=============================================================================
