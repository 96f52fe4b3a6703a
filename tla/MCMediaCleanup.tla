--------------------------- MODULE MCMediaCleanup ---------------------------
(* Small instances of MediaCleanup for TLC. *)
EXTENDS MediaCleanup, TLC

CONSTANTS i1, i2, i3, w1, w2, d1, d2

============================================================================
