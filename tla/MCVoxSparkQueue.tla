-------------------------- MODULE MCVoxSparkQueue --------------------------
(* Small instances of VoxSparkQueue for TLC. *)
EXTENDS VoxSparkQueue

CONSTANTS e1, e2, p1, p2
=============================================================================
