--------------------------- MODULE MCPublication ----------------------------
(* Small instances of Publication for TLC.                                 *)
EXTENDS Publication

MCVersion == 1..3
MCRelease == 0..1
=============================================================================
