-------------------------- MODULE MCReleaseUpdate ---------------------------
(* A small instance of ReleaseUpdate for TLC.                              *)
EXTENDS ReleaseUpdate

MCRank == 0..1
MCMetadata == 0..1
=============================================================================
