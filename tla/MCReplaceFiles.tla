--------------------------- MODULE MCReplaceFiles ---------------------------
(* Small instances of ReplaceFiles for TLC.                                *)
EXTENDS ReplaceFiles, TLC

(* Files and contents are interchangeable.                                 *)
Symmetry == Permutations(File) \cup Permutations(Content)
=============================================================================
