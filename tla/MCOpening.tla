----------------------------- MODULE MCOpening ------------------------------
(* Every output of up to seven symbols, with the prefix "text".            *)
EXTENDS Opening

MCPrefix == <<"text">>
=============================================================================
