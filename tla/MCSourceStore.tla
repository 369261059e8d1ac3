--------------------------- MODULE MCSourceStore ----------------------------
(* A small source for TLC, with nested directories and one file at root.   *)
EXTENDS SourceStore

MCRoot == <<"root">>
MCSource == {<<"root", "template">>, <<"root", "locales", "en">>, <<"root", "locales", "scripts", "run">>}
MCSmall == {<<"root", "template">>, <<"root", "locales", "scripts", "run">>}
=============================================================================
