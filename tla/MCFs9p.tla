------------------------------- MODULE MCFs9p -------------------------------
(* Paths and bytes for a run of Fs9p.                                      *)
EXTENDS Fs9p

MCPaths    == {<<"x">>, <<"/", "d", "/", "/", "x">>}
MCData     == {<<7, 8>>}
MCContents == {<<1, 2, 3>>}
=============================================================================
