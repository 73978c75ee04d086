------------------------------- MODULE MCRope -------------------------------
(***************************************************************************)
(* Rope for TLC: leaves of two code points, a long piece of five leaves    *)
(* and room for nine code points.                                          *)
(***************************************************************************)
EXTENDS Rope

SomePieces == {<<>>, <<"a">>, <<"a", NL, NL, "a", "a", "a", "a", "a", "a">>}

=============================================================================
