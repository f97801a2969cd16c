--------------------------- MODULE MCUpdateClient ---------------------------
(***************************************************************************)
(* One extension, and versions that differ in a late part, in length, in   *)
(* sign, or in a part that is no number.                                   *)
(***************************************************************************)
EXTENDS UpdateClient

CONSTANT a

MCID == {a}
MCVersion ==
    {EmptyVersion, <<0>>, <<1>>, <<1, 0>>, <<1, 1>>, <<1, -1>>, <<1, Junk, 2>>, <<2>>, <<2, 0, 1>>}
MCSize == {0, 1}
=============================================================================
