----------------------------- MODULE MCPathMaker -----------------------------
(***************************************************************************)
(* Instances of PathMaker: an inch, which the points measure exactly;      *)
(* vectors whose distances are whole numbers; and vectors of which one is  *)
(* a whole number of inches from no other.                                 *)
(***************************************************************************)
EXTENDS PathMaker

Corner == <<0, 0>>

OneInch == {<<0, 0>>, <<0, 1>>}
Straight == {<<0, 0>>, <<0, 2>>, <<0, 3>>}
Slanted == {<<0, 0>>, <<0, 2>>, <<1, 1>>}
==============================================================================
