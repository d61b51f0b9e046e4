------------------------------ MODULE MCFiado ------------------------------
(***************************************************************************)
(* Small instances of the caderninho's store for TLC, with the loops of    *)
(* its replay beside it.                                                   *)
(***************************************************************************)
EXTENDS FiadoReplay

(* 0, 2 and -2 are asked for and refused when MaxAmount is 1.              *)
UnitAmounts == {-2, -1, 0, 1, 2}

(* A balance comes back to zero, crosses it either way, or stays positive. *)
ThreeAmounts == {-2, 1, 2}
=============================================================================
