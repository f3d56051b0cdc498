------------------------------ MODULE MCAsset -------------------------------
(***************************************************************************)
(* Asset with an int64_t of 5 bits: -16 .. 15, and amounts of at most 7.   *)
(* The inputs hold both limits of amounts, the values next to them and the *)
(* limits of the integer.                                                  *)
(***************************************************************************)
EXTENDS Asset

MCInputs == {-16, -8, -7, -2, -1, 0, 1, 2, 7, 8, 15}
=============================================================================
