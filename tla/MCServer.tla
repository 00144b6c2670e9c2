------------------------------ MODULE MCServer ------------------------------
(***************************************************************************)
(* TitanServer with two or three concurrent requests.                      *)
(***************************************************************************)
EXTENDS TitanServer, TLC

RequestSymmetry == Permutations(Request)
=============================================================================
