------------------------------ MODULE MCGateway ------------------------------
(* Small instances of Gateway.                                                  *)
EXTENDS Gateway, TLC

CONSTANTS w1, w2

Symmetry == Permutations(Workers)
==============================================================================
