--------------------------- MODULE MCMatchmaking ---------------------------
(* Model-checking instances of Matchmaking: users are interchangeable.      *)
EXTENDS Matchmaking, TLC

Symmetry == Permutations(Players)
=============================================================================
