---------------------------- MODULE MCGameLoader ----------------------------
(* Model-checking instances of GameLoader: users are interchangeable.       *)
EXTENDS GameLoader, TLC

Symmetry == Permutations(Players)
=============================================================================
