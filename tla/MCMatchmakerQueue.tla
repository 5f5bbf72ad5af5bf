------------------------- MODULE MCMatchmakerQueue -------------------------
(* Model-checking instance of MatchmakerQueue: modes of two players each.     *)
EXTENDS MatchmakerQueue, TLC

Pairs == [m \in Modes |-> 2]
Symmetry == Permutations(Ids)
=============================================================================
