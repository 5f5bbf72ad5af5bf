---------------------------- MODULE MCLobbySlots ----------------------------
(* Model-checking instance of LobbySlots: two player teams and observers; the  *)
(* map fixes one race and owns one computer.                                *)
EXTENDS LobbySlots, TLC

TwoTeams == <<3, 1>>
OneForced == {<<1, 2>>}
OneComputer == {<<2, 1>>}
Symmetry == Permutations(Users)
=============================================================================
