--------------------------- MODULE MCLobbyService ---------------------------
(* Model-checking instance of LobbyService.                                  *)
EXTENDS LobbyService, TLC

Symmetry == Permutations(Users)
=============================================================================
