---------------------------- MODULE MCDraftState ----------------------------
(* Model-checking instance of DraftState: the teams are alike, so that the    *)
(* watched client may be taken from the first.                              *)
EXTENDS DraftState

FirstTeam == {1} \X (1..TeamSize)
=============================================================================
