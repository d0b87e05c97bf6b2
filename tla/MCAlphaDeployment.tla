------------------------- MODULE MCAlphaDeployment -------------------------
(* One demo pool stands for the three; four changes in between. *)
EXTENDS AlphaDeployment
=============================================================================
