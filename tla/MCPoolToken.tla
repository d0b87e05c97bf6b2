----------------------------- MODULE MCPoolToken -----------------------------
(* Two users; a one-decimal underlyer, so that values and amounts round.     *)
EXTENDS PoolToken, TLC

MCSymmetry == Permutations(Users)
=============================================================================
