---------------------------- MODULE MCGovernance ----------------------------
(* Two users; weeks of two seconds and locks of at most two weeks. *)
EXTENDS Governance, TLC

CONSTANTS alice, bob

MCMinted == (alice :> 12) @@ (bob :> 0) @@ (VotingEscrow :> 0)
=============================================================================
