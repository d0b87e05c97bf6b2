----------------------------- MODULE Governance -----------------------------
(* The token and the escrow that holds what is locked for votes.             *)
EXTENDS VotingEscrow, Functions

vars == <<tokenVars, escrowVars>>

TypeOK == TokenTypeOK /\ EscrowTypeOK

Init == TokenInit /\ EscrowInit

\* What is assumed of the users: somebody deposits or calls checkpoint before
\* the loop over the weeks no longer gets from the last point to the present.
\* "Hopefully it won't happen that this won't get used in 5 years! If it does,
\* users will be able to withdraw but vote weight will be broken"
\* (VotingEscrow.vy:304).
Checkpointed == now <= Reached

Next == (TokenNext /\ UNCHANGED escrowVars /\ Checkpointed') \/ EscrowNext

Spec == Init /\ [][Next]_vars

-----------------------------------------------------------------------------
(* Properties. *)

\* The total of the votes, now and at any later time that the loop gets to, is
\* the sum of the users' votes, although it is kept apart as a line with
\* scheduled changes and each user's is not (_checkpoint, supply_at, balanceOf).
VotesAddUp ==
  \A t \in now .. now + MAXTIME :
    t <= Reached => TotalSupply(t) = SumFunction([u \in Users |-> BalanceOf(u, t)])

\* What users have locked is counted and held by the escrow, whatever the
\* token locks and a shutdown releases (_deposit_for, withdraw).
LocksAreBacked ==
  /\ supply = SumFunction([u \in Users |-> locked[u].amount])
  /\ supply <= balance[VotingEscrow]

\* Until a shutdown nobody votes with more than the share of a lock that the
\* time left is of MAXTIME, at any later time and however often it was raised
\* and extended, and all votes together, as far as the loop gets, never exceed
\* what is locked (VotingEscrow.vy:8, "Lock time cannot be more than `MAXTIME`").
VotesWithinLocks ==
  ~isShutdown =>
    \A t \in now .. now + MAXTIME :
      /\ \A u \in Users :
           BalanceOf(u, t) * MAXTIME <= locked[u].amount * Greater(locked[u].end - t, 0)
      /\ t <= Reached => TotalSupply(t) <= supply

\* While a lock period lasts nobody's balance falls below what is locked of
\* it, in transfers, deposits or further locks (lockAmount,
\* _beforeTokenTransfer).  A second period may lock what is gone.
LockedIsHeld ==
  [][IsLockPeriodActive /\ IsLockPeriodActive' =>
       \A u \in Users : lockedAmount[u] <= balance[u] => lockedAmount'[u] <= balance'[u]]_vars

\* After a shutdown votes fall as they would have, for users that withdraw as
\* for others (test-unit/VotingEscrow.js:270, "should be frozen").
ShutdownFreezesVotes ==
  [][isShutdown =>
       /\ \/ UNCHANGED <<point, slopeChanges>>
          \/ \A t \in now' .. now' + MAXTIME : t <= Reached => TotalSupply(t)' = TotalSupply(t)
       /\ \A u \in Users :
            \/ UNCHANGED userPoint[u]
            \/ \A t \in now' .. now' + MAXTIME : BalanceOf(u, t)' = BalanceOf(u, t)]_vars
=============================================================================
