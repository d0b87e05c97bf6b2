---------------------------- MODULE MetaPoolToken ----------------------------
(* MetaPoolTokenV2: the mAPT token that tracks what the LP Account owes each *)
(* reserve pool, and the two operations of the LP Safe that move capital     *)
(* between the pools and the LP Account.  The pools contribute their signed  *)
(* top-up amount (PoolTokenV3.getReserveTopUpValue) and transferToLpAccount; *)
(* the LP Account its balances and transferToPool; the oracle whatever its   *)
(* reads return.  Every other contract may act between two operations, so    *)
(* reserves, LP balances and oracle readings also change on their own.       *)
(*                                                                          *)
(* A Solidity call is one atomic step; a reverted call changes nothing and   *)
(* is a step that is not enabled.                                           *)
EXTENDS SolidityMath, FiniteSets, Functions

CONSTANTS
  Pools,        \* the reserve pools; each has an underlyer of its own
  Scale,        \* Scale[p] = 10 ** decimals of p's underlyer
  Factor,       \* DEFAULT_MAPT_TO_UNDERLYER_FACTOR
  MaxUint,      \* the largest uint256: SafeMath reverts above it
  Batches,      \* poolIds arguments: how often each pool occurs in the array
  Unreadable,   \* an oracle read that reverts (locked, stale, no source)
  TvlReadings, PriceReadings, \* what an oracle read may return
  Balances,     \* token balances left by the other contracts' operations
  MaxUnderlyer, \* bound: underlyer of one pool in the pool and the LP Account
  Percentages,  \* values of reservePercentage
  ZeroPeriod,   \* whether OracleAdapter.defaultLockPeriod may be 0
  Attended      \* bound: the pools the other contracts act on

ASSUME PoolsAssumption == IsFiniteSet(Pools)
ASSUME ScaleAssumption == Scale \in [Pools -> Nat \ {0}]
ASSUME BatchesAssumption == Batches \subseteq [Pools -> Nat]
ASSUME BoundsAssumption == /\ MaxUint \in Nat
                           /\ MaxUnderlyer \in Nat
                           /\ Factor \in Nat \ {0}
ASSUME ReadingsAssumption == /\ Unreadable \notin Nat
                             /\ TvlReadings \subseteq Nat \cup {Unreadable}
                             /\ PriceReadings \subseteq [Pools -> Nat \cup {Unreadable}]
ASSUME BalancesAssumption == Balances \subseteq Nat
ASSUME PercentagesAssumption == Percentages \subseteq Nat
ASSUME AttendedAssumption == Attended \subseteq Pools /\ ZeroPeriod \in BOOLEAN

VARIABLES
  mApt,              \* ERC20 balance of each pool in the mAPT contract
  totalSupply,       \* ERC20 total supply of mAPT
  reserve,           \* underlyer.balanceOf(pool)
  lpBalance,         \* underlyer.balanceOf(lpAccount)
  tvl,               \* what OracleAdapter.getTvl would return now
  price,             \* what OracleAdapter.getAssetPrice would return now
  reservePercentage, \* of each pool
  paused,            \* each pool's Pausable flag
  registered         \* the underlyers registered with Erc20Allocation

mAptVars == <<mApt, totalSupply>>
tokenVars == <<reserve, lpBalance>>
oracleVars == <<tvl, price>>
poolVars == <<reservePercentage, paused>>
vars == <<mAptVars, tokenVars, oracleVars, poolVars, registered>>

Uint == 0 .. MaxUint

TypeOK ==
  /\ mApt \in [Pools -> Nat]
  /\ totalSupply \in Nat
  /\ reserve \in [Pools -> Nat]
  /\ lpBalance \in [Pools -> Nat]
  /\ tvl \in Nat \cup {Unreadable}
  /\ price \in [Pools -> Nat \cup {Unreadable}]
  /\ reservePercentage \in [Pools -> Nat]
  /\ paused \in [Pools -> BOOLEAN]
  /\ registered \in SUBSET Pools

Init ==
  /\ mApt = [p \in Pools |-> 0]
  /\ totalSupply = 0
  /\ reserve \in [Pools -> Balances]
  /\ lpBalance = [p \in Pools |-> 0]
  /\ tvl = 0
  /\ price \in PriceReadings
  /\ reservePercentage \in [Pools -> Percentages]
  /\ paused = [p \in Pools |-> FALSE]
  /\ registered = {}

-----------------------------------------------------------------------------
(* Values, as the contracts compute them from the oracle's readings. *)

\* Mutant: rounds a pool's share up.
DeployedValueRoundedUp(p) ==
  IF totalSupply = 0 \/ mApt[p] = 0 THEN 0
  ELSE (tvl * mApt[p] + totalSupply - 1) \div totalSupply

\* getDeployedValue: the USD value of the pool's share of deployed capital.
DeployedValue(p) ==
  IF totalSupply = 0 \/ mApt[p] = 0 THEN 0
  ELSE (tvl * mApt[p]) \div totalSupply

\* PoolTokenV3.getValueFromUnderlyerAmount.
ValueFromUnderlyerAmount(p, amount) == (price[p] * amount) \div Scale[p]

\* Mutant: the percentage of what is deployed before the move.
TopUpOfCurrentDeployed(p) ==
  TruncDiv(reservePercentage[p] * DeployedValue(p)
             - 100 * ValueFromUnderlyerAmount(p, reserve[p]), 100)

\* PoolTokenV3._getReserveTopUpValue, the solution of
\* reserve + topUp = (percentage / 100) * (deployed - topUp).
ReserveTopUpValue(p) ==
  TruncDiv(reservePercentage[p] * DeployedValue(p)
             - 100 * ValueFromUnderlyerAmount(p, reserve[p]),
           100 + reservePercentage[p])

\* Mutant: forgets the underlyer's decimals.
RebalanceAmountUnscaled(p) ==
  LET topUp == ReserveTopUpValue(p)
  IN  IF topUp = 0 THEN 0 ELSE TruncDiv(topUp, price[p])

\* PoolTokenV3.getReserveTopUpValue: despite its name, an underlyer amount.
\* Positive when the reserve is in deficit, negative when it is in excess.
RebalanceAmount(p) ==
  LET topUp == ReserveTopUpValue(p)
  IN  IF topUp = 0 THEN 0 ELSE TruncDiv(topUp * Scale[p], price[p])

\* Mutant: no test of the sign before the cast.
FundAmountUnchecked(p) == -RebalanceAmount(p)

\* _getFundAmounts: the excess of the reserve.
FundAmount(p) == Greater(-RebalanceAmount(p), 0)

\* Mutant: MetaPoolToken V1, which asks for the whole top-up.
WithdrawAmountUncapped(p) == Greater(RebalanceAmount(p), 0)

\* _calculateAmountsToWithdraw: the deficit, as far as the LP Account holds it.
WithdrawAmount(p) == Lesser(Greater(RebalanceAmount(p), 0), lpBalance[p])

\* _calculateDelta: the mAPT that stands for an underlyer amount.
MintedFor(value) ==
  IF tvl = 0 \/ totalSupply = 0 THEN value * Factor
  ELSE (value * totalSupply) \div tvl
Delta(p, amount) == MintedFor((amount * price[p]) \div Scale[p])

-----------------------------------------------------------------------------
(* The LP Safe's operations.  All deltas are computed before the first mint *)
(* or burn, so the order of the array is immaterial: a batch is a bag.      *)

Members(b) == {p \in Pools : b[p] > 0}

\* Every pool of the batch reads the TVL and its price (_calculateDeltas);
\* converting a top-up to an amount divides by the price.
CanPrice(b) ==
  \A p \in Members(b) :
    /\ tvl # Unreadable
    /\ price[p] # Unreadable
    /\ price[p] = 0 => ReserveTopUpValue(p) = 0

\* Mutant: mints each delta before it computes the next.
MintedInTurn(b, p) ==
  LET supply == totalSupply + SumFunction([q \in Members(b) \ {p} |-> Delta(q, FundAmount(q))])
      value  == (FundAmount(p) * price[p]) \div Scale[p]
  IN  b[p] * (IF tvl = 0 THEN value * Factor ELSE (value * supply) \div tvl)

\* A pool whose delta is 0 moves no tokens either (the early returns of
\* _mintAndTransfer and _burnAndTransfer).
Minted(b, p) == b[p] * Delta(p, FundAmount(p))
Funded(b, p) == IF Minted(b, p) = 0 THEN 0 ELSE b[p] * FundAmount(p)
Burned(b, p) == b[p] * Delta(p, WithdrawAmount(p))
Withdrawn(b, p) == IF Burned(b, p) = 0 THEN 0 ELSE b[p] * WithdrawAmount(p)

\* The calls that may revert: ERC20 transfers and burns beyond the balance,
\* and a transfer out of a paused pool.
FundCovered(b, p) == /\ Funded(b, p) <= reserve[p]
                     /\ Minted(b, p) > 0 => ~paused[p]
WithdrawCovered(b, p) == /\ Burned(b, p) <= mApt[p]
                         /\ Withdrawn(b, p) <= lpBalance[p]

\* What the oracle's reads return from now on.
OracleAnswers == tvl' \in TvlReadings /\ price' \in PriceReadings

\* OracleAdapter.lock, called after the moves: no read succeeds until the
\* lock ends.  A default period of 0 locks nothing, and even ends a lock.
LockOracle ==
  \/ /\ tvl' = Unreadable
     /\ price' = [p \in Pools |-> Unreadable]
  \/ ZeroPeriod /\ OracleAnswers

\* _registerPoolUnderlyers (every pool of the array, moved or not).
RegisterUnderlyers(b) == registered' = registered \cup Members(b)

\* _fundLpAccount and _registerPoolUnderlyers, up to the lock.
FundTokens(b) ==
  /\ CanPrice(b)
  /\ \A p \in Members(b) : FundCovered(b, p)
  /\ mApt' = [p \in Pools |-> IF p \in Members(b) THEN mApt[p] + Minted(b, p)
                              ELSE mApt[p]]
  /\ totalSupply' = totalSupply + SumFunction([p \in Members(b) |-> Minted(b, p)])
  /\ totalSupply' \in Uint
  /\ reserve' = [p \in Pools |-> IF p \in Members(b) THEN reserve[p] - Funded(b, p)
                                 ELSE reserve[p]]
  /\ lpBalance' = [p \in Pools |-> IF p \in Members(b) THEN lpBalance[p] + Funded(b, p)
                                   ELSE lpBalance[p]]
  /\ RegisterUnderlyers(b)
  /\ UNCHANGED poolVars

\* _withdrawFromLpAccount and _registerPoolUnderlyers, up to the lock.
WithdrawTokens(b) ==
  /\ CanPrice(b)
  /\ \A p \in Members(b) : WithdrawCovered(b, p)
  /\ mApt' = [p \in Pools |-> IF p \in Members(b) THEN mApt[p] - Burned(b, p)
                              ELSE mApt[p]]
  /\ totalSupply' = totalSupply - SumFunction([p \in Members(b) |-> Burned(b, p)])
  /\ totalSupply' \in Uint
  /\ reserve' = [p \in Pools |-> IF p \in Members(b) THEN reserve[p] + Withdrawn(b, p)
                                 ELSE reserve[p]]
  /\ lpBalance' = [p \in Pools |-> IF p \in Members(b) THEN lpBalance[p] - Withdrawn(b, p)
                                   ELSE lpBalance[p]]
  /\ RegisterUnderlyers(b)
  /\ UNCHANGED poolVars

FundLpAccount(b) == FundTokens(b) /\ LockOracle
WithdrawFromLpAccount(b) == WithdrawTokens(b) /\ LockOracle

-----------------------------------------------------------------------------
(* What the rest of the system may do in between. *)

\* The lock ends, Chainlink reports, the Emergency Safe overrides, ...
OracleMoves ==
  /\ OracleAnswers
  /\ UNCHANGED <<mAptVars, tokenVars, poolVars, registered>>

\* Deposits, redemptions and emergencyExit change a pool's reserve.
ReserveMoves(p) ==
  /\ \E n \in Balances : /\ n + lpBalance[p] <= MaxUnderlyer
                         /\ reserve' = [reserve EXCEPT ![p] = n]
  /\ UNCHANGED <<mAptVars, lpBalance, oracleVars, poolVars, registered>>

\* Strategies, swaps and claims change the LP Account's balances, of several
\* underlyers at once, and lock the oracle; emergencyExit does not lock it.
LpAccountMoves ==
  /\ \E held \in [Attended -> Balances] :
       /\ \A p \in Attended : held[p] + reserve[p] <= MaxUnderlyer
       /\ lpBalance' = [p \in Pools |-> IF p \in Attended THEN held[p] ELSE lpBalance[p]]
  /\ LockOracle \/ UNCHANGED oracleVars
  /\ UNCHANGED <<mAptVars, reserve, poolVars, registered>>

SetReservePercentage(p) ==
  /\ \E n \in Percentages :
       reservePercentage' = [reservePercentage EXCEPT ![p] = n]
  /\ UNCHANGED <<mAptVars, tokenVars, oracleVars, paused, registered>>

\* emergencyLock and emergencyUnlock of a pool.
EmergencyLockOrUnlock(p) ==
  /\ paused' = [paused EXCEPT ![p] = ~@]
  /\ UNCHANGED <<mAptVars, tokenVars, oracleVars, reservePercentage, registered>>

\* Erc20Allocation.registerErc20Token and removeErc20Token of a pool's
\* underlyer, by the Admin Safe, also lock.
RegisterOrRemoveErc20Token(p) ==
  /\ registered' \in {registered \cup {p}, registered \ {p}}
  /\ LockOracle
  /\ UNCHANGED <<mAptVars, tokenVars, poolVars>>

Next ==
  \/ \E b \in Batches : FundLpAccount(b) \/ WithdrawFromLpAccount(b)
  \/ OracleMoves
  \/ LpAccountMoves
  \/ \E p \in Attended : \/ ReserveMoves(p)
                         \/ SetReservePercentage(p)
                         \/ EmergencyLockOrUnlock(p)
                         \/ RegisterOrRemoveErc20Token(p)

Spec == Init /\ [][Next]_vars

-----------------------------------------------------------------------------
(* Correctness. *)

\* A batch that names each pool once.
Distinct(b) == \A p \in Pools : b[p] <= 1

\* With the pools priced and unpaused, neither operation can be refused by
\* an ERC20 balance: the excess FundLpAccount takes is in the reserve, and a
\* withdrawal is covered by the pool's mAPT and the LP Account's tokens,
\* whatever the readings and however stale the TVL is.
RebalanceIsCovered ==
  \A b \in Batches :
    Distinct(b) /\ CanPrice(b) =>
      \A p \in Members(b) : /\ paused[p] \/ FundCovered(b, p)
                            /\ WithdrawCovered(b, p)

\* A pool that has mAPT keeps some: no withdrawal burns a pool's last unit,
\* so the mAPT supply, once positive, stays positive and the bootstrap rate
\* (Factor) is never used a second time while assets are deployed.
NeverBurnsOut == [][\A p \in Pools : mApt[p] > 0 => mApt'[p] > 0]_vars

\* Underlyer passes between a pool and the LP Account only against mAPT, not
\* even a rest too small for a unit of it; and the mAPT minted or burned for a
\* pool is the pool's share of the moved value at the supply and TVL from
\* before the batch, short by less than one unit: no pool of the batch, and
\* none outside it, is diluted by the others.  (_mintAndTransfer returns early;
\* "MUST do the actual minting after calculating all".)
SharesFollowValue ==
  [][\A p \in Pools :
       /\ (reserve'[p] # reserve[p] /\ lpBalance'[p] # lpBalance[p]) => mApt'[p] # mApt[p]
       /\ (mApt'[p] # mApt[p] /\ totalSupply > 0 /\ tvl > 0) =>
            LET units == Magnitude(mApt'[p] - mApt[p])
                value == ValueFromUnderlyerAmount(p, Magnitude(reserve'[p] - reserve[p]))
            IN  /\ units * tvl <= value * totalSupply
                /\ value * totalSupply < (units + 1) * tvl]_vars

\* equation 1 of _getReserveTopUpValue: after the move, the reserve is the
\* requested percentage of what is deployed, up to the rounding of the two
\* conversions.  Withdrawals the LP Account could not cover are excepted.
ReserveMeetsTarget ==
  [][\A p \in Pools :
       mApt'[p] # mApt[p] /\ (mApt'[p] > mApt[p] \/ lpBalance'[p] > 0) =>
         LET moved  == ValueFromUnderlyerAmount(p, Magnitude(reserve'[p] - reserve[p]))
             gained == IF mApt'[p] < mApt[p] THEN moved ELSE -moved
             held   == ValueFromUnderlyerAmount(p, reserve'[p])
             off    == 100 * held - reservePercentage[p] * (DeployedValue(p) - gained)
         IN  Magnitude(off) * Scale[p] <=
               (100 + reservePercentage[p]) * (2 * Scale[p] + price[p])]_vars

\* The pools' deployed values never add up to more than the TVL.
DeployedValueWithinTvl ==
  tvl # Unreadable =>
    SumFunction([p \in Pools |-> DeployedValue(p)]) <= tvl
=============================================================================
