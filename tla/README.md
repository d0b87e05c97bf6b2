# APY.Finance core contracts: a TLA+ verification project

This directory models the Solidity contracts under `src/contracts`: TLA+ modules
of the components, TLC configurations that check them on small instances, and
theorems that TLAPS proves for every value of the constants. All line numbers
below refer to files under `src/contracts`.

## 1. The system

Users deposit stablecoins in **reserve pools** and receive APT. The LP Safe moves
part of each reserve to the **LP Account**, which deploys it into strategies
("zaps"); **mAPT** records how much of the deployed capital belongs to which pool.
The value of what is deployed is computed off chain by Chainlink nodes from the
**TVL registry**, and comes back through an **aggregator** and the **oracle
adapter**. Every operation that changes the deployed capital locks the adapter, so
that nobody acts on the old value.

    users --APT--> PoolToken (dai, usdc, usdt) <--mAPT.fund/withdraw--> LpAccount --zaps--> protocols
                       |  getDeployedValue |                              |  lockFor
                       v                   v                              v
                   OracleAdapter <---lock--- MetaPoolToken         OracleAdapter
                       ^ latestRoundData                             Erc20Allocation, TvlManager --lock-->
                   FluxAggregator <--submit-- Chainlink nodes --read--> TvlManager

| Component | Source | State | Operations | Hard behaviour | Correct when |
|---|---|---|---|---|---|
| Reserve pool | `pool/PoolTokenV3.sol` | APT balances, reserve, deposit times, fees, three locks | addLiquidity, redeem, transferToLpAccount, emergencyExit, setters | rounding, fees, readings that move or fail between two calls | nobody gains from a round trip; share price kept; claims within assets; arbitrage period holds |
| mAPT | `mapt/MetaPoolTokenV2.sol` | mAPT balances and supply | fundLpAccount, withdrawFromLpAccount (batches of pools) | order in a batch, shortfalls, signed rounding, stale TVL | covered by the balances; follows value; hits the reserve target; never burns out |
| Oracle adapter | `oracle/OracleAdapter.sol` | lock end and period, sources, submitted values | lock, lockFor, emergencyUnlock, submit/unset, sources, periods, reads | overlapping locks, expiry, staleness | locks only cut knowingly; overrides only from the Safe; nothing read from silence |
| LP Account | `lpaccount/LpAccountV2.sol` | balances, positions among them, zaps, swaps, reward fees, lock period | deploy, unwind, swap, claim, registries, emergencyExit | swallowed lock refusal, registrations checked only at deployment | each change of capital is covered by a lock; everything held is counted |
| TVL registry | `tvl/TvlManager.sol`, `tvl/Erc20Allocation.sol`, `libraries/NamedAddressSet.sol` | allocations by address and by name, token list | register, remove, enumerate, balanceOf | two structures kept in step; indices that move on removal | enumerations complete; ids denote one token |
| Aggregator | `oracle/FluxAggregator.sol` | rounds, oracles, funds, admins | submit, changeOracles, requestNewRound, payments, hand-over | timeouts, late answers, superseded rounds, restart delays, reserves | past answers stay; no round is skipped; answers from enough oracles; what is owed is there; rounds end |
| Address registry | `registry/AddressRegistryV2.sol` | id list and map | register, delete | list and map kept in step | implements a map |
| Rewards and governance | `rewards/VotingEscrow.vy`, `GovernanceTokenV2.sol`, `RewardDistributor.sol` | locks, checkpoints, locked amounts, nonces | create/increase/withdraw, lockAmount, claim | shutdown, checkpoint catch-up, scheduled slope changes, re-lock | the votes add up; locks are backed; a locked amount stays; claims once |
| Deployment | `deploy/AlphaDeployment.sol` | step counter, deployed addresses | deploy steps | separate transactions, a registry that changes in between | contracts trust only the deployment; no step blocks a later one |
| Protocol adapters | `protocols/**` | none of their own | deployLiquidity, unwindLiquidity, claim, swap | third-party behaviour, lists that are not complete | what they turn a balance into is counted |

Solidity gives atomicity: a transaction runs to its end or reverts. So an action of
a model is a whole external call, with every call it makes; a call that reverts
is an action that is not enabled; interleaving is the order of transactions of
different actors (users, the three Safes, the Chainlink nodes, the clock).

## 2. Modules

| Module | Models | Checked by | Proved in |
|---|---|---|---|
| `SolidityMath` | `int256` division, the two comparisons | all | `SolidityMathLemmas` |
| `PoolToken` | PoolTokenV3 | run `pool_token` | `PoolTokenProofs` |
| `MetaPoolToken` | MetaPoolTokenV2 with the pools' top-up | run `mapt` | `MetaPoolTokenProofs` |
| `OracleAdapter` | OracleAdapter | run `oracle` | `OracleAdapterProofs` |
| `CapitalCycle` | mAPT, LP Account, token registry and adapter together | runs `capital_cycle`, `cycle_refines_mapt`, `funds_returned` | `CapitalCycleProofs` |
| `EnumerableSet` | OpenZeppelin's array-backed set | through the next two | |
| `NamedAddressSet` | NamedAddressSet; `Directory` is its abstract specification | run `named_set` | `LpAccountProofs` |
| `LpAccount` | LpAccountV2 with TvlManager and Erc20Allocation | run `lp_account` | `LpAccountProofs` |
| `FluxAggregator` | FluxAggregator; `PriceFeed` is what a reader of it relies on | runs `flux_aggregator`, `flux_stale` | `FluxAggregatorProofs` |
| `GovernanceToken` | GovernanceTokenV2 | through `Governance` | `GovernanceProofs` |
| `VotingEscrow` | VotingEscrow, which takes the token's balances | through `Governance` | `GovernanceProofs` |
| `Governance` | the token and the escrow together, and their properties | run `governance` | `GovernanceProofs` |
| `AddressRegistry` | AddressRegistryV2, as operators on a registry | through `AlphaDeployment` | |
| `AlphaDeployment` | AlphaDeployment and the registry's owner | run `alpha_deployment` | `OracleAdapterProofs` |

### PoolToken
`balanceOf`, `totalSupply`, `reserve`, `lastDepositTime` and the fee and lock
variables are the contract's storage under its names. `price` and `deployed` are
what `getUnderlyerPrice` and `mApt.getDeployedValue` return now, or `Unreadable`
when the call reverts; `ReadingsMove` changes them between any two calls. Actions:
`AddLiquidity` (193-228), `Redeem` (250-280), `TransferToLpAccount` (305-313),
`EmergencyExit`, the setters and the six lock operations. Transfers between users
always revert (509-519) and are no action.

### MetaPoolToken
A batch `b` is the `poolIds` array as a bag, `b[p]` being how often `p` occurs: all
deltas and amounts are computed before the first mint or burn, so the order does
not matter. `RebalanceAmount(p)` is `PoolTokenV3.getReserveTopUpValue` with its
signed division; `FundLpAccount` and `WithdrawFromLpAccount` are `FundTokens` and
`WithdrawTokens` (everything up to the lock) followed by `LockOracle`. The other
contracts act through `OracleMoves`, `ReserveMoves`, `LpAccountMoves` and the
registrations. That this environment is broad enough is what `CapitalCycle`'s
refinement shows.

### OracleAdapter
The TVL and the assets have separate storage with the same rules; the model has one
set `Feeds`. `IsReadable(f)` and `Reading(f)` are `getTvl`/`getAssetPrice`.
The aggregators' answers, the clock and the mAPT supply are external and arbitrary; since
mAPT mints and burns in the transaction that locks the adapter, `LockAfterMinting` moves
the supply with the lock.

### CapitalCycle
Instantiates both modules above, mAPT's `tvl` and `price` being the adapter's
readings and the adapter's mAPT supply being mAPT's. It adds the LP Account's
operations (any change of balances and positions, then `LpAccountLock`, which is
`_lockOracleAdapter` with its silenced refusal), the Safes' interventions and
Chainlink: `Observe` reads the deployed value in one block, `Submit` reports it in
a later one, so a report may be out of date when it lands. `sinceChange` and
`waived` are history: how long ago the last operation was, and whether the
Emergency Safe has since done without the lock. The composition implements both modules
it is made of: to `MetaPoolToken` the others are its environment, and to `OracleAdapter`
an operation on the capital is a lock, a refused lock or nothing. `Reports`, the answers
`OracleAdapter` is instantiated with, are the prices and the numbers up to what the bounds
of all balances are worth together (`LargestTvl`).

### NamedAddressSet and Directory
A set is stored as a list (`addresses`) and a lookup by name; `Add` and `Remove` are
`_add` and `_remove` with their `require`s. `Directory` is a map from names whose
entries are entered and removed; `Listed` maps the list to it, `ImplementsDirectory`
says that who enumerates the set sees such a map, and `InStep` that who calls by
name sees the same one.

### LpAccount
Three instances of `NamedAddressSet` (zaps, swaps, asset allocations), Erc20Allocation's
token list with its indices, the reward fees, and `held`, the LP Account's balance of each
token. A position in a strategy is such a balance too, of the gauge token or aToken that
stands for it (`Receipt`), or of a stake, which is no ERC20 token (`Staked`). What each zap
and swap says it needs (`AssetAllocations`, `Erc20s`) and what it turns into what (`Coins`,
`Unwinds`, `Rewards`, `SwapFrom`, `SwapTo`) are constants of which nothing but their types
is assumed; how much comes of a trade is any amount.

`DeployStrategy` (all coins of a zap at once) and `Swap` check registrations as
`_checkAllocationRegistrations` and `_checkErc20Registrations` do; `UnwindStrategy` and
`SwapWith3Pool` check none, as in the code. `UnwindStrategy` may also change nothing, as
`StakedAaveZap` may only start a cooldown (`aave/stkAave.sol` 47-74), and it may turn one
position into another, as `ConvexMigrationZap` does (`convex/migration/Zap.sol` 31-45).
`MigrationZaps` are those whose other operations revert. `EmergencyExit` (360-367) empties any
token, positions included, without a lock. `SetRewardFees` takes any rate but 0: above the
whole, a claim takes from what was held before, or reverts when that is too little.
`ReadOf(a, i)` is what TvlManager answers for an id, or nothing where it reverts: a
strategy's allocation counts each coin by the share of the pool that its token is of.
`everListed` is history: what was ever counted.

Which balances the checks cover follows from what the zaps and swaps list: `Accounted`
are the tokens `x` for which there is a set `H` with `x` in it such that every way to
obtain a token of `H` checks that `x` is listed or starts from a token of `H`
(`ListedBefore`). With the contracts as they are, coins of a Curve pool, the gauge tokens
of its zap and rewards listed by every zap that claims them are accounted for. Not so, and
nothing in the code protects them:

* coins bought with `swapWith3Pool` that are not listed;
* rewards their zap does not list, such as CVX (`ConvexZapBase.sol` 78) and stkAAVE;
* the stake of `StakedAaveZap`, which lists AAVE and no allocation (`stkAave.sol` 32-41);
* the stake at Convex where `ConvexMigrationZap` can produce it: it lists nothing
  (64-70) and its unwinding checks nothing, so the Convex allocation may be missing;
* AAVE redeemed by unwinding stkAAVE that an Aave zap claimed as a reward, since the zaps
  of Aave list their own underlyer only (`AaveBasePool.sol` 50-57, 88-98).

Simplified: the LP tokens between a pool and its gauge are held within one call only
(`CurveGaugeZapBase.sol` 52-70), so a position is the gauge token alone; an id is a pair
and not its bytes, every symbol and decimals is right, the lock is a flag (its length is in
`CapitalCycle`), and nobody sends the LP Account tokens unasked. That the worth of a
position moves with its pool is the market's doing, not an operation of the system, and
is left to `CapitalCycle`'s arbitrary readings.

### FluxAggregator
`rounds` and `details` are the two mappings, `oracles` and `requesters` the statuses,
`available` and `allocated` are `recordedFunds`, `link` is what the contract holds. `Submit`
(189-209) is the whole call: it may start the round (`OracleStarts`), which closes the round
before if that timed out (`ClosedRounds`), adds the submission, answers the round, pays the
oracle and deletes the details of a full round; it is not enabled where a `require` or a
subtraction of the funds fails. `Median` takes the middle by counting (`Ranked(votes, k)` is the
vote with fewer than `k` below it and at least `k` not above it), which the library computes by
partitioning; `MCFluxAggregator` compares it with the sorted list's (`MedianAgrees`).
`RequestNewRound`, `ChangeOracles` (an oracle may be removed and added at once),
`UpdateFutureRounds`, `SetRequesterPermissions` and the transfers of LINK are the other
operations. LINK may also arrive by a plain transfer, which is recorded only later. `Tick` is
the clock; it stops where no open round can time out any more, since nothing else reads it. Left
out: bounds on values, the validator, whose failure is caught, and the hand-over of admins.
`PriceFeed` is the aggregator as `latestRoundData` shows it, an answer and the time it bears:
they change together, and the time is then the present one. It says nothing of when the answer
was computed (section 6). `Delayed` bears the source's name though it holds where there is no
delay.

### GovernanceToken, VotingEscrow, Governance
The token keeps balances and what lockers have locked of them until `lockEnd`; the
escrow takes deposits out of the same balances, so that a deposit is subject to the
token's lock (`CanTransfer`). `point` is the last entry of `point_history` and
`userPoint[u]` the last of `user_point_history[u]`, `slopeChanges` the schedule.
`CheckpointUser` is `_checkpoint`: `CaughtUp` carries the total's line week by week to
now, then the difference of the user's lines is added and the schedule corrected
(`SlopeChanges`). `TotalSupply(t)` and `BalanceOf(u, t)` are the views at a time not
before the last point. The loop over weeks is a recursive function that runs
`Weeks` turns, 255 in the code, so it gets to `Reached`, that many weeks after the last
point. How long the escrow lives is not bounded by it; how long it is silent is. The comment in
`_checkpoint` says so ("Hopefully it won't happen that this won't get used in 5 years!
If it does, users will be able to withdraw but vote weight will be broken", 304-305), and
`Checkpointed` states it as what is assumed of the users: time does not pass `Reached`
without a deposit or a call of `checkpoint`. Reads of the total at later times go through a loop
of the same length, so the properties speak of the total up to `Reached` (with the code's
constants 255 weeks after the last checkpoint, the longest lock being of 208) and of each
user's votes, which need no loop, at any later time. Left out: votes at a past
block, which read earlier points, and the smart-wallet check.

### AddressRegistry and AlphaDeployment
A registry is a record of the list and the map; `Registered`, `RegisteredAll` and `Deleted` give
the one after a call, since a deployment step makes several in one transaction. `Captures(n)` is
which roles contract `n`'s constructor takes from which names; `roles[n]` is what it found there
and keeps. Each `Deploy...` action is one `deploy_i` with its modifiers and checks; `CanDeploy`
is what the modifiers ask of a step, and `CanRegisterAllocation` what the Admin Safe needs for
the call at the end of the fourth. The roles are those of the constructors, with which the list
at the head of `AlphaDeployment.sol` (51-60) disagrees: it gives TvlManager the LP Safe where
the code has the Admin Safe and mAPT's contract role is missing from the LP Account's. Had
TvlManager no Admin Safe, step 4 could not register the allocation (the mutant
`CapturesAsDocumented`). In between the registry's owner may register other addresses, delete
names and hand over the registry, as the two have different keys from whoever calls the steps.

## 3. Runs, bounds and what they show

| Run | Instance | Properties |
|---|---|---|
| `pool_token` | 2 symmetric users, decimals unit 2, prices {0, 3, unreadable}, deposits {1, 3}, reserve up to 5, supply up to 12, three seconds | `RoundTripGainsNothing`, `SharePriceNeverFalls`, `ClaimsWithinAssets`, `EarlyUntilTimePasses` |
| `mapt` | 2 pools with units 2 and 1, two price vectors (one with price 0), TVL {0, 7}, percentages {5, 100}, supply up to 10, batches of either or both | `RebalanceIsCovered`, `NeverBurnsOut`, `SharesFollowValue`, `ReserveMeetsTarget`, `DeployedValueWithinTvl` |
| `oracle` | one asset and the TVL, two aggregators, three blocks of 1 or 2 seconds, periods 0 to 2 | `LockOnlyCutKnowingly`, `OverridesAreSubmitted`, `SilenceIsNotReadable` |
| `capital_cycle` | one pool, lock periods {1, 2}, latency 1, three blocks, one submitted TVL | `TvlReadIsActual`, `ImplementsOracleAdapter` (= `OracleAdapter`'s `Spec`) |
| `cycle_refines_mapt` | one pool, two units of underlyer worth 3, reserve percentages {0, 100}, lock period and latency 1 | `ImplementsMetaPoolToken` (= `MetaPoolToken`'s `Spec`), `MAptKeepsItsWorth` |
| `funds_returned` | as `capital_cycle` | `FundsReturnedMeansNoSupply`, which is violated (section 6) |
| `named_set` | six contracts, four names: two contracts share one, one has none | `InStep`, `ImplementsDirectory` |
| `lp_account` | a Curve zap and `ConvexMigrationZap`, a swap, two allocations, six balances of at most 1 (four tokens, a gauge token, a stake), one reward with a fee of a half or of twice the claim, claims of up to 2 | `CapitalIsListed`, `Erc20AllocationStays`, `ReadsChangeUnderLock`, `FeesComeFromClaims` |
| `flux_aggregator` | two oracles, one requester, two rounds, one submitted value, payments {1, 2}, timeouts, delays {0, 1}, up to 4 LINK, three changes by the owner | `PastAnswersStay`, `AnswersNeedOracles`, `Solvent`, `SomeoneMayStart`, `NoRoundSkipped`, `ImplementsPriceFeed` (= `PriceFeed`'s `Spec`), `RoundsEnd` |
| `flux_stale` | as `flux_aggregator` | `UpdatedWhenComputed`, which is violated (section 6) |
| `governance` | two users with 12 and 0 APY, deposits and locks of 6, weeks of 2 seconds, locks of up to two weeks, a loop of two passes, times 1 to 5, one locker, two changes by the owner | `VotesAddUp`, `LocksAreBacked`, `VotesWithinLocks`, `LockedIsHeld`, `ShutdownFreezesVotes` |
| `alpha_deployment` | one demo pool, four changes of the registry or its owner | `RolesFollowDeployment`, `NextStepIsOpen` |

Why the bounds suffice. The arithmetic properties are about rounding: units of 2 and prices of 3
make every division inexact in both directions, and what the instance cannot reach is covered by
the theorems, which hold for all numbers. `cycle_refines_mapt` has such a price too, since what
a withdrawal may cost the pools that stay is exactly that rounding, and percentages 0 and 100,
between which capital goes back and forth. Percentages 5 and 100 in `mapt` are the contract's
initial value and an extreme. Two pools are needed for dilution inside a batch, two users for
gains at another's cost. Three blocks and periods up to 2 give locks that overlap, replace each
other and expire, and overrides that outlive a lock. In `mapt` the other contracts act on one
pool only (`Attended`), so the second changes through batches alone. `MaxUint` is the overflow
bound of SafeMath, set small: operations beyond it revert as in the code. In `named_set` four
names let a removal move an element that is neither first nor last; in `lp_account` one token of
each kind (underlyer of the strategy and the 3pool, 3pool coin only, coin of the strategy only,
reward, position that is a token, position that is not) and amounts 0 and 1 tell listed from
unlisted, and a claim of 2 at a fee of one half meets a balance already held, as a fee of twice
the claim does. The 3pool coin and the stake are the balances that are not accounted for. The
Admin Safe lists only the tokens nobody else does (`Listable`), and sets fees on the reward only
(`FeeTokens`), to keep the run small; the theorems have neither bound, and any number of zaps
with the same reward, of which the run has one. In `flux_aggregator` two oracles are the fewest
of which one can report while the other is late, removed or added again; with two rounds one can
be late, closed or superseded while the other is under way; values are told apart from the 0 of
round 0 only, as no property of the run looks at the median: `MedianAgrees` evaluates it on
every list of up to four values between -2 and 2, and the theorem `AnswersFollowMajority` is
about any. Three changes let an oracle be added, removed and added again. In `governance` the
deposit of 6 over a `MAXTIME` of 4 leaves a remainder in the slope, and the second user gets APY
from the first only; with a loop of two passes, time 5 is one that silence since time 1 would
not reach, so that `Checkpointed` does hold time back there. `alpha_deployment` needs one change
to misdirect a name, one to set it right, and the same for the ownership. `pool_token` runs
without the deadlock check because its clock stops at `MaxTime` and a pool may be paused, empty
and unreadable for good; `flux_aggregator`, `governance` and `alpha_deployment` because rounds,
time, changes and deployment steps run out. The others never stop.

Fairness. `FluxAggregator` alone claims liveness: `RoundsEnd`, that a round which has
begun is answered or times out. Its `Fairness` is weak fairness of each oracle's
submission to the reporting round, because a node polls `oracleRoundState` (665-697),
which sends it to the open round it has not reported to, and of `Tick`, because
blocks are produced. Nothing is assumed of the owner or the requesters, who may
change anything meanwhile. A round may still stay open for good, if it has no
time-out and there is not enough LINK to pay its submissions, too few oracles are
left to report to it, or a requester began it while the maximum of submissions was 0;
these are the states `Stranded` names, in which the code offers no way on.
Elsewhere none is assumed: whether a reserve is topped up or a lock is followed by a
report depends on the Safes' operators and Chainlink's, and the code schedules
neither.

## 4. Theorems

`[]TypeOK` of `PoolToken`, `MetaPoolToken`, `OracleAdapter`, `CapitalCycle`,
`LpAccount`, `FluxAggregator` and `Governance`, for every value of the constants. The
runs check it too, except for `OracleAdapter`, `CapitalCycle` and `LpAccount`. Further:

* `SolidityMathLemmas`: the bounds of integer division, and sums over finite sets. A
  sum is a fold; it is shown to be the one function that is 0 on the empty set and
  grows by an element's term (`SumsExist`, `SumsAreUnique`), so that each lemma (`SumChange`,
  `SumMonotone`, `SumAdd`, `SumOfOnes`, ...) is an induction over the set, itself
  derived from the well-foundedness of strict inclusion (`FiniteSetInduction`). From it
  come also induction over numbers (`NumberInduction`), since the numbers below a bound
  are a finite set, and the greatest and least of finitely many numbers.
* `PoolTokenProofs`: `RoundTripsGainNothing` and `SharePriceIsKept`. Each reduces to
  a statement about four or five natural numbers (`RoundTripBound`, `MintKeepsShare`,
  `RedeemKeepsShare`); type correctness supplies that they are natural numbers.
  `ClaimsAreWithinAssets` needs the invariant that the supply is the sum of the
  balances (`SupplyIsBalances`): then rounded shares of a value add up to no more than it.
  `EarlyIsKept` needs that no deposit is stamped later than now (`StampsArePast`).
* `MetaPoolTokenProofs`: `RebalanceAlwaysCovered`. The excess a fund takes is at most
  the reserve (`ExcessWithinHeld`), and a burn is below the pool's mAPT because the
  top-up is below the deployed value (`TopUpBelowDeployed`, `BurnBelowBalance`): this
  holds in every well-typed state, so `TypeOK` is the whole inductive invariant.
  `SharesAreWithinTvl` rests, as in the pools, on `SupplyIsBalances`.
  `MAptNeverRunsOut` (the burn is strictly below the balance),
  `MintsAndBurnsFollowValue` (which has also that a delta of 0 moves nothing) and
  `ReservesMeetTargets` assume that a batch names
  each pool once, which the code does not check. The last follows the two divisions
  of a top-up, value and then amount, and bounds what they lose together by the unit
  the property allows (`FundTarget`, `WithdrawTarget`).
* `OracleAdapterProofs`: `LocksAreKept`, `OverridesComeFromTheSafe`, and
  `NothingIsReadFromSilence`, which needs the invariant that the stale period is
  always one that was configured (`StalePeriodConfigured`). Which contracts may lock the
  adapter is settled in its deployment, so the module also instantiates `AlphaDeployment`:
  `RolesAreDeployed` shows `RolesFollowDeployment` for any number of demo pools and changes of
  the registry. The invariant `RolesInv` only adds that what was deployed is the deployment's;
  the argument is that a step looks up no name it has not just checked (`StepGivesRoles`).
  `NextStepPasses` is what `NextStepIsOpen` says without ENABLED: that once the registry names
  the deployment and is the Emergency Safe's, every check of the next step passes. It needs
  that whatever an earlier step creates exists and holds its roles (`RightRegistryCreates`),
  above all that TvlManager found the Admin Safe, which step 4 has to register the allocation.
* `CapitalCycleProofs`:
  - `ReadsAreCurrent`. `TvlReadIsActual` is not inductive: the
    invariant `CycleInv` adds that, unless the Emergency Safe waived it, as long as
    the reported or the pending value is not the actual one the lock extends at least
    `Latency - sinceChange` blocks ahead (`LockCoversReport`). Every operation
    re-establishes it by locking for at least `Latency`; each block uses up one from
    both sides. It assumes `PeriodsAssumption` (configured periods are at
    least the latency; the defaults are 270 and 135 blocks) and the environment's
    `NextBlock`, in which Chainlink has caught up once `Latency` blocks have passed.
  - `CycleIsMetaPoolToken`, the refinement. `FundLpAccount` and
    `WithdrawFromLpAccount` are the module's own actions: their lock hides every
    reading afterwards (`LockHidesReadings`), which is what `LockOracle` says. All
    else is a move of `MetaPoolToken`'s environment or a stutter.
  - `CycleIsOracleAdapter`, the other refinement: what is proved of the adapter's locks and
    overrides holds of every operation on the capital. `LpAccountLock`, which goes
    on when a lock is refused, is a `LockFor` or a stutter. The adapter
    takes reports from a given set, so `WithinBounds` is needed: what is deployed, and hence
    what was observed and may still be submitted, never exceeds `LargestTvl` (`TvlWithinBounds`).
  - `WorthIsKept`: `MAptKeepsItsWorth`, if a batch names each pool once. By
    `ReadsAreCurrent` a mint or burn is computed from the true TVL; for each pool the
    value that moves and its share of mAPT are then a rounding apart (`FundedWorth`,
    `PaidWorth`, `UntouchedWorth`), and the pools add up to the TVL and to the
    supply (`WorthAddsUp`). The proof corrected the property: as first stated it left no
    room for the rounding of the value of what stays deployed, and TLC refutes it as
    soon as two units are worth 3.
* `LpAccountProofs`:
  - of the named sets, `ListAndLookupInStep` and `SetIsADirectory`, stated about the
    registry of zaps (`Zaps`). `InStep` is inductive once the list
    is known to have no repetitions, which it says itself; the work is in
    `ExcludeRemoves`, that moving the last element into the gap removes exactly one
    element. In step, the enumerated map is the lookup
    (`ListedIsLookup`), and each step of the set is a step of the directory. In the LP Account,
    `RegistriesInStep` and `ZapsAreADirectory`.
  - `CapitalListed`. `CapitalIsListed` is not inductive: an
    unwinding brings home coins whose registration was checked when the strategy was
    entered. `CapitalInv` says it of the whole set `H` a token is accounted for by: as
    soon as any of `H` is held, `x` has been listed. A trade into `H` is then either
    checked or starts from a token of `H` that is held (`Covered`, `TradeKeepsInv`). That a
    check means listed, whichever contract is registered under the name, needs that list and
    lookup are in step and that all that is counted is in the history (`AllCounted`,
    `CheckedIsListed`). Nothing is assumed of what zaps, swaps and allocations list.
  - `ReadsAreLocked`: an emergency exit changes the reads of one token only, whatever
    allocations count it.
  - `FeesFromClaims`, for any rate: `FeesRegistered` says that only registered rewards
    have a fee, `FeeBounds` what the division loses.
  - `Erc20AllocationIsRegistered`, from `LpInv`.
* `FluxAggregatorProofs`: theorems on invariants of which the first three build on each
  other. `RoundsInv`: nothing is recorded of a round that has not begun, no answer is
  older than its round, and every round before the reporting one has been updated;
  `RoundsFollowEachOther` and `AnswersAreKept` follow. `StartersInv`: the rounds begun
  by different oracles differ, and there are always more enabled oracles than rounds
  they have to wait. If the delay barred them all, each would have begun one of the last
  `restartDelay` rounds, and there are too few of those: `SomeoneCanAlwaysStart`.
  `VotesInv`: a round holds no more submissions than oracles have reported to it, which
  a submission keeps because `lastReportedRound` of its oracle was below the round
  (`SubmissionIsReported`): `AnswersHaveOracles`. `FundsInv`: what is recorded as
  available and allocated is held, and the allocated is what oracles are owed (`OwedChanges`):
  `AlwaysSolvent`. `AnswersFollowMajority`: an answer lies in every interval that holds more
  than half of the submissions to its round, so that a minority cannot move it. That
  there is a vote of each rank is an extremal argument (`RankedVote`: the least vote that
  enough others do not exceed); those that a bound on one side excludes are too few to
  reach the middle (`RankedByMajority`, `MedianOfMajority`). `FluxTypes` needs no more of
  the median than that. `AggregatorIsAPriceFeed`: a step keeps the latest round's answer and
  date, or dates it now (`StartingKeepsOrRefreshes`: a round that starts writes to itself,
  which is not the latest, and to the one before only if that timed out), or answers a
  round, which is then the latest, now. Assumed: finitely many oracles, and
  that time starts above every configurable time-out, as block times do
  (`OraclesAssumption`, `TimesAssumption`).
* `GovernanceProofs`. On `LedgerInv` (balances and locks are numbers, and deposits are
  backed): `DepositsAreBacked`: each operation of the escrow changes one lock, the supply and
  the escrow's balance by the same amount, and no one transfers out of
  the escrow but by `withdraw`. `LockedStaysHeld`: a transfer, a deposit included,
  leaves what the lockers locked (`UnlockedAmount`), and locks are of what is held.
  On `VotesInv`, `VotesAlwaysAddUp` and `ShutdownKeepsVotes`. `VotesAddUp` speaks of the
  views, and is not inductive: what must be kept is that each user's last point is a line
  that is 0 from the end of some lock on, that the total's point is the sum of these
  lines and that the schedule holds, at each whole week, the slopes that end there. Until
  a shutdown the ends are those of the locks; after it, when withdrawals no longer
  touch the lines, they are what they were. `CaughtUp` is then followed week by week
  (`TotalAdvances` for one week, `WeeksReach` for all of them by `NumberInduction`;
  that the passes suffice up to `Reached` is `LoopPasses`), a user's change of line changes total and
  schedule alike (`UserKeepsLines`, `ScheduleChanges`), and the views read at
  any later time what the lines say (`LinesAreRead`). `VotesInv` was found
  true by TLC on the instance of `governance` before it was proved. `GovernanceTypes` follows from both invariants.
  `VotesAreWithinLocks`: read as lines, the votes of a lock are its slope times the time left;
  the slope is rounded down (`LineWithinLock`), and no more than `MAXTIME` is left of any
  lock, which `LocksEnd` keeps (an extension is checked against the same bound as a new
  lock). So a user's votes are within the lock's share of the time left, and all votes within
  all deposits (`SumMonotone`).

Assumptions on constants, besides those named above: the sets of users, pools and
oracles are finite, amounts and periods are numbers, names of contracts and
registries differ from the null values (`NamesAssumption`, `NullAssumption`),
what zaps, swaps and allocations list are tokens and names (`TokensAssumption`) and fees
are positive (`FeesAssumption`). Each stands beside its constant
and TLC evaluates it in the runs. `Checkpointed` is part of `Governance`'s next-state relation:
the users' side of what `VotingEscrow` needs.

Only model-checked: `RoundsEnd` of `FluxAggregator` (liveness under fairness) and
`NextStepIsOpen` of `AlphaDeployment` (which step is ENABLED; that its guards hold is proved),
both out of TLAPS's reach. That `InStep` and
`ImplementsDirectory` hold of `NamedAddressSet` is proved of the instance in the
LP Account.

## 5. Mutants

Each property has a mutant: a definition whose body is replaced by another
operator of the module (marked "Mutant") that a plausible slip would give, such
as a deposit priced by the reserve alone, a delta computed after the previous mint,
a withdrawal without the cap, a lock refusal that does not revert, an LP Account
operation without its lock. TLC finds the property violated under each.

## 6. Findings

`OracleAdapter.sol:35-46` explains why a zero TVL with mAPT outstanding reverts: after all funds
are moved back "total mAPT supply would be zero". As long as batches name each pool once it
never is: a withdrawal is computed to leave each pool with some mAPT (`NeverBurnsOut`, proved),
also when it takes the last token of the LP Account (run `funds_returned`). A zero TVL after
that makes `getTvl`, and with it deposits and redemptions, revert until the Emergency Safe
submits a value.

`FluxAggregator.sol:438-439` says that `updatedAt` is when the "answer was last
computed". A round that the minimum but not the maximum of its oracles answered
remains open to late submissions and can time out; when the next round starts,
`updateTimedOutRoundInfo` (759-768) puts the previous round's answer in place of its own
and sets `updatedAt` to that moment, while it is still the latest round (run
`flux_stale`). Until the next answer `latestRoundData` returns the older value as
fresh, and `OracleAdapter` (372-380) looks at `updatedAt` alone, not at
`answeredInRound`.

## 7. Plan

Done, in this order: pools, mAPT, adapter, their composition and the refinement;
named sets with their abstract specification; the LP Account with its registries;
the aggregator; the token and the escrow; the registry and the deployment.
The theorems of section 4 followed. Next, by importance:

1. Batches with a repeated pool in `MetaPoolToken`, as a run of their own.
2. Votes at a past block in `VotingEscrow`; the hand-over of admins in
   `FluxAggregator`.

Not modelled, and why: the calls inside the protocol adapters (stateless sequences of calls into
third-party contracts; `LpAccount` has what they list and exchange), the earlier versions
replaced through the proxies, the one-off upgrade scripts, `RewardDistributor` (a nonce that is
required and incremented in one transaction, and a signer), access control (a call without the
role reverts), ERC20 token internals, the off-chain scripts and the subgraph.
