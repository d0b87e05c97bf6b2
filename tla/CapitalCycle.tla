---------------------------- MODULE CapitalCycle ----------------------------
(* The capital cycle of the whole system: MetaPoolTokenV2 moves underlyer    *)
(* between the pools and the LP Account, the LP Account turns it into        *)
(* strategy positions and back, Chainlink reports the value of it all, and   *)
(* OracleAdapter keeps everybody from reading that value until the report of *)
(* the last move can have arrived.                                           *)
(*                                                                           *)
(* MetaPoolToken and OracleAdapter are instantiated: mAPT reads its TVL and  *)
(* prices through the adapter, the adapter reads the mAPT supply.  Prices,   *)
(* the adapter's sources and its clock (staleness is OracleAdapter's own     *)
(* matter) stand still here; what varies is the deployed capital and who     *)
(* knows its value.                                                          *)
EXTENDS Integers, FiniteSets, Functions

CONSTANTS
  Pools, Scale, Factor, MaxUint, Batches, MaxUnderlyer, Percentages, Reserves,
  Unreadable,          \* see MetaPoolToken
  Price,               \* Price[p]: what Chainlink says of p's underlyer
  Tvl, NoSource,       \* see OracleAdapter
  LockPeriods,         \* periods the Admin Safe configures
  Overrides,           \* <<Tvl, value, period>> the Emergency Safe submits
  FirstBlock, MaxBlock,
  Latency,             \* blocks Chainlink may take to report a move
  None,                \* no observation on its way
  MaxPosition          \* bound on the value held in strategies

ASSUME LatencyAssumption == Latency \in Nat \ {0}
\* What the operators' choice of periods must ensure: the defaults, 270 and
\* 135 blocks, stand for the time Chainlink needs.
ASSUME PeriodsAssumption == /\ LockPeriods \subseteq Nat
                            /\ \A period \in LockPeriods : period >= Latency
ASSUME NoneAssumption == None \notin Int
ASSUME BlocksAssumption == FirstBlock \in Nat \ {0}
ASSUME PoolsAssumption == /\ IsFiniteSet(Pools)
                          /\ Tvl \notin Pools
                          /\ NoSource \notin Pools \cup {Tvl}
ASSUME PricesAssumption == /\ Scale \in [Pools -> Nat \ {0}]
                           /\ Price \in [Pools -> Nat]
ASSUME AmountsAssumption == /\ Factor \in Nat \ {0} /\ MaxUint \in Nat
                            /\ MaxUnderlyer \in Nat /\ MaxPosition \in Nat
                            /\ Reserves \subseteq 0 .. MaxUnderlyer
                            /\ Percentages \subseteq Nat
                            /\ Batches \subseteq [Pools -> Nat]
ASSUME ReadsAssumption == /\ Unreadable \notin Nat
                          /\ Overrides \subseteq {Tvl} \X Nat \X Nat

VARIABLES
  lockEnd, defaultLockPeriod, chainlinkStalePeriod, source, submitted, answer,
  blockNumber, timestamp,
  mApt, totalSupply, reserve, lpBalance, reservePercentage, registered,
  position,      \* value of the LP Account's strategy tokens
  lpLockPeriod,  \* LpAccountV2.lockPeriod
  pending,       \* the TVL the Chainlink nodes observed and have not submitted
  sinceChange,   \* blocks since the last operation on the deployed capital,
                 \* at most Latency
  waived         \* the Emergency Safe has since done without the lock

Feeds == Pools \cup {Tvl}

ValueOf(p, amount) == (Price[p] * amount) \div Scale[p]

\* The values Chainlink ever reports: prices, and a TVL within the bounds.
LargestTvl == MaxPosition + SumFunction([p \in Pools |-> ValueOf(p, MaxUnderlyer)])
Reports == (0 .. LargestTvl) \cup {Price[p] : p \in Pools}

OA == INSTANCE OracleAdapter
        WITH Assets <- Pools, Aggregators <- Feeds, Answers <- Reports,
             Submissions <- Overrides, Rewirings <- {}, StalePeriods <- {1},
             BlockTimes <- {0}, MaxSupply <- MaxUint,
             mAptSupply <- totalSupply

Readable(f) == IF OA!IsReadable(f) THEN OA!Reading(f) ELSE Unreadable

MA == INSTANCE MetaPoolToken
        WITH TvlReadings <- Nat \cup {Unreadable},
             PriceReadings <- [Pools -> Nat \cup {Unreadable}],
             Balances <- 0 .. MaxUnderlyer, Attended <- Pools, ZeroPeriod <- FALSE,
             tvl <- Readable(Tvl), price <- [p \in Pools |-> Readable(p)],
             paused <- [p \in Pools |-> FALSE]

lockVars == <<lockEnd, defaultLockPeriod>>
chainVars == <<answer, blockNumber, timestamp>>
mAptVars == <<mApt, totalSupply>>
capitalVars == <<reserve, lpBalance, registered, position>>
sourceVars == <<chainlinkStalePeriod, source>>
settingVars == <<sourceVars, submitted, reservePercentage, lpLockPeriod>>
reportVars == <<pending, sinceChange, waived>>
vars == <<lockVars, chainVars, mAptVars, capitalVars, settingVars, reportVars>>

\* TvlManager enumerates the registered tokens and the strategies' tokens;
\* the nodes multiply their balances by their prices.
ActualTvl == position + SumFunction([p \in registered |-> ValueOf(p, lpBalance[p])])

TypeOK ==
  /\ OA!TypeOK
  /\ MA!TypeOK
  /\ position \in Nat
  /\ lpLockPeriod \in LockPeriods /\ defaultLockPeriod \in LockPeriods
  /\ pending \in Nat \cup {None}
  /\ sinceChange \in 0 .. Latency
  /\ waived \in BOOLEAN

Init ==
  /\ lockEnd = 0 /\ defaultLockPeriod \in LockPeriods /\ lpLockPeriod \in LockPeriods
  /\ chainlinkStalePeriod = 1 /\ source = [f \in Feeds |-> f]
  /\ submitted = [f \in Feeds |-> [value |-> 0, periodEnd |-> 0]]
  /\ blockNumber = FirstBlock /\ timestamp = 0
  /\ mApt = [p \in Pools |-> 0] /\ totalSupply = 0
  /\ reserve \in [Pools -> Reserves]
  /\ lpBalance = [p \in Pools |-> 0] /\ registered = {} /\ position = 0
  /\ reservePercentage \in [Pools -> Percentages]
  /\ answer = [f \in Feeds |-> [price |-> IF f = Tvl THEN ActualTvl ELSE Price[f],
                                updatedAt |-> 0]]
  /\ pending = None /\ sinceChange = Latency /\ waived = FALSE

-----------------------------------------------------------------------------
(* Operations on the deployed capital.  Each takes a lock in the same        *)
(* transaction; what Chainlink last reported is from now on out of date.     *)

Changed == sinceChange' = 0 /\ waived' = FALSE /\ UNCHANGED pending

\* Mutant: funding takes no lock.
FundLpAccountUnlocked(b) ==
  /\ MA!FundTokens(b)
  /\ UNCHANGED lockVars
  /\ Changed
  /\ UNCHANGED <<chainVars, position, settingVars>>

FundLpAccount(b) ==
  /\ MA!FundTokens(b)
  /\ OA!Lock
  /\ Changed
  /\ UNCHANGED <<chainVars, position, settingVars>>

WithdrawFromLpAccount(b) ==
  /\ MA!WithdrawTokens(b)
  /\ OA!Lock
  /\ Changed
  /\ UNCHANGED <<chainVars, position, settingVars>>

\* Erc20Allocation.registerErc20Token and removeErc20Token, by the Admin Safe.
RegisterOrRemoveErc20Token(p) ==
  /\ registered' \in {registered \cup {p}, registered \ {p}}
  /\ OA!Lock
  /\ Changed
  /\ UNCHANGED <<chainVars, mAptVars, reserve, lpBalance, position, settingVars>>

\* Mutant: the operation forgets its lock.
LpAccountLockForgotten == UNCHANGED lockVars

\* Mutant: the lock is set whatever was there before.
LpAccountLockAnyway ==
  /\ lockEnd' = blockNumber + lpLockPeriod
  /\ UNCHANGED <<defaultLockPeriod, sourceVars, submitted>>

\* _lockOracleAdapter: lockFor, except that the refusal to shorten a lock is
\* silenced.
LpAccountLock ==
  \/ OA!LockFor(lpLockPeriod)
  \/ /\ blockNumber + lpLockPeriod <= lockEnd
     /\ UNCHANGED lockVars

\* deployStrategy, unwindStrategy, swap, swapWith3Pool and claim: what a
\* strategy or an exchange returns for what it takes is up to the market.
LpAccountOperation ==
  /\ lpBalance' \in [Pools -> 0 .. MaxUnderlyer]
  /\ \A p \in Pools : reserve[p] + lpBalance'[p] <= MaxUnderlyer
  /\ position' \in 0 .. MaxPosition
  /\ LpAccountLock
  /\ Changed
  /\ UNCHANGED <<chainVars, mAptVars, reserve, registered, settingVars>>

-----------------------------------------------------------------------------
(* The Emergency and Admin Safes. *)

\* LpAccountV2.emergencyExit of a pool's underlyer takes no lock.
EmergencyExit(p) ==
  /\ lpBalance' = [lpBalance EXCEPT ![p] = 0]
  /\ sinceChange' = 0 /\ waived' = TRUE
  /\ UNCHANGED <<lockVars, chainVars, mAptVars, reserve, registered, position,
                 settingVars, pending>>

\* Chainlink has reported everything.
CaughtUp == answer[Tvl].price = ActualTvl /\ pending \in {None, ActualTvl}

EmergencyUnlock ==
  /\ OA!EmergencyUnlock
  /\ waived' = (waived \/ ~CaughtUp)
  /\ UNCHANGED <<chainVars, mAptVars, capitalVars, settingVars, pending, sinceChange>>

EmergencySetOrUnsetTvl ==
  /\ \/ \E s \in Overrides : OA!EmergencySetValue(s[1], s[2], s[3])
     \/ OA!EmergencyUnsetValue(Tvl)
  /\ UNCHANGED <<chainVars, mAptVars, capitalVars, sourceVars, reservePercentage, lpLockPeriod,
                 reportVars>>

SetPeriods ==
  /\ \/ /\ \E period \in LockPeriods : OA!SetDefaultLockPeriod(period)
        /\ UNCHANGED lpLockPeriod
     \/ /\ lpLockPeriod' \in LockPeriods
        /\ UNCHANGED lockVars
  /\ UNCHANGED <<chainVars, mAptVars, capitalVars, sourceVars, submitted, reservePercentage,
                 reportVars>>

SetReservePercentage(p) ==
  /\ \E n \in Percentages :
       reservePercentage' = [reservePercentage EXCEPT ![p] = n]
  /\ UNCHANGED <<lockVars, chainVars, mAptVars, capitalVars, sourceVars, submitted, lpLockPeriod,
                 reportVars>>

-----------------------------------------------------------------------------
(* Outside the contracts: the pools' users, Chainlink and the chain.         *)

DepositOrRedeem(p) ==
  /\ reserve' \in {[reserve EXCEPT ![p] = n] : n \in Reserves}
  /\ reserve'[p] + lpBalance[p] <= MaxUnderlyer
  /\ UNCHANGED <<lockVars, chainVars, mAptVars, lpBalance, registered, position,
                 settingVars, reportVars>>

\* The nodes read the balances in one block and their answer lands in another.
Observe ==
  /\ pending = None
  /\ pending' = ActualTvl
  /\ UNCHANGED <<lockVars, chainVars, mAptVars, capitalVars, settingVars,
                 sinceChange, waived>>

Submit ==
  /\ pending # None
  /\ OA!Report(Tvl, pending)
  /\ pending' = None
  /\ waived' = (waived /\ pending # ActualTvl)
  /\ UNCHANGED <<lockVars, mAptVars, capitalVars, settingVars, sinceChange>>

\* Chainlink's latency: it has caught up Latency blocks after an operation.
NextBlock ==
  /\ sinceChange + 1 < Latency \/ CaughtUp
  /\ sinceChange' = IF sinceChange < Latency THEN sinceChange + 1 ELSE Latency
  /\ OA!NextBlock
  /\ UNCHANGED <<lockVars, mAptVars, capitalVars, settingVars, pending, waived>>

Next ==
  \/ \E b \in Batches : FundLpAccount(b) \/ WithdrawFromLpAccount(b)
  \/ \E p \in Pools : \/ RegisterOrRemoveErc20Token(p)
                      \/ EmergencyExit(p)
                      \/ SetReservePercentage(p)
                      \/ DepositOrRedeem(p)
  \/ LpAccountOperation
  \/ EmergencyUnlock \/ EmergencySetOrUnsetTvl \/ SetPeriods
  \/ Observe \/ Submit \/ NextBlock

Spec == Init /\ [][Next]_vars

-----------------------------------------------------------------------------
(* Correctness. *)

\* A TVL that reads succeed with and that comes from Chainlink is the value
\* of what is deployed now: whatever moved it, and however the locks of
\* mAPT, Erc20Allocation and LpAccount overlap, replace or fail to extend one
\* another, the lock outlasts the report.  Except where the Emergency Safe
\* took over: a manual value, emergencyUnlock, emergencyExit.
TvlReadIsActual ==
  OA!IsReadable(Tvl) /\ ~OA!HasOverride(Tvl) /\ ~waived => OA!Reading(Tvl) = ActualTvl

\* At the true value of the deployed capital, no mint or burn costs the
\* holders of mAPT more than one unit's worth and one unit of value for each
\* pool that is paid out, what rounding the burn and the value of what is left
\* may take: entering and leaving never takes from the pools that stay.
MAptKeepsItsWorth ==
  [][mApt' # mApt /\ totalSupply > 0 /\ ~OA!HasOverride(Tvl) /\ ~waived =>
       LET paid == Cardinality({p \in Pools : mApt'[p] < mApt[p]})
       IN  ActualTvl' * totalSupply + paid * (ActualTvl + totalSupply)
             >= ActualTvl * totalSupply']_vars

\* The cycle is one of the behaviours MetaPoolToken was checked under.
ImplementsMetaPoolToken == MA!Spec

\* And of those OracleAdapter was checked under: whatever several contracts do
\* in one transaction, the adapter sees a call or a move of its environment.
ImplementsOracleAdapter == OA!Spec

\* OracleAdapter's documentation: when "all funds are unwound and moved back
\* to the liquidity pools [...] total mAPT supply would be zero": the
\* withdrawal that empties the LP Account burns the last mAPT.
FundsReturnedMeansNoSupply ==
  [][/\ totalSupply' < totalSupply
     /\ position = 0
     /\ \A p \in Pools : lpBalance'[p] = 0
     => totalSupply' = 0]_vars
=============================================================================
