------------------------------ MODULE PoolToken ------------------------------
(* PoolTokenV3: one reserve pool and its APT token.  Users deposit underlyer *)
(* for APT and redeem APT for underlyer; both sides are priced by the value  *)
(* of the pool, which is its reserve plus the value mAPT says is deployed.   *)
(* The mAPT contract and the oracle are the readings `deployed' and `price', *)
(* either of which may be unreadable or change between two calls.            *)
EXTENDS SolidityMath, FiniteSets, Functions

CONSTANTS
  Users,
  Unit,            \* 10 ** underlyer.decimals()
  Factor,          \* DEFAULT_APT_TO_UNDERLYER_FACTOR
  WithdrawFeeDenominator, ArbFeeDenominator,
  MaxUint,         \* the largest uint256: SafeMath reverts above it
  Unreadable,      \* a read that reverts
  PriceReadings, DeployedReadings,
  Deposits, Moves, \* bounds: underlyer amounts deposited, and moved by mAPT
  MaxReserve,      \* bound: underlyer in the pool
  WithdrawFees, ArbFees, FeePeriods,  \* values the Admin Safe sets
  StartTime, MaxTime  \* bounds: block.timestamp at the start and at the end

ASSUME UsersAssumption == IsFiniteSet(Users)
ASSUME UnitAssumption == Unit \in Nat \ {0}
ASSUME FactorAssumption == Factor \in Nat \ {0}
ASSUME DenominatorsAssumption == /\ WithdrawFeeDenominator \in Nat \ {0}
                                 /\ ArbFeeDenominator \in Nat \ {0}
ASSUME ReadingsAssumption == /\ Unreadable \notin Nat
                             /\ PriceReadings \subseteq Nat \cup {Unreadable}
                             /\ DeployedReadings \subseteq Nat \cup {Unreadable}
ASSUME AmountsAssumption == /\ Deposits \subseteq Nat /\ Moves \subseteq Nat
                            /\ MaxReserve \in Nat /\ MaxUint \in Nat
ASSUME FeesAssumption == /\ WithdrawFees \subseteq Nat /\ ArbFees \subseteq Nat
                         /\ FeePeriods \subseteq Nat
ASSUME TimeAssumption == StartTime \in Nat /\ MaxTime \in Nat

VARIABLES
  balanceOf,          \* APT of each user
  totalSupply,        \* of APT
  reserve,            \* underlyer.balanceOf(pool)
  lastDepositTime, timestamp,
  withdrawFee, arbitrageFee, arbitrageFeePeriod,
  addLiquidityLock, redeemLock, paused,
  price, deployed     \* getUnderlyerPrice, mApt.getDeployedValue(pool)

aptVars == <<balanceOf, totalSupply>>
timeVars == <<lastDepositTime, timestamp>>
feeVars == <<withdrawFee, arbitrageFee, arbitrageFeePeriod>>
lockVars == <<addLiquidityLock, redeemLock, paused>>
readings == <<price, deployed>>
vars == <<aptVars, reserve, timeVars, feeVars, lockVars, readings>>

TypeOK ==
  /\ balanceOf \in [Users -> Nat]
  /\ totalSupply \in Nat
  /\ reserve \in Nat
  /\ lastDepositTime \in [Users -> Nat]
  /\ timestamp \in Nat
  /\ withdrawFee \in Nat /\ arbitrageFee \in Nat /\ arbitrageFeePeriod \in Nat
  /\ addLiquidityLock \in BOOLEAN /\ redeemLock \in BOOLEAN /\ paused \in BOOLEAN
  /\ price \in Nat \cup {Unreadable}
  /\ deployed \in Nat \cup {Unreadable}

Init ==
  /\ balanceOf = [u \in Users |-> 0]
  /\ totalSupply = 0
  /\ reserve = 0
  /\ lastDepositTime = [u \in Users |-> 0]
  /\ timestamp = StartTime
  /\ withdrawFee \in WithdrawFees
  /\ arbitrageFee \in ArbFees
  /\ arbitrageFeePeriod \in FeePeriods
  /\ addLiquidityLock = FALSE /\ redeemLock = FALSE /\ paused = FALSE
  /\ price \in PriceReadings
  /\ deployed = 0

-----------------------------------------------------------------------------
(* The values the contract computes. *)

\* getValueFromUnderlyerAmount: reads no price for an amount of 0.
ValueFromUnderlyerAmount(amount) ==
  IF amount = 0 THEN 0 ELSE (price * amount) \div Unit

\* getPoolTotalValue, when the pool holds `held'.
TotalValue(held) == ValueFromUnderlyerAmount(held) + deployed
PoolTotalValue == TotalValue(reserve)

\* getPoolTotalValue reverts unless what it reads is readable.
CanValuePool == deployed # Unreadable /\ (reserve = 0 \/ price # Unreadable)

\* Mutant: prices a deposit by the reserve alone.
MintAmountByReserve(value) ==
  LET held == ValueFromUnderlyerAmount(reserve)
  IN  IF held = 0 \/ totalSupply = 0 THEN value * Factor
      ELSE (value * totalSupply) \div held

\* Mutant: rounds in favour of the depositor.
MintAmountRoundedUp(value) ==
  IF PoolTotalValue = 0 \/ totalSupply = 0 THEN value * Factor
  ELSE (value * totalSupply + PoolTotalValue - 1) \div PoolTotalValue

\* _calculateMintAmount: the same share of the supply as of the value.
MintAmount(value) ==
  IF PoolTotalValue = 0 \/ totalSupply = 0 THEN value * Factor
  ELSE (value * totalSupply) \div PoolTotalValue

\* Mutant: burns first, so it divides by the supply that is left.
UnderlyerAmountOfRest(apt, total, supply) ==
  IF apt >= supply THEN (total * Unit) \div price
  ELSE ((apt * total * Unit) \div (supply - apt)) \div price

\* getUnderlyerAmount: APT to underlyer, at a total value and supply.
UnderlyerAmount(apt, total, supply) ==
  ((apt * total * Unit) \div supply) \div price

\* isEarlyRedeem, for the caller.
IsEarlyRedeem(u) == timestamp - lastDepositTime[u] < arbitrageFeePeriod

\* getUnderlyerAmountWithFee: both fees are fractions of the whole amount.
WithdrawFeeAmount(amount) == (amount * withdrawFee) \div WithdrawFeeDenominator
ArbFeeAmount(u, amount) ==
  IF IsEarlyRedeem(u) THEN (amount * arbitrageFee) \div ArbFeeDenominator ELSE 0
AmountWithFee(u, amount) ==
  amount - WithdrawFeeAmount(amount) - ArbFeeAmount(u, amount)

-----------------------------------------------------------------------------
(* The users' operations. *)

\* Mutant: stamps only a user's first deposit.
DepositStampOnce(u) ==
  lastDepositTime' = [lastDepositTime EXCEPT ![u] = IF @ = 0 THEN timestamp ELSE @]

\* The waiting period restarts on each deposit.
DepositStamp(u) == lastDepositTime' = [lastDepositTime EXCEPT ![u] = timestamp]

\* addLiquidity, for an amount the user owns and has approved.
AddLiquidity(u, amount) ==
  /\ ~paused /\ ~addLiquidityLock
  /\ amount > 0
  /\ reserve + amount <= MaxReserve
  /\ CanValuePool /\ price # Unreadable
  /\ LET minted == MintAmount(ValueFromUnderlyerAmount(amount))
     IN  /\ totalSupply + minted <= MaxUint
         /\ balanceOf' = [balanceOf EXCEPT ![u] = @ + minted]
         /\ totalSupply' = totalSupply + minted
  /\ reserve' = reserve + amount
  /\ DepositStamp(u)
  /\ UNCHANGED <<timestamp, feeVars, lockVars, readings>>

\* redeem: refused when the price is 0, when the fees exceed the amount, and
\* when the reserve does not hold it.
Redeem(u, apt) ==
  /\ ~paused /\ ~redeemLock
  /\ apt > 0 /\ apt <= balanceOf[u] /\ apt <= totalSupply
  /\ CanValuePool /\ price # Unreadable /\ price > 0
  /\ LET amount == UnderlyerAmount(apt, PoolTotalValue, totalSupply)
         paid   == AmountWithFee(u, amount)
     IN  /\ paid >= 0
         /\ paid <= reserve
         /\ reserve' = reserve - paid
  /\ balanceOf' = [balanceOf EXCEPT ![u] = @ - apt]
  /\ totalSupply' = totalSupply - apt
  /\ UNCHANGED <<timeVars, feeVars, lockVars, readings>>

-----------------------------------------------------------------------------
(* mAPT's transfers, the Safes' operations and the world outside. *)

\* Mutant: does not rely on the token to refuse.
TransferToLpAccountUnbacked(amount) ==
  /\ ~paused
  /\ reserve' = reserve - amount
  /\ UNCHANGED <<aptVars, timeVars, feeVars, lockVars, readings>>

\* transferToLpAccount, called by mAPT.
TransferToLpAccount(amount) ==
  /\ ~paused
  /\ amount <= reserve
  /\ reserve' = reserve - amount
  /\ UNCHANGED <<aptVars, timeVars, feeVars, lockVars, readings>>

\* LpAccount.transferToPool: an ERC20 transfer the pool does not see.
ReceiveFromLpAccount(amount) ==
  /\ reserve + amount <= MaxReserve
  /\ reserve' = reserve + amount
  /\ UNCHANGED <<aptVars, timeVars, feeVars, lockVars, readings>>

\* emergencyExit of the underlyer: paused or not, everything to the Safe.
EmergencyExit ==
  /\ reserve' = 0
  /\ UNCHANGED <<aptVars, timeVars, feeVars, lockVars, readings>>

SetArbitrageFee ==
  /\ arbitrageFee' \in ArbFees /\ arbitrageFeePeriod' \in FeePeriods
  /\ UNCHANGED <<aptVars, reserve, timeVars, withdrawFee, lockVars, readings>>

SetWithdrawFee ==
  /\ withdrawFee' \in WithdrawFees
  /\ UNCHANGED <<aptVars, reserve, timeVars, arbitrageFee, arbitrageFeePeriod,
                 lockVars, readings>>

EmergencyLock == ~paused /\ paused' = TRUE /\ UNCHANGED <<addLiquidityLock, redeemLock>>
EmergencyUnlock == paused /\ paused' = FALSE /\ UNCHANGED <<addLiquidityLock, redeemLock>>
EmergencyLockAddLiquidity ==
  addLiquidityLock' = TRUE /\ UNCHANGED <<redeemLock, paused>>
EmergencyUnlockAddLiquidity ==
  addLiquidityLock' = FALSE /\ UNCHANGED <<redeemLock, paused>>
EmergencyLockRedeem == redeemLock' = TRUE /\ UNCHANGED <<addLiquidityLock, paused>>
EmergencyUnlockRedeem == redeemLock' = FALSE /\ UNCHANGED <<addLiquidityLock, paused>>

EmergencyLocks ==
  /\ \/ EmergencyLock \/ EmergencyUnlock
     \/ EmergencyLockAddLiquidity \/ EmergencyUnlockAddLiquidity
     \/ EmergencyLockRedeem \/ EmergencyUnlockRedeem
  /\ UNCHANGED <<aptVars, reserve, timeVars, feeVars, readings>>

ReadingsMove ==
  /\ price' \in PriceReadings /\ deployed' \in DeployedReadings
  /\ UNCHANGED <<aptVars, reserve, timeVars, feeVars, lockVars>>

Tick ==
  /\ timestamp < MaxTime
  /\ timestamp' = timestamp + 1
  /\ UNCHANGED <<aptVars, reserve, lastDepositTime, feeVars, lockVars, readings>>

Next ==
  \/ \E u \in Users : \/ \E amount \in Deposits : AddLiquidity(u, amount)
                      \/ \E apt \in 1 .. balanceOf[u] : Redeem(u, apt)
  \/ \E amount \in Moves : TransferToLpAccount(amount) \/ ReceiveFromLpAccount(amount)
  \/ EmergencyExit
  \/ SetArbitrageFee
  \/ SetWithdrawFee
  \/ EmergencyLocks
  \/ ReadingsMove
  \/ Tick

Spec == Init /\ [][Next]_vars

-----------------------------------------------------------------------------
(* Correctness. *)

\* No deposit or redemption takes value from the APT of the others: at
\* unchanged readings the value of one APT does not fall, except for the one
\* unit of value (10^-18 USD) that rounding the reserve's value may cost.
SharePriceNeverFalls ==
  [][totalSupply' # totalSupply /\ totalSupply > 0 /\ PoolTotalValue > 0 =>
       (TotalValue(reserve') + 1) * totalSupply >= PoolTotalValue * totalSupply']_vars

\* Depositing and redeeming what was minted, with no fee, between two moves
\* of the readings gains at most one unit of value.
RoundTripGainsNothing ==
  CanValuePool /\ price \notin {Unreadable, 0} /\ totalSupply > 0 /\ PoolTotalValue > 0 =>
    \A amount \in Deposits \ {0} :
      LET minted == MintAmount(ValueFromUnderlyerAmount(amount))
          back   == UnderlyerAmount(minted, TotalValue(reserve + amount),
                                    totalSupply + minted)
      IN  minted > 0 => (back - amount) * price <= Unit

\* If everyone redeemed at once, what they are owed is no more than what the
\* pool holds and has deployed.
ClaimsWithinAssets ==
  CanValuePool /\ price \notin {Unreadable, 0} /\ totalSupply > 0 =>
    price * SumFunction([u \in Users |->
               UnderlyerAmount(balanceOf[u], PoolTotalValue, totalSupply)])
      <= PoolTotalValue * Unit

\* A deposit of any size puts all of the depositor's APT under the arbitrage
\* fee, and only time or the Admin Safe ends that.
EarlyUntilTimePasses ==
  [][\A u \in Users :
       /\ balanceOf'[u] > balanceOf[u] /\ arbitrageFeePeriod > 0 => IsEarlyRedeem(u)'
       /\ IsEarlyRedeem(u) /\ ~IsEarlyRedeem(u)' =>
            timestamp' > timestamp \/ arbitrageFeePeriod' < arbitrageFeePeriod]_vars
=============================================================================
