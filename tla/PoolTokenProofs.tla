--------------------------- MODULE PoolTokenProofs ---------------------------
(* Theorems about PoolToken for any number of users, any decimals, readings, *)
(* fees and amounts.                                                         *)
EXTENDS PoolToken, SolidityMathLemmas

-----------------------------------------------------------------------------
(* Numbers. *)

\* A deposit worth v mints m APT: the total value grows at least in the
\* proportion in which the supply does.
LEMMA MintKeepsShare ==
  ASSUME NEW total \in Nat \ {0}, NEW supply \in Nat, NEW value \in Nat,
         NEW after \in Nat, total + value <= after
  PROVE  LET m == (value * supply) \div total
         IN  total * (supply + m) <= after * supply
<1> DEFINE m == (value * supply) \div total
<1>1. m \in Nat /\ m * total <= value * supply
  BY ProductType, DivBounds
<1>2. (total + value) * supply <= after * supply
  BY ProductMonotone, SMT
<1> HIDE DEF m
<1>3. total * (supply + m) = total * supply + m * total
  BY <1>1, SMT
<1>4. (total + value) * supply = total * supply + value * supply
  BY SMT
<1>5. /\ total * supply \in Nat /\ m * total \in Nat /\ value * supply \in Nat
      /\ after * supply \in Nat
  BY <1>1, ProductType
<1>6. total * (supply + m) <= after * supply
  BY <1>1, <1>2, <1>3, <1>4, <1>5, SMT
<1> QED BY <1>6 DEF m

\* Paying out for `apt' takes from the reserve's value no more than apt's
\* share of the total, up to one unit.
LEMMA RedeemKeepsShare ==
  ASSUME NEW unit \in Nat \ {0}, NEW pr \in Nat \ {0}, NEW supply \in Nat \ {0},
         NEW apt \in Nat, NEW total \in Nat, NEW held \in Nat, NEW paid \in Nat,
         paid <= held,
         paid <= ((apt * total * unit) \div supply) \div pr
  PROVE  (total + (pr * (held - paid)) \div unit - (pr * held) \div unit + 1) * supply
           >= total * (supply - apt)
<1> DEFINE n  == (apt * total * unit) \div supply
           u  == n \div pr
           h  == (pr * held) \div unit
           h2 == (pr * (held - paid)) \div unit
           k  == h - h2 - 1
<1>1. apt * total \in Nat /\ apt * total * unit \in Nat
  BY ProductType
<1>2. n \in Nat /\ n * supply <= apt * total * unit
  BY <1>1, DivBounds
<1>3. u \in Nat /\ u * pr <= n
  BY <1>2, DivBounds
<1>4. paid * pr <= n
  <2>1. paid * pr <= u * pr
    BY <1>3, ProductMonotone
  <2>2. paid * pr \in Nat /\ u * pr \in Nat
    BY <1>3, ProductType
  <2> HIDE DEF n, u
  <2> QED BY <1>2, <1>3, <2>1, <2>2, SMT
<1>5. /\ pr * held \in Nat /\ pr * (held - paid) \in Nat
      /\ pr * (held - paid) = pr * held - paid * pr
  <2>1. held - paid \in Nat
    BY SMT
  <2> QED BY <2>1, ProductType, SMT
<1>6. /\ h \in Nat /\ h * unit <= pr * held
      /\ h2 \in Nat /\ pr * (held - paid) < (h2 + 1) * unit
  BY <1>5, DivBounds
<1>7. k * unit < n
  <2>1. k * unit = h * unit - (h2 + 1) * unit
    <3> HIDE DEF h, h2
    <3> QED BY <1>6, SMT
  <2>2. h * unit \in Nat /\ (h2 + 1) * unit \in Nat /\ paid * pr \in Nat
    BY <1>6, ProductType, SMT
  <2> HIDE DEF h, h2, n, k
  <2> QED BY <1>2, <1>4, <1>5, <1>6, <2>1, <2>2, SMT
<1>8. k * supply < apt * total
  <2>0. k \in Int
    BY <1>6, SMT
  <2> HIDE DEF k, n
  <2>1. (k * unit) * supply < n * supply
    BY <1>2, <1>7, <2>0, ProductStrict, SMT
  <2>2. (k * supply) * unit < (apt * total) * unit
    <3>1. (k * unit) * supply = (k * supply) * unit
      BY <2>0, SMT
    <3>2. (k * unit) * supply \in Int /\ n * supply \in Nat
      BY <1>2, <2>0, ProductType, SMT
    <3> QED BY <1>1, <1>2, <2>1, <3>1, <3>2, SMT
  <2>3. k * supply \in Int
    BY <2>0, SMT
  <2> QED BY <1>1, <2>2, <2>3, CancelStrict
<1>9. total * (supply - apt) < (total - k) * supply
  <2>0. k \in Int
    BY <1>6, SMT
  <2> HIDE DEF k
  <2>1. total * (supply - apt) = total * supply - apt * total
    BY SMT
  <2>2. (total - k) * supply = total * supply - k * supply
    BY <2>0, SMT
  <2>3. total * supply \in Nat /\ k * supply \in Int
    BY <2>0, ProductType, SMT
  <2> QED BY <1>1, <1>8, <2>1, <2>2, <2>3, SMT
<1>10. total - k = total + h2 - h + 1
  <2> HIDE DEF h, h2
  <2> QED BY <1>6, SMT
<1>11. total * (supply - apt) \in Int /\ (total - k) * supply \in Int
  <2>0. k \in Int
    BY <1>6, SMT
  <2> HIDE DEF k
  <2> QED BY <2>0, SMT
<1>12. total * (supply - apt) <= (total + h2 - h + 1) * supply
  <2> HIDE DEF k, h, h2
  <2> QED BY <1>9, <1>10, <1>11, SMT
<1> QED BY <1>12 DEF h, h2

\* What a mint is worth once it and its deposit are in the pool: at most one
\* unit more than the deposit.
LEMMA MintWorth ==
  ASSUME NEW total \in Nat \ {0}, NEW supply \in Nat, NEW value \in Nat,
         NEW after \in Nat, after <= total + value + 1
  PROVE  LET m == (value * supply) \div total
         IN  m * after <= (value + 1) * (supply + m)
<1> DEFINE m == (value * supply) \div total
<1>1. m \in Nat /\ m * total <= value * supply
  BY ProductType, DivBounds
<1> HIDE DEF m
<1>2. m * after <= m * (total + value + 1)
  <2>1. after * m <= (total + value + 1) * m
    BY <1>1, ProductMonotone, SMT
  <2>2. after * m = m * after /\ (total + value + 1) * m = m * (total + value + 1)
    BY <1>1, SMT
  <2> QED BY <2>1, <2>2
<1>3. m * (total + value + 1) = m * total + m * value + m
  BY <1>1, SMT
<1>4. (value + 1) * (supply + m) = value * supply + value * m + supply + m
  BY <1>1, SMT
<1>5. /\ m * value = value * m /\ m * value \in Nat /\ m * total \in Nat
      /\ value * supply \in Nat /\ m * after \in Nat
      /\ m * (total + value + 1) \in Nat
  BY <1>1, ProductType, SMT
<1>6. m * after <= (value + 1) * (supply + m)
  BY <1>1, <1>2, <1>3, <1>4, <1>5, SMT
<1> QED BY <1>6 DEF m

\* Redeeming that mint returns at most one unit of value more than went in.
LEMMA RoundTripBound ==
  ASSUME NEW unit \in Nat \ {0}, NEW pr \in Nat \ {0},
         NEW supply \in Nat, NEW m \in Nat, supply + m > 0,
         NEW value \in Nat, NEW after \in Nat, NEW amount \in Nat,
         m * after <= (value + 1) * (supply + m),
         value * unit <= amount * pr
  PROVE  ((((m * after * unit) \div (supply + m)) \div pr) - amount) * pr <= unit
<1> DEFINE s == supply + m
           n == (m * after * unit) \div s
           u == n \div pr
<1>1. s \in Nat \ {0} /\ m * after \in Nat /\ m * after * unit \in Nat
  BY ProductType, SMT
<1>2. n \in Nat /\ n * s <= m * after * unit
  BY <1>1, DivBounds
<1>3. u \in Nat /\ u * pr <= n
  BY <1>2, DivBounds
<1>4. n <= (value + 1) * unit
  <2>1. (m * after) * unit <= ((value + 1) * s) * unit
    BY <1>1, ProductMonotone, ProductType, SMT
  <2>2. ((value + 1) * s) * unit = ((value + 1) * unit) * s
    <3> HIDE DEF s
    <3> QED BY <1>1, SMT
  <2>3. /\ (value + 1) * unit \in Nat /\ ((value + 1) * unit) * s \in Nat
        /\ n * s \in Nat
    <3> HIDE DEF s, n
    <3> QED BY <1>1, <1>2, ProductType, SMT
  <2>4. n * s <= ((value + 1) * unit) * s
    <3> HIDE DEF s, n
    <3> QED BY <1>1, <1>2, <2>1, <2>2, <2>3, SMT
  <2> HIDE DEF s, n
  <2> QED BY <1>1, <1>2, <2>3, <2>4, Cancel
<1>5. (u - amount) * pr <= unit
  <2> HIDE DEF n, u
  <2>1. (u - amount) * pr = u * pr - amount * pr
    BY <1>3, SMT
  <2>2. (value + 1) * unit = value * unit + unit
    BY SMT
  <2>3. /\ u * pr \in Nat /\ amount * pr \in Nat /\ value * unit \in Nat
    BY <1>3, ProductType, SMT
  <2> QED BY <1>2, <1>3, <1>4, <2>1, <2>2, <2>3, SMT
<1> QED BY <1>5

-----------------------------------------------------------------------------
(* The pool. *)

\* At a readable price, every value is a natural number, an amount of 0
\* included, and total value follows the reserve.
LEMMA ValuesType ==
  ASSUME price \in Nat, deployed \in Nat, NEW amount \in Nat
  PROVE  /\ ValueFromUnderlyerAmount(amount) = (price * amount) \div Unit
         /\ ValueFromUnderlyerAmount(amount) \in Nat
         /\ TotalValue(amount) = (price * amount) \div Unit + deployed
         /\ TotalValue(amount) \in Nat
<1>1. Unit \in Nat \ {0}
  BY UnitAssumption
<1>2. (price * amount) \div Unit \in Nat
  BY <1>1, ProductType, DivBounds
<1>3. ValueFromUnderlyerAmount(amount) = (price * amount) \div Unit
  <2>1. CASE amount = 0
    <3>1. price * amount = 0 /\ 0 \div Unit = 0
      BY <1>1, <2>1, SMT
    <3> QED BY <2>1, <3>1 DEF ValueFromUnderlyerAmount
  <2>2. CASE amount # 0
    BY <2>2 DEF ValueFromUnderlyerAmount
  <2> QED BY <2>1, <2>2
<1> QED BY <1>2, <1>3, SMT DEF TotalValue

\* A pool that can be valued is valued in natural numbers.
LEMMA PoolValueType ==
  ASSUME TypeOK, CanValuePool
  PROVE  PoolTotalValue \in Nat
<1>1. Unit \in Nat \ {0} /\ reserve \in Nat /\ deployed \in Nat
      /\ (reserve = 0 \/ price \in Nat)
  BY UnitAssumption DEF TypeOK, CanValuePool
<1>2. CASE reserve = 0
  BY <1>1, <1>2, SMT DEF PoolTotalValue, TotalValue, ValueFromUnderlyerAmount
<1>3. CASE price \in Nat
  BY <1>1, <1>3, ValuesType DEF PoolTotalValue
<1> QED BY <1>1, <1>2, <1>3

LEMMA MintAmountType ==
  ASSUME TypeOK, CanValuePool, NEW value \in Nat
  PROVE  MintAmount(value) \in Nat
<1>1. PoolTotalValue \in Nat /\ totalSupply \in Nat /\ Factor \in Nat
  BY PoolValueType, FactorAssumption DEF TypeOK
<1> QED BY <1>1, ProductType, DivBounds DEF MintAmount

\* A redemption pays at most the amount before fees.
LEMMA PaidBound ==
  ASSUME TypeOK, NEW u \in Users, NEW amount \in Nat
  PROVE  /\ AmountWithFee(u, amount) \in Int
         /\ AmountWithFee(u, amount) <= amount
<1>1. /\ withdrawFee \in Nat /\ arbitrageFee \in Nat
      /\ WithdrawFeeDenominator \in Nat \ {0} /\ ArbFeeDenominator \in Nat \ {0}
  BY DenominatorsAssumption DEF TypeOK
<1>2. WithdrawFeeAmount(amount) \in Nat
  BY <1>1, ProductType, DivBounds DEF WithdrawFeeAmount
<1>3. ArbFeeAmount(u, amount) \in Nat
  BY <1>1, ProductType, DivBounds DEF ArbFeeAmount
<1> QED BY <1>2, <1>3, SMT DEF AmountWithFee

\* The values around a deposit: the reserve's value is additive up to one unit.
LEMMA DepositValues ==
  ASSUME TypeOK, CanValuePool, price \in Nat, NEW amount \in Nat
  PROVE  LET value == ValueFromUnderlyerAmount(amount)
         IN  /\ value \in Nat /\ value * Unit <= amount * price
             /\ TotalValue(reserve + amount) \in Nat
             /\ PoolTotalValue + value <= TotalValue(reserve + amount)
             /\ TotalValue(reserve + amount) <= PoolTotalValue + value + 1
<1> DEFINE value == ValueFromUnderlyerAmount(amount)
           a == price * reserve
           b == price * amount
<1>1. /\ Unit \in Nat \ {0} /\ reserve \in Nat /\ deployed \in Nat
      /\ reserve + amount \in Nat
  BY UnitAssumption, SMT DEF TypeOK, CanValuePool
<1>2. a \in Nat /\ b \in Nat /\ price * (reserve + amount) = a + b
  BY <1>1, ProductType, SMT
<1>3. /\ value = b \div Unit /\ value \in Nat
      /\ PoolTotalValue = a \div Unit + deployed
      /\ TotalValue(reserve + amount) = (a + b) \div Unit + deployed
      /\ TotalValue(reserve + amount) \in Nat
  BY <1>1, <1>2, ValuesType DEF PoolTotalValue
<1>4. value * Unit <= amount * price
  <2>1. b = amount * price
    BY SMT
  <2> HIDE DEF b
  <2> QED BY <1>1, <1>2, <1>3, <2>1, DivBounds
<1>5. /\ (a \div Unit) + (b \div Unit) <= (a + b) \div Unit
      /\ (a + b) \div Unit <= (a \div Unit) + (b \div Unit) + 1
      /\ a \div Unit \in Nat /\ b \div Unit \in Nat /\ (a + b) \div Unit \in Nat
  <2>1. a + b \in Nat
    BY <1>2, SMT
  <2> HIDE DEF a, b
  <2> QED BY <1>1, <1>2, <2>1, DivOfSum, DivBounds
<1>6. /\ PoolTotalValue + value <= TotalValue(reserve + amount)
      /\ TotalValue(reserve + amount) <= PoolTotalValue + value + 1
  <2> HIDE DEF a, b, value
  <2> QED BY <1>1, <1>3, <1>5, SMT
<1> QED BY <1>3, <1>4, <1>6

-----------------------------------------------------------------------------
(* Theorems. *)

\* Each user operation keeps the types.
LEMMA TypeUsers ==
  ASSUME TypeOK, NEW u \in Users,
         \/ \E amount \in Deposits : AddLiquidity(u, amount)
         \/ \E apt \in 1 .. balanceOf[u] : Redeem(u, apt)
  PROVE  TypeOK'
<1>0. balanceOf[u] \in Nat /\ totalSupply \in Nat /\ reserve \in Nat
  BY DEF TypeOK
<1>1. ASSUME NEW amount \in Deposits, AddLiquidity(u, amount) PROVE TypeOK'
  <2>1. /\ amount \in Nat /\ CanValuePool /\ price \in Nat
    BY <1>1, AmountsAssumption DEF AddLiquidity, TypeOK
  <2> DEFINE minted == MintAmount(ValueFromUnderlyerAmount(amount))
  <2>2. minted \in Nat
    BY <2>1, DepositValues, MintAmountType
  <2>3. /\ balanceOf' = [balanceOf EXCEPT ![u] = @ + minted]
        /\ totalSupply' = totalSupply + minted
        /\ reserve' = reserve + amount
    BY <1>1 DEF AddLiquidity
  <2>4. balanceOf' \in [Users -> Nat] /\ totalSupply' \in Nat /\ reserve' \in Nat
    <3> HIDE DEF minted
    <3> QED BY <1>0, <2>1, <2>2, <2>3, SMT DEF TypeOK
  <2>5. lastDepositTime' \in [Users -> Nat] /\ timestamp' \in Nat
    BY <1>1 DEF AddLiquidity, DepositStamp, TypeOK
  <2> QED BY <1>1, <2>4, <2>5 DEF AddLiquidity, feeVars, lockVars, readings, TypeOK
<1>2. ASSUME NEW apt \in 1 .. balanceOf[u], Redeem(u, apt) PROVE TypeOK'
  <2> DEFINE amount == UnderlyerAmount(apt, PoolTotalValue, totalSupply)
             paid   == AmountWithFee(u, amount)
  <2>1. /\ apt \in Nat /\ apt > 0 /\ apt <= balanceOf[u] /\ apt <= totalSupply
        /\ CanValuePool /\ price \in Nat \ {0} /\ paid >= 0 /\ paid <= reserve
        /\ reserve' = reserve - paid
        /\ balanceOf' = [balanceOf EXCEPT ![u] = @ - apt]
        /\ totalSupply' = totalSupply - apt
    BY <1>0, <1>2, SMT DEF Redeem, TypeOK
  <2>2. amount \in Nat
    BY <1>0, <2>1, PoolValueType, UnitAssumption, ProductType, DivBounds
       DEF UnderlyerAmount
  <2>3. paid \in Int
    BY <2>2, PaidBound
  <2>4. balanceOf' \in [Users -> Nat] /\ totalSupply' \in Nat /\ reserve' \in Nat
    <3> HIDE DEF paid
    <3> QED BY <1>0, <2>1, <2>3, SMT DEF TypeOK
  <2> QED BY <1>2, <2>4 DEF Redeem, timeVars, feeVars, lockVars, readings, TypeOK
<1> QED BY <1>1, <1>2

\* Type correctness: the reserve, the APT supply and every balance stay
\* natural numbers whatever the Safes, mAPT and the readings do.
THEOREM TypeCorrect == Spec => []TypeOK
<1>1. Init => TypeOK
  <2> SUFFICES ASSUME Init PROVE TypeOK
    OBVIOUS
  <2>1. /\ balanceOf \in [Users -> Nat] /\ lastDepositTime \in [Users -> Nat]
        /\ totalSupply \in Nat /\ reserve \in Nat /\ timestamp \in Nat
        /\ withdrawFee \in Nat /\ arbitrageFee \in Nat /\ arbitrageFeePeriod \in Nat
        /\ price \in Nat \cup {Unreadable} /\ deployed \in Nat \cup {Unreadable}
    BY ReadingsAssumption, FeesAssumption, TimeAssumption, SMT DEF Init
  <2>2. addLiquidityLock \in BOOLEAN /\ redeemLock \in BOOLEAN /\ paused \in BOOLEAN
    BY Zenon DEF Init
  <2> QED BY <2>1, <2>2 DEF TypeOK
<1>2. TypeOK /\ [Next]_vars => TypeOK'
  <2> SUFFICES ASSUME TypeOK, [Next]_vars PROVE TypeOK'
    OBVIOUS
  <2>1. ASSUME NEW u \in Users,
               \/ \E amount \in Deposits : AddLiquidity(u, amount)
               \/ \E apt \in 1 .. balanceOf[u] : Redeem(u, apt)
        PROVE  TypeOK'
    BY <2>1, TypeUsers
  <2>2. ASSUME NEW amount \in Moves,
               TransferToLpAccount(amount) \/ ReceiveFromLpAccount(amount)
        PROVE  TypeOK'
    <3>1. reserve' \in Nat
      BY <2>2, AmountsAssumption, SMT
         DEF TransferToLpAccount, ReceiveFromLpAccount, TypeOK
    <3> QED BY <2>2, <3>1 DEF TransferToLpAccount, ReceiveFromLpAccount, TypeOK,
                              aptVars, timeVars, feeVars, lockVars, readings
  <2>3. CASE EmergencyExit
    BY <2>3 DEF EmergencyExit, TypeOK, aptVars, timeVars, feeVars, lockVars, readings
  <2>4. CASE SetArbitrageFee
    BY <2>4, FeesAssumption
       DEF SetArbitrageFee, TypeOK, aptVars, timeVars, lockVars, readings
  <2>5. CASE SetWithdrawFee
    BY <2>5, FeesAssumption
       DEF SetWithdrawFee, TypeOK, aptVars, timeVars, lockVars, readings
  <2>6. CASE EmergencyLocks
    <3>1. addLiquidityLock' \in BOOLEAN /\ redeemLock' \in BOOLEAN /\ paused' \in BOOLEAN
      BY <2>6, Zenon
         DEF EmergencyLocks, EmergencyLock, EmergencyUnlock,
             EmergencyLockAddLiquidity, EmergencyUnlockAddLiquidity,
             EmergencyLockRedeem, EmergencyUnlockRedeem, TypeOK
    <3> QED BY <2>6, <3>1 DEF EmergencyLocks, TypeOK, aptVars, timeVars, feeVars, readings
  <2>7. CASE ReadingsMove
    BY <2>7, ReadingsAssumption
       DEF ReadingsMove, TypeOK, aptVars, timeVars, feeVars, lockVars
  <2>8. CASE Tick
    BY <2>8, SMT DEF Tick, TypeOK, aptVars, feeVars, lockVars, readings
  <2>9. CASE UNCHANGED vars
    BY <2>9 DEF vars, TypeOK, aptVars, timeVars, feeVars, lockVars, readings
  <2> QED BY <2>1, <2>2, <2>3, <2>4, <2>5, <2>6, <2>7, <2>8, <2>9 DEF Next
<1> QED BY <1>1, <1>2, PTL DEF Spec

\* In every reachable state a deposit followed by the redemption of what it
\* minted returns at most one unit of value more than was deposited.
THEOREM RoundTripsGainNothing == Spec => []RoundTripGainsNothing
<1>1. TypeOK => RoundTripGainsNothing
  <2> SUFFICES ASSUME TypeOK, CanValuePool, price \notin {Unreadable, 0},
                      totalSupply > 0, PoolTotalValue > 0,
                      NEW amount \in Deposits \ {0}
               PROVE  (UnderlyerAmount(MintAmount(ValueFromUnderlyerAmount(amount)),
                                       TotalValue(reserve + amount),
                                       totalSupply + MintAmount(ValueFromUnderlyerAmount(amount)))
                         - amount) * price <= Unit
    BY DEF RoundTripGainsNothing
  <2> DEFINE value == ValueFromUnderlyerAmount(amount)
             m == MintAmount(value)
             after == TotalValue(reserve + amount)
  <2>1. /\ price \in Nat \ {0} /\ amount \in Nat /\ Unit \in Nat \ {0}
        /\ totalSupply \in Nat \ {0} /\ PoolTotalValue \in Nat \ {0}
    BY AmountsAssumption, UnitAssumption, PoolValueType DEF TypeOK
  <2>2. /\ value \in Nat /\ value * Unit <= amount * price
        /\ after \in Nat /\ after <= PoolTotalValue + value + 1
    BY <2>1, DepositValues
  <2>3. m = (value * totalSupply) \div PoolTotalValue /\ m \in Nat
    <3> HIDE DEF value
    <3> QED BY <2>1, <2>2, MintAmountType DEF MintAmount
  <2> HIDE DEF value, m, after
  <2>4. m * after <= (value + 1) * (totalSupply + m)
    BY <2>1, <2>2, <2>3, MintWorth
  <2>5. (((m * after * Unit) \div (totalSupply + m)) \div price - amount) * price <= Unit
    <3>1. totalSupply + m > 0
      BY <2>1, <2>3, SMT
    <3> QED BY <2>1, <2>2, <2>3, <2>4, <3>1, RoundTripBound
  <2> QED BY <2>5 DEF UnderlyerAmount, m, value, after
<1> QED BY <1>1, TypeCorrect, PTL

\* No deposit or redemption ever lowers the value of one APT by more than the
\* rounding of the reserve's value.
THEOREM SharePriceIsKept == Spec => SharePriceNeverFalls
<1> DEFINE Kept == (TotalValue(reserve') + 1) * totalSupply >= PoolTotalValue * totalSupply'
<1>1. TypeOK /\ [Next]_vars =>
        [totalSupply' # totalSupply /\ totalSupply > 0 /\ PoolTotalValue > 0 => Kept]_vars
  <2> SUFFICES ASSUME TypeOK, Next, totalSupply' # totalSupply,
                      totalSupply > 0, PoolTotalValue > 0
               PROVE  Kept
    OBVIOUS
  <2>0. totalSupply \in Nat \ {0} /\ Unit \in Nat \ {0} /\ reserve \in Nat
    BY UnitAssumption DEF TypeOK
  <2>1. ASSUME NEW u \in Users, NEW amount \in Deposits, AddLiquidity(u, amount)
        PROVE  Kept
    <3> DEFINE value == ValueFromUnderlyerAmount(amount)
               after == TotalValue(reserve + amount)
               m == MintAmount(value)
    <3>1. /\ amount \in Nat /\ CanValuePool /\ price \in Nat
          /\ totalSupply' = totalSupply + m /\ reserve' = reserve + amount
      BY <2>1, AmountsAssumption DEF AddLiquidity, TypeOK
    <3>2. /\ value \in Nat /\ after \in Nat /\ PoolTotalValue + value <= after
      BY <3>1, DepositValues
    <3>3. PoolTotalValue \in Nat \ {0}
      BY <3>1, PoolValueType
    <3>4. m = (value * totalSupply) \div PoolTotalValue /\ m \in Nat
      <4> HIDE DEF value
      <4> QED BY <2>0, <3>1, <3>2, <3>3, MintAmountType DEF MintAmount
    <3> HIDE DEF value, after, m
    <3>5. PoolTotalValue * (totalSupply + m) <= after * totalSupply
      BY <2>0, <3>2, <3>3, <3>4, MintKeepsShare
    <3>6. after * totalSupply <= (after + 1) * totalSupply
      BY <2>0, <3>2, ProductMonotone, SMT
    <3>7. /\ after * totalSupply \in Nat /\ (after + 1) * totalSupply \in Nat
          /\ PoolTotalValue * (totalSupply + m) \in Nat
      BY <2>0, <3>2, <3>3, <3>4, ProductType, SMT
    <3>8. PoolTotalValue * (totalSupply + m) <= (after + 1) * totalSupply
      BY <3>5, <3>6, <3>7, SMT
    <3> QED BY <3>1, <3>8 DEF after
  <2>2. ASSUME NEW u \in Users, NEW apt \in 1 .. balanceOf[u], Redeem(u, apt)
        PROVE  Kept
    <3> DEFINE amount == UnderlyerAmount(apt, PoolTotalValue, totalSupply)
               paid   == AmountWithFee(u, amount)
    <3>1. /\ apt \in Nat /\ CanValuePool /\ price \in Nat \ {0} /\ deployed \in Nat
          /\ paid >= 0 /\ paid <= reserve /\ reserve' = reserve - paid
          /\ totalSupply' = totalSupply - apt
      <4>1. balanceOf[u] \in Nat
        BY DEF TypeOK
      <4> QED BY <2>2, <4>1, SMT DEF Redeem, TypeOK, CanValuePool
    <3>2. PoolTotalValue \in Nat
      BY <3>1, PoolValueType
    <3>3. /\ amount = ((apt * PoolTotalValue * Unit) \div totalSupply) \div price
          /\ amount \in Nat
      BY <2>0, <3>1, <3>2, ProductType, DivBounds DEF UnderlyerAmount
    <3>4. paid \in Nat /\ paid <= amount
      <4>1. paid \in Int /\ paid <= amount
        BY <3>3, PaidBound
      <4> HIDE DEF paid
      <4> QED BY <3>1, <4>1, SMT
    <3> HIDE DEF amount, paid
    <3>5. (PoolTotalValue + (price * (reserve - paid)) \div Unit
             - (price * reserve) \div Unit + 1) * totalSupply
            >= PoolTotalValue * (totalSupply - apt)
      BY <2>0, <3>1, <3>2, <3>3, <3>4, RedeemKeepsShare
    <3>6. TotalValue(reserve') = PoolTotalValue + (price * (reserve - paid)) \div Unit
                                   - (price * reserve) \div Unit
      <4> DEFINE x == (price * (reserve - paid)) \div Unit
                 y == (price * reserve) \div Unit
      <4>1. reserve - paid \in Nat
        BY <2>0, <3>1, <3>4, SMT
      <4>2. TotalValue(reserve - paid) = x + deployed /\ PoolTotalValue = y + deployed
        BY <2>0, <3>1, <4>1, ValuesType DEF PoolTotalValue
      <4>3. x \in Nat /\ y \in Nat
        BY <2>0, <3>1, <4>1, ProductType, DivBounds
      <4> HIDE DEF x, y
      <4>4. TotalValue(reserve - paid) = PoolTotalValue + x - y
        BY <3>1, <4>2, <4>3, SMT
      <4> QED BY <3>1, <4>4 DEF x, y
    <3> QED BY <3>1, <3>5, <3>6
  <2> QED BY <2>1, <2>2
          DEF Next, TransferToLpAccount, ReceiveFromLpAccount, EmergencyExit,
              SetArbitrageFee, SetWithdrawFee, EmergencyLocks, ReadingsMove, Tick, aptVars
<1> QED BY <1>1, TypeCorrect, PTL DEF Spec, SharePriceNeverFalls

-----------------------------------------------------------------------------
(* What the holders of APT can claim. *)

\* The supply is what the users hold: minting and burning change both alike.
SupplyIsBalances == SumFunctionOnSet(balanceOf, Users) = totalSupply

LEMMA SupplyInductive == TypeOK /\ SupplyIsBalances /\ [Next]_vars => SupplyIsBalances'
<1> SUFFICES ASSUME TypeOK, SupplyIsBalances, [Next]_vars PROVE SupplyIsBalances'
  OBVIOUS
<1>0. /\ \A x \in Users : balanceOf[x] \in Int
      /\ SumFunctionOnSet(balanceOf, Users) = totalSupply /\ totalSupply \in Nat
  BY DEF TypeOK, SupplyIsBalances
<1>1. ASSUME NEW u \in Users, NEW d \in Int,
             balanceOf' = [balanceOf EXCEPT ![u] = @ + d],
             totalSupply' = totalSupply + d
      PROVE  SupplyIsBalances'
  <2>1. balanceOf \in [Users -> Int]
    BY DEF TypeOK
  <2>2. SumFunctionOnSet([balanceOf EXCEPT ![u] = @ + d], Users)
          = SumFunctionOnSet(balanceOf, Users) + d
    BY <2>1, SumUpdate, UsersAssumption
  <2>3. SumFunctionOnSet(balanceOf', Users) = totalSupply'
    BY <1>0, <1>1, <2>2
  <2> QED BY <2>3 DEF SupplyIsBalances
<1>2. ASSUME NEW u \in Users, NEW amount \in Deposits, AddLiquidity(u, amount)
      PROVE  SupplyIsBalances'
  <2> DEFINE minted == MintAmount(ValueFromUnderlyerAmount(amount))
  <2>1. amount \in Nat /\ CanValuePool /\ price \in Nat
    BY <1>2, AmountsAssumption DEF AddLiquidity, TypeOK
  <2>2. minted \in Nat
    BY <2>1, DepositValues, MintAmountType
  <2>3. /\ balanceOf' = [balanceOf EXCEPT ![u] = @ + minted]
        /\ totalSupply' = totalSupply + minted
    BY <1>2 DEF AddLiquidity
  <2> HIDE DEF minted
  <2>4. minted \in Int
    BY <2>2
  <2> QED BY <1>1, <2>3, <2>4, Zenon
<1>3. ASSUME NEW u \in Users, NEW apt \in 1 .. balanceOf[u], Redeem(u, apt)
      PROVE  SupplyIsBalances'
  <2>1. /\ balanceOf' = [balanceOf EXCEPT ![u] = @ - apt]
        /\ totalSupply' = totalSupply - apt
    BY <1>3 DEF Redeem
  <2>2. -apt \in Int /\ balanceOf[u] - apt = balanceOf[u] + (-apt)
        /\ totalSupply - apt = totalSupply + (-apt)
    BY <1>0
  <2>3. balanceOf' = [balanceOf EXCEPT ![u] = @ + (-apt)]
    BY <2>1, <2>2
  <2> QED BY <1>1, <2>1, <2>2, <2>3
<1>4. ASSUME UNCHANGED aptVars PROVE SupplyIsBalances'
  BY <1>4 DEF aptVars, SupplyIsBalances
<1> QED BY <1>2, <1>3, <1>4
        DEF Next, vars, TransferToLpAccount, ReceiveFromLpAccount, EmergencyExit,
            SetArbitrageFee, SetWithdrawFee, EmergencyLocks, ReadingsMove, Tick

LEMMA SupplyBacked == Spec => []SupplyIsBalances
<1>1. Init => SupplyIsBalances
  <2> SUFFICES ASSUME Init PROVE SupplyIsBalances
    OBVIOUS
  <2>1. {} \in SUBSET Users /\ \A x \in Users : balanceOf[x] \in Int /\ balanceOf[x] = 0
    BY DEF Init
  <2>2. SumFunctionOnSet(balanceOf, Users) = SumFunctionOnSet(balanceOf, {})
    BY <2>1, UsersAssumption, SumSupport
  <2>3. SumFunctionOnSet(balanceOf, {}) = 0
    BY FS_EmptySet, SumEquation
  <2> QED BY <2>2, <2>3 DEF SupplyIsBalances, Init
<1> QED BY <1>1, SupplyInductive, TypeCorrect, PTL DEF Spec

\* A claim on a share of the total, rounded down twice, is worth no more than
\* that share.
LEMMA ClaimWorth ==
  ASSUME NEW apt \in Nat, NEW total \in Nat, NEW supply \in Nat \ {0},
         price \in Nat \ {0}
  PROVE  /\ UnderlyerAmount(apt, total, supply) \in Nat
         /\ (price * supply) * UnderlyerAmount(apt, total, supply) <= (total * Unit) * apt
<1> DEFINE n == (apt * total * Unit) \div supply
           c == n \div price
<1>1. apt * total * Unit \in Nat /\ apt * total * Unit = (total * Unit) * apt
  BY UnitAssumption, ProductType
<1>2. n \in Nat /\ n * supply <= apt * total * Unit
  BY <1>1, DivBounds
<1>3. c \in Nat /\ c * price <= n
  BY <1>2, DivBounds
<1>4. (price * supply) * c <= (total * Unit) * apt
  <2> HIDE DEF n, c
  <2>1. (c * price) * supply <= n * supply
    BY <1>2, <1>3, ProductMonotone
  <2>2. (price * supply) * c = (c * price) * supply
    BY <1>3
  <2>3. (c * price) * supply \in Int /\ n * supply \in Int
    BY <1>2, <1>3
  <2> QED BY <1>1, <1>2, <2>1, <2>2, <2>3
<1> QED BY <1>3, <1>4 DEF UnderlyerAmount

\* In every reachable state the underlyer all holders together could redeem
\* is worth no more than the pool: rounding never promises more than there is.
THEOREM ClaimsAreWithinAssets == Spec => []ClaimsWithinAssets
<1>1. TypeOK /\ SupplyIsBalances => ClaimsWithinAssets
  <2> SUFFICES ASSUME TypeOK, SupplyIsBalances,
                      CanValuePool, price \notin {Unreadable, 0}, totalSupply > 0
               PROVE  price * SumFunction([u \in Users |->
                        UnderlyerAmount(balanceOf[u], PoolTotalValue, totalSupply)])
                        <= PoolTotalValue * Unit
    BY DEF ClaimsWithinAssets
  <2> DEFINE claim == [u \in Users |->
                         UnderlyerAmount(balanceOf[u], PoolTotalValue, totalSupply)]
             k == price * totalSupply
             w == PoolTotalValue * Unit
             cost == [u \in Users |-> k * claim[u]]
             share == [u \in Users |-> w * balanceOf[u]]
             c == SumFunctionOnSet(claim, Users)
  <2>1. /\ price \in Nat \ {0} /\ Unit \in Nat \ {0} /\ totalSupply \in Nat \ {0}
        /\ PoolTotalValue \in Nat
    BY UnitAssumption, PoolValueType DEF TypeOK
  <2>2. k \in Int /\ w \in Int
    BY <2>1
  <2>3. \A u \in Users : balanceOf[u] \in Nat /\ claim[u] \in Nat /\ k * claim[u] <= w * balanceOf[u]
    BY <2>1, ClaimWorth DEF TypeOK
  <2> HIDE DEF claim, k, w
  <2>4. \A u \in Users : /\ cost[u] \in Int /\ share[u] \in Int
                         /\ cost[u] = k * claim[u] /\ share[u] = w * balanceOf[u]
                         /\ cost[u] <= share[u]
    BY <2>2, <2>3
  <2> HIDE DEF cost, share
  <2>5. SumFunctionOnSet(cost, Users) = k * c
    BY <2>2, <2>3, <2>4, UsersAssumption, SumScale
  <2>6. SumFunctionOnSet(share, Users) = w * totalSupply
    <3>1. SumFunctionOnSet(share, Users) = w * SumFunctionOnSet(balanceOf, Users)
      BY <2>2, <2>3, <2>4, UsersAssumption, SumScale
    <3> QED BY <3>1 DEF SupplyIsBalances
  <2>7. SumFunctionOnSet(cost, Users) <= SumFunctionOnSet(share, Users)
    BY <2>4, UsersAssumption, SumMonotone
  <2>8. c \in Int
    BY <2>3, UsersAssumption, SumRemove
  <2> HIDE DEF c
  <2>9. (price * c) * totalSupply <= w * totalSupply
    <3>1. k * c = (price * c) * totalSupply
      BY <2>1, <2>8 DEF k
    <3> QED BY <2>5, <2>6, <2>7, <3>1
  <2>10. price * c <= w
    <3>1. price * c \in Int
      BY <2>1, <2>8
    <3> QED BY <2>1, <2>2, <2>9, <3>1, Cancel
  <2>11. DOMAIN claim = Users
    BY DEF claim
  <2> QED BY <2>10, <2>11 DEF SumFunction, c, w, claim
<1> QED BY <1>1, TypeCorrect, SupplyBacked, PTL

-----------------------------------------------------------------------------
(* The arbitrage fee. *)

\* No deposit is stamped with a time to come, so a period of 0 is never early.
StampsArePast == \A u \in Users : lastDepositTime[u] <= timestamp

LEMMA StampsPast == Spec => []StampsArePast
<1>1. Init => StampsArePast
  BY TimeAssumption DEF Init, StampsArePast
<1>2. TypeOK /\ StampsArePast /\ [Next]_vars => StampsArePast'
  <2> SUFFICES ASSUME TypeOK, StampsArePast, [Next]_vars PROVE StampsArePast'
    OBVIOUS
  <2>0. lastDepositTime \in [Users -> Nat] /\ timestamp \in Nat
    BY DEF TypeOK
  <2>1. ASSUME NEW u \in Users, NEW amount \in Deposits, AddLiquidity(u, amount)
        PROVE  StampsArePast'
    BY <2>0, <2>1 DEF AddLiquidity, DepositStamp, StampsArePast
  <2>2. CASE Tick
    BY <2>0, <2>2 DEF Tick, StampsArePast
  <2>3. CASE UNCHANGED timeVars
    BY <2>3 DEF timeVars, StampsArePast
  <2> QED BY <2>1, <2>2, <2>3
          DEF Next, vars, Redeem, TransferToLpAccount, ReceiveFromLpAccount,
              EmergencyExit, SetArbitrageFee, SetWithdrawFee, EmergencyLocks,
              ReadingsMove
<1> QED BY <1>1, <1>2, TypeCorrect, PTL DEF Spec

\* In every step a deposit puts the depositor under the arbitrage fee, and
\* nothing but time and a shorter fee period ends a waiting period.
THEOREM EarlyIsKept == Spec => EarlyUntilTimePasses
<1> DEFINE Early(u) ==
      /\ balanceOf'[u] > balanceOf[u] /\ arbitrageFeePeriod > 0 => IsEarlyRedeem(u)'
      /\ IsEarlyRedeem(u) /\ ~IsEarlyRedeem(u)' =>
           timestamp' > timestamp \/ arbitrageFeePeriod' < arbitrageFeePeriod
<1>1. TypeOK /\ StampsArePast /\ [Next]_vars => [\A u \in Users : Early(u)]_vars
  <2> SUFFICES ASSUME TypeOK, StampsArePast, Next, NEW u \in Users PROVE Early(u)
    OBVIOUS
  <2>0. /\ balanceOf \in [Users -> Nat] /\ lastDepositTime \in [Users -> Nat]
        /\ timestamp \in Nat /\ arbitrageFeePeriod \in Nat
    BY DEF TypeOK
  <2>1. ASSUME NEW v \in Users, NEW amount \in Deposits, AddLiquidity(v, amount)
        PROVE  Early(u)
    <3>1. /\ lastDepositTime' = [lastDepositTime EXCEPT ![v] = timestamp]
          /\ UNCHANGED <<timestamp, arbitrageFeePeriod>>
      BY <2>1 DEF AddLiquidity, DepositStamp, feeVars
    <3>2. CASE u = v
      <4>1. lastDepositTime'[u] = timestamp
        BY <2>0, <3>1, <3>2
      <4>2. arbitrageFeePeriod > 0 => IsEarlyRedeem(u)'
        BY <2>0, <3>1, <4>1 DEF IsEarlyRedeem
      <4>3. IsEarlyRedeem(u) => arbitrageFeePeriod > 0
        BY <2>0 DEF IsEarlyRedeem, StampsArePast
      <4> QED BY <4>2, <4>3
    <3>3. CASE u # v
      <4>1. balanceOf'[u] = balanceOf[u] /\ lastDepositTime'[u] = lastDepositTime[u]
        BY <2>0, <2>1, <3>1, <3>3 DEF AddLiquidity
      <4>2. ~(balanceOf'[u] > balanceOf[u])
        BY <2>0, <4>1
      <4> QED BY <2>0, <3>1, <4>1, <4>2 DEF IsEarlyRedeem
    <3> QED BY <3>2, <3>3
  <2>2. ASSUME NEW v \in Users, NEW apt \in 1 .. balanceOf[v], Redeem(v, apt)
        PROVE  Early(u)
    <3>1. /\ UNCHANGED <<lastDepositTime, timestamp, arbitrageFeePeriod>>
          /\ balanceOf' = [balanceOf EXCEPT ![v] = @ - apt]
      BY <2>2 DEF Redeem, timeVars, feeVars
    <3>2. balanceOf[u] \in Nat /\ balanceOf[v] \in Nat /\ apt \in Nat
      BY <2>0
    <3>3. ~(balanceOf'[u] > balanceOf[u])
      BY <2>0, <3>1, <3>2
    <3> QED BY <2>0, <3>1, <3>3 DEF IsEarlyRedeem
  <2>3. CASE SetArbitrageFee
    <3>1. UNCHANGED <<lastDepositTime, timestamp, balanceOf>> /\ arbitrageFeePeriod' \in Nat
      BY <2>3, FeesAssumption DEF SetArbitrageFee, timeVars, aptVars
    <3> QED BY <2>0, <3>1 DEF IsEarlyRedeem
  <2>4. CASE Tick
    BY <2>0, <2>4 DEF Tick, IsEarlyRedeem, aptVars, feeVars
  <2>5. CASE UNCHANGED <<lastDepositTime, timestamp, balanceOf, arbitrageFeePeriod>>
    BY <2>0, <2>5 DEF IsEarlyRedeem
  <2> QED BY <2>1, <2>2, <2>3, <2>4, <2>5
          DEF Next, TransferToLpAccount, ReceiveFromLpAccount, EmergencyExit,
              SetWithdrawFee, EmergencyLocks, ReadingsMove, aptVars, timeVars, feeVars
<1> QED BY <1>1, TypeCorrect, StampsPast, PTL DEF Spec, EarlyUntilTimePasses
=============================================================================
