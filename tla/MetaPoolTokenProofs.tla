------------------------- MODULE MetaPoolTokenProofs -------------------------
(* Theorems about MetaPoolToken for every set of pools, every scale, every  *)
(* reading of the oracle and every batch.  The arithmetic facts are stated   *)
(* about numbers first, then applied to a pool of a batch.                   *)
EXTENDS MetaPoolToken, SolidityMathLemmas

-----------------------------------------------------------------------------
(* Numbers. *)

\* A positive top-up value is less than the deployed value it is taken from:
\* percentage/(100+percentage) is less than 1.
LEMMA TopUpBelowDeployed ==
  ASSUME NEW pct \in Nat, NEW dv \in Nat, NEW held \in Nat,
         TruncDiv(pct * dv - 100 * held, 100 + pct) > 0
  PROVE  TruncDiv(pct * dv - 100 * held, 100 + pct) < dv
<1> DEFINE a == pct * dv - 100 * held
           t == TruncDiv(a, 100 + pct)
<1>1. a \in Int /\ a <= pct * dv
  BY ProductType, SMT
<1>2. t \in Nat /\ t * (100 + pct) <= a
  BY <1>1, TruncDivPositive, SMT
<1>3. dv > 0
  <2> SUFFICES ASSUME dv = 0 PROVE FALSE
    BY SMT
  <2>1. a <= 0
    BY <1>1, SMT
  <2>2. t * (100 + pct) >= 100 + pct
    BY <1>2, SMT
  <2> QED BY <1>2, <2>1, <2>2, SMT
<1>4. pct * dv < dv * (100 + pct)
  BY <1>3, SMT
<1>5. t * (100 + pct) < dv * (100 + pct)
  <2>1. pct * dv \in Nat /\ dv * (100 + pct) \in Nat /\ t * (100 + pct) \in Nat
    BY <1>2, ProductType, SMT
  <2> HIDE DEF a, t
  <2> QED BY <1>1, <1>2, <1>4, <2>1, SMT
<1> QED
  <2> HIDE DEF a, t
  <2>1. t < dv
    BY <1>2, <1>5, CancelStrict, SMT
  <2> QED BY <2>1 DEF t, a

\* The excess of a reserve is part of the reserve.
LEMMA ExcessWithinHeld ==
  ASSUME NEW pct \in Nat, NEW dv \in Nat, NEW held \in Nat,
         TruncDiv(pct * dv - 100 * held, 100 + pct) < 0
  PROVE  -TruncDiv(pct * dv - 100 * held, 100 + pct) <= held
<1> DEFINE a == pct * dv - 100 * held
           t == -TruncDiv(a, 100 + pct)
<1>1. a \in Int /\ -a <= 100 * held
  BY ProductType, SMT
<1>2. t \in Nat /\ t * (100 + pct) <= -a
  BY <1>1, TruncDivNegative, SMT
<1>3. 100 * held <= held * (100 + pct)
  BY SMT
<1>4. t * (100 + pct) <= held * (100 + pct)
  <2>1. held * (100 + pct) \in Nat /\ t * (100 + pct) \in Nat
    BY <1>2, ProductType, SMT
  <2> HIDE DEF a, t
  <2> QED BY <1>1, <1>2, <1>3, <2>1, SMT
<1> QED
  <2> HIDE DEF a, t
  <2>1. t <= held
    BY <1>2, <1>4, Cancel, SMT
  <2> QED BY <2>1 DEF t, a

\* Converting a value to an amount and the amount back loses value, if any.
LEMMA ThereAndBack ==
  ASSUME NEW value \in Nat, NEW scale \in Nat \ {0}, NEW pr \in Nat \ {0},
         NEW amount \in Nat, amount <= (value * scale) \div pr
  PROVE  (amount * pr) \div scale <= value
<1> DEFINE q == (value * scale) \div pr
           back == (amount * pr) \div scale
<1>1. value * scale \in Nat /\ amount * pr \in Nat
  BY ProductType, SMT
<1>2. q \in Nat /\ q * pr <= value * scale
  BY <1>1, DivBounds
<1>3. back \in Nat /\ back * scale <= amount * pr
  BY <1>1, DivBounds
<1>4. amount * pr <= q * pr
  BY <1>2, ProductMonotone
<1>5. back * scale <= value * scale
  <2>1. q * pr \in Nat /\ back * scale \in Nat
    BY <1>2, <1>3, ProductType
  <2> HIDE DEF q, back
  <2> QED BY <1>1, <1>2, <1>3, <1>4, <2>1, SMT
<1> QED BY <1>3, <1>5, Cancel

\* The value of the tokens held, converted back to tokens, is within them.
LEMMA AmountOfHeld ==
  ASSUME NEW tokens \in Nat, NEW scale \in Nat \ {0}, NEW pr \in Nat \ {0},
         NEW value \in Nat, value <= (pr * tokens) \div scale
  PROVE  (value * scale) \div pr <= tokens
<1>1. pr * tokens = tokens * pr
  BY SMT
<1> QED BY <1>1, ThereAndBack

\* A negative value converts to the negative of what its magnitude converts to.
LEMMA TruncDivOfNegative ==
  ASSUME NEW e \in Nat, NEW scale \in Nat \ {0}, NEW pr \in Nat \ {0}
  PROVE  /\ TruncDiv((-e) * scale, pr) = -((e * scale) \div pr)
         /\ (e * scale) \div pr \in Nat
<1> DEFINE w == e * scale
<1>1. w \in Nat /\ (-e) * scale = -w
  BY ProductType, SMT
<1>2. w \div pr \in Nat
  BY <1>1, DivBounds
<1>3. TruncDiv(-w, pr) = -(w \div pr)
  <2> HIDE DEF w
  <2>1. CASE w = 0
    BY <1>2, <2>1, SMT DEF TruncDiv
  <2>2. CASE w > 0
    <3>1. ~(-w >= 0) /\ -(-w) = w
      BY <1>1, <2>2, SMT
    <3> QED BY <3>1 DEF TruncDiv
  <2> QED BY <1>1, <2>1, <2>2, SMT
<1> QED BY <1>1, <1>2, <1>3

\* Burning for less than the deployed value burns less than the balance.
LEMMA BurnBelowBalance ==
  ASSUME NEW value \in Nat, NEW supply \in Nat \ {0}, NEW total \in Nat \ {0},
         NEW bal \in Nat, value < (total * bal) \div supply
  PROVE  (value * supply) \div total < bal
<1> DEFINE dv == (total * bal) \div supply
           d == (value * supply) \div total
<1>1. total * bal \in Nat /\ value * supply \in Nat
  BY ProductType, SMT
<1>2. dv \in Nat /\ dv * supply <= total * bal
  BY <1>1, DivBounds
<1>3. d \in Nat /\ d * total <= value * supply
  BY <1>1, DivBounds
<1>4. value * supply < dv * supply
  BY <1>2, ProductStrict
<1>5. d * total < bal * total
  <2>1. dv * supply \in Nat /\ d * total \in Nat
    BY <1>2, <1>3, ProductType, SMT
  <2>2. total * bal = bal * total
    BY SMT
  <2> HIDE DEF dv, d
  <2> QED BY <1>1, <1>2, <1>3, <1>4, <2>1, <2>2, SMT
<1> QED BY <1>3, <1>5, CancelStrict

-----------------------------------------------------------------------------
(* A pool of a batch that can be priced. *)

\* Everything a batch computes for one of its pools is a number.
LEMMA PoolNumbers ==
  ASSUME TypeOK, NEW b \in Batches, CanPrice(b), NEW p \in Members(b)
  PROVE  /\ p \in Pools /\ b[p] \in Nat \ {0}
         /\ tvl \in Nat /\ price[p] \in Nat /\ Scale[p] \in Nat \ {0}
         /\ reserve[p] \in Nat /\ lpBalance[p] \in Nat /\ mApt[p] \in Nat
         /\ reservePercentage[p] \in Nat
         /\ DeployedValue(p) \in Nat
         /\ ValueFromUnderlyerAmount(p, reserve[p]) \in Nat
         /\ ReserveTopUpValue(p) \in Int
         /\ ReserveTopUpValue(p) # 0 => price[p] # 0
<1>1. /\ p \in Pools /\ b[p] \in Nat \ {0}
      /\ tvl \in Nat /\ price[p] \in Nat /\ Scale[p] \in Nat \ {0}
      /\ reserve[p] \in Nat /\ lpBalance[p] \in Nat /\ mApt[p] \in Nat
      /\ reservePercentage[p] \in Nat /\ totalSupply \in Nat
      /\ ReserveTopUpValue(p) # 0 => price[p] # 0
  BY ScaleAssumption, BatchesAssumption, ReadingsAssumption
     DEF TypeOK, CanPrice, Members
<1>2. DeployedValue(p) \in Nat
  BY <1>1, ProductType, DivBounds DEF DeployedValue
<1>3. ValueFromUnderlyerAmount(p, reserve[p]) \in Nat
  BY <1>1, ProductType, DivBounds DEF ValueFromUnderlyerAmount
<1>4. ReserveTopUpValue(p) \in Int
  <2>1. reservePercentage[p] * DeployedValue(p) \in Nat
    BY <1>1, <1>2, ProductType
  <2> QED BY <1>1, <1>3, <2>1, TruncDivType, SMT DEF ReserveTopUpValue
<1> QED BY <1>1, <1>2, <1>3, <1>4

\* mAPT is minted or burned in natural numbers, and only for some value.
LEMMA MintedForType ==
  ASSUME TypeOK, tvl \in Nat, NEW value \in Nat
  PROVE  MintedFor(value) \in Nat
<1>1. totalSupply \in Nat /\ Factor \in Nat
  BY BoundsAssumption DEF TypeOK
<1> QED BY <1>1, ProductType, DivBounds DEF MintedFor

LEMMA DeltaType ==
  ASSUME TypeOK, NEW b \in Batches, CanPrice(b), NEW p \in Members(b),
         NEW amount \in Nat
  PROVE  /\ (amount * price[p]) \div Scale[p] \in Nat
         /\ Delta(p, amount) \in Nat
<1>1. (amount * price[p]) \div Scale[p] \in Nat
  BY PoolNumbers, ProductType, DivBounds
<1> QED BY <1>1, PoolNumbers, MintedForType DEF Delta

\* What FundLpAccount takes from a pool is in its reserve.
LEMMA FundAmountBound ==
  ASSUME TypeOK, NEW b \in Batches, CanPrice(b), NEW p \in Members(b)
  PROVE  FundAmount(p) \in Nat /\ FundAmount(p) <= reserve[p]
<1> DEFINE t == ReserveTopUpValue(p)
           held == ValueFromUnderlyerAmount(p, reserve[p])
<1>1. /\ t \in Int /\ held \in Nat /\ price[p] \in Nat /\ Scale[p] \in Nat \ {0}
      /\ reserve[p] \in Nat /\ DeployedValue(p) \in Nat /\ reservePercentage[p] \in Nat
      /\ t # 0 => price[p] # 0
  BY PoolNumbers
<1>2. CASE t = 0
  BY <1>1, <1>2, SMT DEF FundAmount, RebalanceAmount, Greater
<1>3. CASE t > 0
  <2>1. t * Scale[p] \in Nat /\ price[p] \in Nat \ {0}
    BY <1>1, <1>3, ProductType, SMT
  <2>2. RebalanceAmount(p) \in Nat
    <3> HIDE DEF t
    <3> QED BY <1>3, <2>1, DivBounds, SMT DEF RebalanceAmount, TruncDiv, t
  <2> QED BY <1>1, <2>2, SMT DEF FundAmount, Greater
<1>4. CASE t < 0
  <2> DEFINE e == -t
             q == (e * Scale[p]) \div price[p]
  <2>1. e \in Nat /\ price[p] \in Nat \ {0}
    <3> HIDE DEF t
    <3> QED BY <1>1, <1>4, SMT
  <2>2. e <= held
    <3>1. -TruncDiv(reservePercentage[p] * DeployedValue(p) - 100 * held,
                    100 + reservePercentage[p]) <= held
      <4> HIDE DEF held
      <4> QED BY <1>1, <1>4, ExcessWithinHeld DEF ReserveTopUpValue, held
    <3> QED BY <3>1 DEF ReserveTopUpValue
  <2>3. held = (price[p] * reserve[p]) \div Scale[p]
    BY DEF ValueFromUnderlyerAmount
  <2>4. q <= reserve[p]
    <3> HIDE DEF e, held
    <3> QED BY <1>1, <2>1, <2>2, <2>3, AmountOfHeld
  <2>5. RebalanceAmount(p) = -q /\ q \in Nat
    <3>1. t = -e
      <4> HIDE DEF t
      <4> QED BY <1>1, SMT
    <3>2. TruncDiv((-e) * Scale[p], price[p]) = -q /\ q \in Nat
      <4> HIDE DEF e
      <4> QED BY <1>1, <2>1, TruncDivOfNegative
    <3> QED BY <1>4, <3>1, <3>2 DEF RebalanceAmount
  <2>6. FundAmount(p) = q
    <3> HIDE DEF q
    <3> QED BY <2>5, SMT DEF FundAmount, Greater
  <2> QED BY <2>4, <2>5, <2>6
<1> QED BY <1>1, <1>2, <1>3, <1>4, SMT

\* What WithdrawFromLpAccount takes is in the LP Account, and worth no more
\* than the pool's top-up value.
LEMMA WithdrawAmountBound ==
  ASSUME TypeOK, NEW b \in Batches, CanPrice(b), NEW p \in Members(b)
  PROVE  /\ WithdrawAmount(p) \in Nat /\ WithdrawAmount(p) <= lpBalance[p]
         /\ WithdrawAmount(p) > 0 =>
              /\ ReserveTopUpValue(p) > 0
              /\ (WithdrawAmount(p) * price[p]) \div Scale[p] <= ReserveTopUpValue(p)
<1> DEFINE t == ReserveTopUpValue(p)
           w == WithdrawAmount(p)
<1>1. /\ t \in Int /\ price[p] \in Nat /\ Scale[p] \in Nat \ {0}
      /\ lpBalance[p] \in Nat
      /\ t # 0 => price[p] # 0
  BY PoolNumbers
<1>2. CASE t = 0
  BY <1>1, <1>2, SMT DEF WithdrawAmount, RebalanceAmount, Greater, Lesser
<1>3. CASE t > 0
  <2> DEFINE r == (t * Scale[p]) \div price[p]
  <2>1. t * Scale[p] \in Nat /\ price[p] \in Nat \ {0}
    BY <1>1, <1>3, ProductType, SMT
  <2>2. RebalanceAmount(p) = r /\ r \in Nat
    <3> HIDE DEF t
    <3> QED BY <1>3, <2>1, DivBounds, SMT DEF RebalanceAmount, TruncDiv, t
  <2>3. w \in Nat /\ w <= r /\ w <= lpBalance[p]
    <3> HIDE DEF r
    <3> QED BY <1>1, <2>2, SMT DEF WithdrawAmount, Greater, Lesser
  <2>4. (w * price[p]) \div Scale[p] <= t
    <3>1. t \in Nat
      BY <1>1, <1>3, SMT
    <3> HIDE DEF w, t
    <3> QED BY <1>1, <2>1, <2>3, <3>1, ThereAndBack
  <2> QED BY <1>3, <2>3, <2>4
<1>4. CASE t < 0
  <2>1. RebalanceAmount(p) \in Int /\ RebalanceAmount(p) <= 0
    <3>1. t * Scale[p] \in Int /\ t * Scale[p] < 0 /\ price[p] \in Nat \ {0}
      BY <1>1, <1>4, SMT
    <3>2. -(t * Scale[p]) \in Nat
      <4> HIDE DEF t
      <4> QED BY <3>1, SMT
    <3>3. RebalanceAmount(p) = -((-(t * Scale[p])) \div price[p])
      BY <1>4, <3>1, SMT DEF RebalanceAmount, TruncDiv
    <3>4. (-(t * Scale[p])) \div price[p] \in Nat
      BY <3>1, <3>2, DivBounds
    <3> HIDE DEF t
    <3> QED BY <3>3, <3>4, SMT
  <2> QED BY <1>1, <2>1, SMT DEF WithdrawAmount, Greater, Lesser
<1> QED BY <1>1, <1>2, <1>3, <1>4, SMT

\* A withdrawal burns less mAPT than the pool has, or none.
LEMMA BurnBound ==
  ASSUME TypeOK, NEW b \in Batches, CanPrice(b), NEW p \in Members(b)
  PROVE  /\ Delta(p, WithdrawAmount(p)) \in Nat
         /\ \/ Delta(p, WithdrawAmount(p)) = 0
            \/ Delta(p, WithdrawAmount(p)) < mApt[p]
<1> DEFINE w == WithdrawAmount(p)
           value == (w * price[p]) \div Scale[p]
           t == ReserveTopUpValue(p)
<1>1. /\ mApt[p] \in Nat /\ tvl \in Nat /\ totalSupply \in Nat
      /\ DeployedValue(p) \in Nat /\ t \in Int
      /\ reservePercentage[p] \in Nat /\ price[p] \in Nat /\ Scale[p] \in Nat \ {0}
      /\ ValueFromUnderlyerAmount(p, reserve[p]) \in Nat
  BY PoolNumbers DEF TypeOK
<1>2. w \in Nat /\ value \in Nat /\ Delta(p, w) \in Nat
  BY WithdrawAmountBound, DeltaType
<1>3. CASE w = 0
  <2>1. value = 0
    <3>1. w * price[p] = 0
      BY <1>1, <1>3, SMT
    <3> QED BY <1>1, <3>1, SMT
  <2>2. MintedFor(0) = 0
    <3>1. Factor \in Nat
      BY BoundsAssumption
    <3> QED BY <1>1, <3>1, SMT DEF MintedFor
  <2> QED BY <1>2, <2>1, <2>2 DEF Delta
<1>4. CASE w > 0
  <2>1. t > 0 /\ value <= t
    BY <1>4, WithdrawAmountBound
  <2>2. t < DeployedValue(p)
    BY <1>1, <2>1, TopUpBelowDeployed DEF ReserveTopUpValue
  <2>3. value < DeployedValue(p)
    BY <1>1, <1>2, <2>1, <2>2, SMT
  <2>4. totalSupply # 0 /\ mApt[p] # 0
    BY <1>1, <2>1, <2>2, SMT DEF DeployedValue
  <2>5. DeployedValue(p) = (tvl * mApt[p]) \div totalSupply
    BY <2>4 DEF DeployedValue
  <2>6. tvl # 0
    <3> SUFFICES ASSUME tvl = 0 PROVE FALSE
      OBVIOUS
    <3>1. tvl * mApt[p] = 0
      BY <1>1, SMT
    <3>2. DeployedValue(p) = 0
      BY <1>1, <2>4, <2>5, <3>1, SMT
    <3> QED BY <1>1, <2>1, <2>2, <3>2, SMT
  <2>7. Delta(p, w) = (value * totalSupply) \div tvl
    BY <2>4, <2>6 DEF Delta, MintedFor
  <2> HIDE DEF value
  <2>8. value < (tvl * mApt[p]) \div totalSupply
    BY <2>3, <2>5, Zenon
  <2>9. totalSupply \in Nat \ {0} /\ tvl \in Nat \ {0} /\ mApt[p] \in Nat /\ value \in Nat
    BY <1>1, <1>2, <2>4, <2>6
  <2>10. (value * totalSupply) \div tvl < mApt[p]
    BY <2>8, <2>9, BurnBelowBalance, Zenon
  <2>11. Delta(p, w) < mApt[p]
    BY <2>7, <2>10, Zenon
  <2> QED BY <1>2, <2>11
<1> QED BY <1>2, <1>3, <1>4, SMT

\* What a batch moves for a pool is measured in natural numbers.
LEMMA MovedType ==
  ASSUME TypeOK, NEW b \in Batches, CanPrice(b), NEW p \in Members(b)
  PROVE  /\ Minted(b, p) \in Nat /\ Funded(b, p) \in Nat
         /\ Burned(b, p) \in Nat /\ Withdrawn(b, p) \in Nat
<1>1. b[p] \in Nat
  BY PoolNumbers
<1>2. FundAmount(p) \in Nat /\ Delta(p, FundAmount(p)) \in Nat
  BY FundAmountBound, DeltaType
<1>3. WithdrawAmount(p) \in Nat /\ Delta(p, WithdrawAmount(p)) \in Nat
  BY WithdrawAmountBound, DeltaType
<1>4. /\ Minted(b, p) \in Nat
      /\ Funded(b, p) \in Nat
  BY <1>1, <1>2, ProductType DEF Minted, Funded
<1>5. /\ Burned(b, p) \in Nat
      /\ Withdrawn(b, p) \in Nat
  BY <1>1, <1>3, ProductType DEF Burned, Withdrawn
<1> QED BY <1>4, <1>5

-----------------------------------------------------------------------------
(* Theorems. *)

LEMMA TypeInit == Init => TypeOK
<1> SUFFICES ASSUME Init PROVE TypeOK
  OBVIOUS
<1>1. /\ reserve \in [Pools -> Nat]
      /\ reservePercentage \in [Pools -> Nat]
      /\ price \in [Pools -> Nat \cup {Unreadable}]
  BY BalancesAssumption, PercentagesAssumption, ReadingsAssumption DEF Init
<1> QED BY <1>1 DEF Init, TypeOK

\* Locking the oracle, or not, leaves readings of the right type.
LEMMA OracleType ==
  ASSUME LockOracle \/ OracleAnswers
  PROVE  /\ tvl' \in Nat \cup {Unreadable}
         /\ price' \in [Pools -> Nat \cup {Unreadable}]
BY ReadingsAssumption DEF LockOracle, OracleAnswers

LEMMA TypeFund ==
  ASSUME TypeOK, NEW b \in Batches, FundLpAccount(b)
  PROVE  TypeOK'
<1>1. CanPrice(b)
  BY DEF FundLpAccount, FundTokens
<1>2. \A p \in Members(b) : /\ Minted(b, p) \in Nat /\ Funded(b, p) \in Nat
                            /\ Funded(b, p) <= reserve[p]
  BY <1>1, MovedType DEF FundLpAccount, FundTokens, FundCovered
<1>3. mApt' \in [Pools -> Nat]
  BY <1>2, SMT DEF FundLpAccount, FundTokens, TypeOK, Members
<1>4. reserve' \in [Pools -> Nat]
  BY <1>2, SMT DEF FundLpAccount, FundTokens, TypeOK, Members
<1>5. lpBalance' \in [Pools -> Nat]
  BY <1>2, SMT DEF FundLpAccount, FundTokens, TypeOK, Members
<1>6. totalSupply' \in Nat
  BY BoundsAssumption, SMT DEF FundLpAccount, FundTokens, Uint
<1>7. /\ tvl' \in Nat \cup {Unreadable}
      /\ price' \in [Pools -> Nat \cup {Unreadable}]
      /\ registered' \in SUBSET Pools
  BY OracleType DEF FundLpAccount, FundTokens, RegisterUnderlyers, TypeOK, Members
<1>8. reservePercentage' \in [Pools -> Nat] /\ paused' \in [Pools -> BOOLEAN]
  BY DEF FundLpAccount, FundTokens, poolVars, TypeOK
<1> QED BY <1>3, <1>4, <1>5, <1>6, <1>7, <1>8 DEF TypeOK

LEMMA TypeWithdraw ==
  ASSUME TypeOK, NEW b \in Batches, WithdrawFromLpAccount(b)
  PROVE  TypeOK'
<1>1. CanPrice(b)
  BY DEF WithdrawFromLpAccount, WithdrawTokens
<1>2. \A p \in Members(b) : /\ Burned(b, p) \in Nat /\ Withdrawn(b, p) \in Nat
                            /\ Burned(b, p) <= mApt[p]
                            /\ Withdrawn(b, p) <= lpBalance[p]
  BY <1>1, MovedType DEF WithdrawFromLpAccount, WithdrawTokens, WithdrawCovered
<1>3. mApt' \in [Pools -> Nat]
  BY <1>2, SMT DEF WithdrawFromLpAccount, WithdrawTokens, TypeOK, Members
<1>4. reserve' \in [Pools -> Nat]
  BY <1>2, SMT DEF WithdrawFromLpAccount, WithdrawTokens, TypeOK, Members
<1>5. lpBalance' \in [Pools -> Nat]
  BY <1>2, SMT DEF WithdrawFromLpAccount, WithdrawTokens, TypeOK, Members
<1>6. totalSupply' \in Nat
  BY BoundsAssumption, SMT DEF WithdrawFromLpAccount, WithdrawTokens, Uint
<1>7. /\ tvl' \in Nat \cup {Unreadable}
      /\ price' \in [Pools -> Nat \cup {Unreadable}]
      /\ registered' \in SUBSET Pools
  BY OracleType DEF WithdrawFromLpAccount, WithdrawTokens, RegisterUnderlyers, TypeOK, Members
<1>8. reservePercentage' \in [Pools -> Nat] /\ paused' \in [Pools -> BOOLEAN]
  BY DEF WithdrawFromLpAccount, WithdrawTokens, poolVars, TypeOK
<1> QED BY <1>3, <1>4, <1>5, <1>6, <1>7, <1>8 DEF TypeOK

\* The steps of the other contracts.
LEMMA TypeOthers ==
  ASSUME TypeOK,
         \/ OracleMoves
         \/ LpAccountMoves
         \/ \E p \in Attended : \/ ReserveMoves(p)
                                \/ SetReservePercentage(p)
                                \/ EmergencyLockOrUnlock(p)
                                \/ RegisterOrRemoveErc20Token(p)
  PROVE  TypeOK'
<1>1. CASE OracleMoves
  BY <1>1, OracleType
     DEF OracleMoves, TypeOK, mAptVars, tokenVars, poolVars
<1>2. ASSUME NEW p \in Attended, ReserveMoves(p) PROVE TypeOK'
  BY <1>2, BalancesAssumption
     DEF ReserveMoves, TypeOK, mAptVars, oracleVars, poolVars
<1>3. CASE LpAccountMoves
  <2>1. lpBalance' \in [Pools -> Nat]
    BY <1>3, BalancesAssumption DEF LpAccountMoves, TypeOK
  <2>2. /\ tvl' \in Nat \cup {Unreadable}
        /\ price' \in [Pools -> Nat \cup {Unreadable}]
    BY <1>3, OracleType DEF LpAccountMoves, oracleVars, TypeOK
  <2> QED BY <1>3, <2>1, <2>2 DEF LpAccountMoves, TypeOK, mAptVars, poolVars
<1>4. ASSUME NEW p \in Attended, SetReservePercentage(p) PROVE TypeOK'
  BY <1>4, PercentagesAssumption
     DEF SetReservePercentage, TypeOK, mAptVars, tokenVars, oracleVars
<1>5. ASSUME NEW p \in Attended, EmergencyLockOrUnlock(p) PROVE TypeOK'
  <2>1. paused' \in [Pools -> BOOLEAN]
    BY <1>5, Zenon DEF EmergencyLockOrUnlock, TypeOK
  <2> QED BY <1>5, <2>1
          DEF EmergencyLockOrUnlock, TypeOK, mAptVars, tokenVars, oracleVars
<1>6. ASSUME NEW p \in Attended, RegisterOrRemoveErc20Token(p) PROVE TypeOK'
  BY <1>6, OracleType, AttendedAssumption
     DEF RegisterOrRemoveErc20Token, TypeOK, mAptVars, tokenVars, poolVars
<1> QED BY <1>1, <1>2, <1>3, <1>4, <1>5, <1>6

\* Type correctness: every balance stays a natural number through any
\* sequence of batches and outside moves.
THEOREM TypeCorrect == Spec => []TypeOK
<1>1. TypeOK /\ [Next]_vars => TypeOK'
  <2> SUFFICES ASSUME TypeOK, [Next]_vars PROVE TypeOK'
    OBVIOUS
  <2>1. CASE UNCHANGED vars
    BY <2>1 DEF vars, mAptVars, tokenVars, oracleVars, poolVars, TypeOK
  <2>2. CASE Next
    BY <2>2, TypeFund, TypeWithdraw, TypeOthers DEF Next
  <2> QED BY <2>1, <2>2
<1> QED BY TypeInit, <1>1, PTL DEF Spec

\* Whatever the readings, the LP Safe's operations on priced pools are never
\* refused by a balance, provided the batch names each pool once.
LEMMA CoveredInEveryState == TypeOK => RebalanceIsCovered
<1> SUFFICES ASSUME TypeOK, NEW b \in Batches, Distinct(b), CanPrice(b),
                    NEW p \in Members(b)
             PROVE  /\ paused[p] \/ FundCovered(b, p)
                    /\ WithdrawCovered(b, p)
  BY DEF RebalanceIsCovered
<1>1. b[p] = 1 /\ p \in Pools
  BY BatchesAssumption, SMT DEF Distinct, Members
<1>2. /\ FundAmount(p) \in Nat /\ FundAmount(p) <= reserve[p]
      /\ Delta(p, FundAmount(p)) \in Nat /\ reserve[p] \in Nat
  BY FundAmountBound, DeltaType, PoolNumbers
<1>3. Funded(b, p) <= reserve[p]
  BY <1>1, <1>2, SMT DEF Funded
<1>4. /\ WithdrawAmount(p) \in Nat /\ WithdrawAmount(p) <= lpBalance[p]
      /\ Delta(p, WithdrawAmount(p)) \in Nat
      /\ Delta(p, WithdrawAmount(p)) = 0 \/ Delta(p, WithdrawAmount(p)) < mApt[p]
      /\ mApt[p] \in Nat /\ lpBalance[p] \in Nat
  BY WithdrawAmountBound, BurnBound, PoolNumbers
<1>5. WithdrawCovered(b, p)
  BY <1>1, <1>4, SMT DEF WithdrawCovered, Burned, Withdrawn
<1> QED BY <1>3, <1>5 DEF FundCovered

THEOREM RebalanceAlwaysCovered == Spec => []RebalanceIsCovered
BY TypeCorrect, CoveredInEveryState, PTL

\* If every batch names each pool at most once, no pool ever burns its last
\* mAPT.  (With a pool named twice at a reserve percentage of 100 it can.)
THEOREM MAptNeverRunsOut ==
  ASSUME \A b \in Batches : Distinct(b)
  PROVE  Spec => NeverBurnsOut
<1>1. TypeOK /\ [Next]_vars => [\A p \in Pools : mApt[p] > 0 => mApt'[p] > 0]_vars
  <2> SUFFICES ASSUME TypeOK, Next, NEW p \in Pools, mApt[p] > 0
               PROVE  mApt'[p] > 0
    OBVIOUS
  <2>0. mApt[p] \in Nat
    BY DEF TypeOK
  <2>1. ASSUME NEW b \in Batches, FundLpAccount(b) PROVE mApt'[p] > 0
    <3>1. p \in Members(b) => Minted(b, p) \in Nat
      BY <2>1, MovedType DEF FundLpAccount, FundTokens
    <3> QED BY <2>0, <2>1, <3>1, SMT DEF FundLpAccount, FundTokens
  <2>2. ASSUME NEW b \in Batches, WithdrawFromLpAccount(b) PROVE mApt'[p] > 0
    <3>1. ASSUME p \in Members(b)
          PROVE  Burned(b, p) \in Nat /\ Burned(b, p) < mApt[p]
      <4>1. b[p] = 1 /\ CanPrice(b)
        BY <2>2, <3>1, BatchesAssumption, SMT
           DEF Distinct, Members, WithdrawFromLpAccount, WithdrawTokens
      <4>2. /\ Delta(p, WithdrawAmount(p)) \in Nat
            /\ Delta(p, WithdrawAmount(p)) = 0 \/ Delta(p, WithdrawAmount(p)) < mApt[p]
        BY <3>1, <4>1, BurnBound
      <4> QED BY <2>0, <4>1, <4>2, SMT DEF Burned
    <3> QED BY <2>0, <2>2, <3>1, SMT DEF WithdrawFromLpAccount, WithdrawTokens
  <2>3. ASSUME UNCHANGED mApt PROVE mApt'[p] > 0
    BY <2>3
  <2> QED BY <2>1, <2>2, <2>3
          DEF Next, OracleMoves, ReserveMoves, LpAccountMoves, SetReservePercentage,
              EmergencyLockOrUnlock, RegisterOrRemoveErc20Token,
              mAptVars
<1> QED BY <1>1, TypeCorrect, PTL DEF Spec, NeverBurnsOut

\* The mAPT of an amount is its value's share of supply over TVL, rounded down.
LEMMA DeltaFollowsValue ==
  ASSUME TypeOK, NEW b \in Batches, CanPrice(b), NEW p \in Members(b),
         NEW amount \in Nat, totalSupply > 0, tvl > 0
  PROVE  LET value == ValueFromUnderlyerAmount(p, amount)
         IN  /\ Delta(p, amount) * tvl <= value * totalSupply
             /\ value * totalSupply < (Delta(p, amount) + 1) * tvl
<1> DEFINE value == ValueFromUnderlyerAmount(p, amount)
<1>1. /\ tvl \in Nat \ {0} /\ totalSupply \in Nat \ {0}
      /\ price[p] \in Nat /\ Scale[p] \in Nat \ {0}
  BY PoolNumbers DEF TypeOK
<1>2. value = (amount * price[p]) \div Scale[p]
  <2>1. amount * price[p] = price[p] * amount
    BY <1>1, SMT
  <2> QED BY <2>1 DEF ValueFromUnderlyerAmount
<1>3. value \in Nat
  BY <1>2, DeltaType
<1>4. Delta(p, amount) = (value * totalSupply) \div tvl
  <2> HIDE DEF value
  <2> QED BY <1>1, <1>2 DEF Delta, MintedFor
<1>5. value * totalSupply \in Nat
  <2> HIDE DEF value
  <2> QED BY <1>1, <1>3, ProductType
<1> HIDE DEF value
<1>6. /\ Delta(p, amount) * tvl <= value * totalSupply
      /\ value * totalSupply < (Delta(p, amount) + 1) * tvl
  BY <1>1, <1>4, <1>5, DivBounds
<1> QED BY <1>6 DEF value

\* If every batch names each pool at most once, every mint and every burn is
\* the share of the moved value at the supply and TVL from before the batch;
\* and no underlyer passes without it.
THEOREM MintsAndBurnsFollowValue ==
  ASSUME \A b \in Batches : Distinct(b)
  PROVE  Spec => SharesFollowValue
<1> DEFINE Follows(p) ==
      LET units == Magnitude(mApt'[p] - mApt[p])
          value == ValueFromUnderlyerAmount(p, Magnitude(reserve'[p] - reserve[p]))
      IN  /\ units * tvl <= value * totalSupply
          /\ value * totalSupply < (units + 1) * tvl
           Crosses(p) == reserve'[p] # reserve[p] /\ lpBalance'[p] # lpBalance[p]
<1>0. TypeOK /\ [Next]_vars => [\A p \in Pools : Crosses(p) => mApt'[p] # mApt[p]]_vars
  <2> SUFFICES ASSUME TypeOK, Next, NEW p \in Pools, Crosses(p)
               PROVE  mApt'[p] # mApt[p]
    OBVIOUS
  <2>0. mApt[p] \in Nat /\ reserve[p] \in Nat
    BY DEF TypeOK
  <2>1. ASSUME NEW b \in Batches, FundLpAccount(b) PROVE mApt'[p] # mApt[p]
    <3>1. /\ p \in Members(b) /\ mApt'[p] = mApt[p] + Minted(b, p)
          /\ reserve'[p] = reserve[p] - Funded(b, p)
      BY <2>1 DEF FundLpAccount, FundTokens
    <3>2. Minted(b, p) \in Nat
      BY <2>1, <3>1, MovedType DEF FundLpAccount, FundTokens
    <3>3. Minted(b, p) # 0
      BY <2>0, <3>1 DEF Funded
    <3> QED BY <2>0, <3>1, <3>2, <3>3
  <2>2. ASSUME NEW b \in Batches, WithdrawFromLpAccount(b) PROVE mApt'[p] # mApt[p]
    <3>1. /\ p \in Members(b) /\ mApt'[p] = mApt[p] - Burned(b, p)
          /\ reserve'[p] = reserve[p] + Withdrawn(b, p)
      BY <2>2 DEF WithdrawFromLpAccount, WithdrawTokens
    <3>2. Burned(b, p) \in Nat
      BY <2>2, <3>1, MovedType DEF WithdrawFromLpAccount, WithdrawTokens
    <3>3. Burned(b, p) # 0
      BY <2>0, <3>1 DEF Withdrawn
    <3> QED BY <2>0, <3>1, <3>2, <3>3
  <2> QED BY <2>1, <2>2
          DEF Next, OracleMoves, ReserveMoves, LpAccountMoves, SetReservePercentage,
              EmergencyLockOrUnlock, RegisterOrRemoveErc20Token,
              mAptVars, tokenVars
<1>1. TypeOK /\ [Next]_vars =>
        [\A p \in Pools : (mApt'[p] # mApt[p] /\ totalSupply > 0 /\ tvl > 0)
                             => Follows(p)]_vars
  <2> SUFFICES ASSUME TypeOK, Next, NEW p \in Pools,
                      mApt'[p] # mApt[p], totalSupply > 0, tvl > 0
               PROVE  Follows(p)
    OBVIOUS
  <2>0. mApt[p] \in Nat /\ reserve[p] \in Nat
    BY DEF TypeOK
  <2>1. ASSUME NEW b \in Batches, FundLpAccount(b) PROVE Follows(p)
    <3> DEFINE amount == FundAmount(p)
    <3>1. p \in Members(b) /\ CanPrice(b) /\ mApt'[p] = mApt[p] + Minted(b, p)
          /\ reserve'[p] = reserve[p] - Funded(b, p)
      BY <2>1 DEF FundLpAccount, FundTokens
    <3>2. b[p] = 1 /\ amount \in Nat /\ Delta(p, amount) \in Nat
      BY <3>1, FundAmountBound, DeltaType, BatchesAssumption, SMT DEF Distinct, Members
    <3>3. Minted(b, p) = Delta(p, amount) /\ Delta(p, amount) # 0
      <4> HIDE DEF amount
      <4>1. 1 * Delta(p, amount) = Delta(p, amount)
        BY <3>2, SMT
      <4>2. Minted(b, p) = Delta(p, amount)
        BY <3>2, <4>1 DEF Minted, amount
      <4> QED BY <2>0, <3>1, <4>2, SMT
    <3>4. Funded(b, p) = amount
      <4> HIDE DEF amount
      <4> QED BY <3>2, <3>3, SMT DEF Funded, amount
    <3>5. /\ Magnitude(mApt'[p] - mApt[p]) = Delta(p, amount)
          /\ Magnitude(reserve'[p] - reserve[p]) = amount
      <4> HIDE DEF amount
      <4> QED BY <2>0, <3>1, <3>2, <3>3, <3>4, SMT DEF Magnitude
    <3> HIDE DEF amount
    <3> QED BY <3>1, <3>2, <3>5, DeltaFollowsValue
  <2>2. ASSUME NEW b \in Batches, WithdrawFromLpAccount(b) PROVE Follows(p)
    <3> DEFINE amount == WithdrawAmount(p)
    <3>1. p \in Members(b) /\ CanPrice(b) /\ mApt'[p] = mApt[p] - Burned(b, p)
          /\ reserve'[p] = reserve[p] + Withdrawn(b, p)
      BY <2>2 DEF WithdrawFromLpAccount, WithdrawTokens
    <3>2. b[p] = 1 /\ amount \in Nat /\ Delta(p, amount) \in Nat
      BY <3>1, WithdrawAmountBound, DeltaType, BatchesAssumption, SMT DEF Distinct, Members
    <3>3. Burned(b, p) = Delta(p, amount) /\ Delta(p, amount) # 0
      <4> HIDE DEF amount
      <4>1. 1 * Delta(p, amount) = Delta(p, amount)
        BY <3>2, SMT
      <4>2. Burned(b, p) = Delta(p, amount)
        BY <3>2, <4>1 DEF Burned, amount
      <4> QED BY <2>0, <3>1, <4>2, SMT
    <3>4. Withdrawn(b, p) = amount
      <4> HIDE DEF amount
      <4> QED BY <3>2, <3>3, SMT DEF Withdrawn, amount
    <3>5. /\ Magnitude(mApt'[p] - mApt[p]) = Delta(p, amount)
          /\ Magnitude(reserve'[p] - reserve[p]) = amount
      <4> HIDE DEF amount
      <4> QED BY <2>0, <3>1, <3>2, <3>3, <3>4, SMT DEF Magnitude
    <3> HIDE DEF amount
    <3> QED BY <3>1, <3>2, <3>5, DeltaFollowsValue
  <2> QED BY <2>1, <2>2
          DEF Next, OracleMoves, ReserveMoves, LpAccountMoves, SetReservePercentage,
              EmergencyLockOrUnlock, RegisterOrRemoveErc20Token,
              mAptVars
<1>2. TypeOK /\ [Next]_vars =>
        [\A p \in Pools :
           /\ Crosses(p) => mApt'[p] # mApt[p]
           /\ (mApt'[p] # mApt[p] /\ totalSupply > 0 /\ tvl > 0) => Follows(p)]_vars
  BY <1>0, <1>1
<1> QED BY <1>2, TypeCorrect, PTL DEF Spec, SharesFollowValue

-----------------------------------------------------------------------------
(* What the pools' shares add up to. *)

\* The supply is what the pools hold: a batch mints, or burns, the same of both.
SupplyIsBalances == SumFunctionOnSet(mApt, Pools) = totalSupply

LEMMA SupplyInductive == TypeOK /\ SupplyIsBalances /\ [Next]_vars => SupplyIsBalances'
<1> SUFFICES ASSUME TypeOK, SupplyIsBalances, [Next]_vars PROVE SupplyIsBalances'
  OBVIOUS
<1>0. /\ \A p \in Pools : mApt[p] \in Int
      /\ totalSupply \in Nat /\ SumFunctionOnSet(mApt, Pools) = totalSupply
  BY DEF TypeOK, SupplyIsBalances
<1>1. ASSUME NEW b \in Batches, FundLpAccount(b) PROVE SupplyIsBalances'
  <2> DEFINE e == [p \in Members(b) |-> Minted(b, p)]
             after == [p \in Pools |-> IF p \in Members(b) THEN mApt[p] + Minted(b, p)
                                       ELSE mApt[p]]
  <2>1. /\ CanPrice(b) /\ Members(b) \in SUBSET Pools
        /\ mApt' = after /\ totalSupply' = totalSupply + SumFunction(e)
    BY <1>1 DEF FundLpAccount, FundTokens, Members
  <2>2. \A p \in Members(b) : Minted(b, p) \in Nat
    BY <2>1, MovedType
  <2>3. /\ \A p \in Members(b) : e[p] \in Int /\ after[p] = mApt[p] + e[p]
        /\ \A p \in Pools \ Members(b) : after[p] = mApt[p]
        /\ DOMAIN e = Members(b)
    BY <2>1, <2>2
  <2> HIDE DEF e, after
  <2>4. SumFunctionOnSet(after, Pools)
          = SumFunctionOnSet(mApt, Pools) + SumFunctionOnSet(e, Members(b))
    BY <1>0, <2>1, <2>3, PoolsAssumption, SumBatch
  <2> QED BY <1>0, <2>1, <2>3, <2>4 DEF SumFunction, SupplyIsBalances
<1>2. ASSUME NEW b \in Batches, WithdrawFromLpAccount(b) PROVE SupplyIsBalances'
  <2> DEFINE d == [p \in Members(b) |-> Burned(b, p)]
             e == [p \in Members(b) |-> (-1) * d[p]]
             after == [p \in Pools |-> IF p \in Members(b) THEN mApt[p] - Burned(b, p)
                                       ELSE mApt[p]]
  <2>1. /\ CanPrice(b) /\ Members(b) \in SUBSET Pools
        /\ mApt' = after /\ totalSupply' = totalSupply - SumFunction(d)
    BY <1>2 DEF WithdrawFromLpAccount, WithdrawTokens, Members
  <2>2. \A p \in Members(b) : Burned(b, p) \in Nat
    BY <2>1, MovedType
  <2>3. /\ \A p \in Members(b) : d[p] \in Int /\ e[p] = (-1) * d[p]
        /\ \A p \in Members(b) : e[p] \in Int /\ after[p] = mApt[p] + e[p]
        /\ \A p \in Pools \ Members(b) : after[p] = mApt[p]
        /\ DOMAIN d = Members(b)
    BY <1>0, <2>1, <2>2
  <2>4. IsFiniteSet(Members(b)) /\ -1 \in Int
    BY <2>1, PoolsAssumption, FS_Subset
  <2> HIDE DEF d, e, after
  <2>5. SumFunctionOnSet(after, Pools)
          = SumFunctionOnSet(mApt, Pools) + SumFunctionOnSet(e, Members(b))
    BY <1>0, <2>1, <2>3, PoolsAssumption, SumBatch
  <2>6. SumFunctionOnSet(e, Members(b)) = (-1) * SumFunctionOnSet(d, Members(b))
    BY <2>3, <2>4, SumScale
  <2>7. SumFunctionOnSet(d, Members(b)) \in Int
    BY <2>3, <2>4, SumRemove
  <2> QED BY <1>0, <2>1, <2>3, <2>5, <2>6, <2>7 DEF SumFunction, SupplyIsBalances
<1>3. ASSUME UNCHANGED mAptVars PROVE SupplyIsBalances'
  BY <1>3 DEF mAptVars, SupplyIsBalances
<1> QED BY <1>1, <1>2, <1>3
        DEF Next, vars, OracleMoves, ReserveMoves, LpAccountMoves, SetReservePercentage,
            EmergencyLockOrUnlock, RegisterOrRemoveErc20Token

LEMMA SupplyBacked == Spec => []SupplyIsBalances
<1>1. Init => SupplyIsBalances
  <2> SUFFICES ASSUME Init PROVE SupplyIsBalances
    OBVIOUS
  <2>1. {} \in SUBSET Pools /\ \A p \in Pools : mApt[p] \in Int /\ mApt[p] = 0
    BY DEF Init
  <2>2. SumFunctionOnSet(mApt, Pools) = SumFunctionOnSet(mApt, {})
    BY <2>1, PoolsAssumption, SumSupport
  <2>3. SumFunctionOnSet(mApt, {}) = 0
    BY FS_EmptySet, SumEquation
  <2> QED BY <2>2, <2>3 DEF SupplyIsBalances, Init
<1> QED BY <1>1, SupplyInductive, TypeCorrect, PTL DEF Spec

\* A pool's deployed value is at most its share of the TVL.
LEMMA DeployedShare ==
  ASSUME TypeOK, tvl \in Nat, NEW p \in Pools
  PROVE  /\ DeployedValue(p) \in Nat
         /\ totalSupply * DeployedValue(p) <= tvl * mApt[p]
<1>1. totalSupply \in Nat /\ mApt[p] \in Nat /\ tvl * mApt[p] \in Nat
  BY ProductType DEF TypeOK
<1>2. CASE totalSupply = 0 \/ mApt[p] = 0
  BY <1>1, <1>2 DEF DeployedValue
<1>3. CASE totalSupply # 0 /\ mApt[p] # 0
  <2> DEFINE q == (tvl * mApt[p]) \div totalSupply
  <2>1. q \in Nat /\ q * totalSupply <= tvl * mApt[p]
    BY <1>1, <1>3, DivBounds
  <2>2. DeployedValue(p) = q
    BY <1>3 DEF DeployedValue
  <2> HIDE DEF q
  <2>3. totalSupply * q = q * totalSupply
    BY <1>1, <2>1
  <2> QED BY <2>1, <2>2, <2>3
<1> QED BY <1>2, <1>3

\* In every reachable state the values the pools are told they have deployed
\* add up to no more than the TVL they share.
THEOREM SharesAreWithinTvl == Spec => []DeployedValueWithinTvl
<1>1. TypeOK /\ SupplyIsBalances => DeployedValueWithinTvl
  <2> SUFFICES ASSUME TypeOK, SupplyIsBalances, tvl # Unreadable
               PROVE  SumFunction([p \in Pools |-> DeployedValue(p)]) <= tvl
    BY DEF DeployedValueWithinTvl
  <2> DEFINE value == [p \in Pools |-> DeployedValue(p)]
             due == [p \in Pools |-> totalSupply * value[p]]
             share == [p \in Pools |-> tvl * mApt[p]]
             v == SumFunctionOnSet(value, Pools)
  <2>1. tvl \in Nat /\ totalSupply \in Nat /\ tvl \in Int /\ totalSupply \in Int
    BY DEF TypeOK
  <2>2. \A p \in Pools : value[p] \in Int /\ mApt[p] \in Int
                         /\ totalSupply * value[p] <= tvl * mApt[p]
    BY <2>1, DeployedShare DEF TypeOK
  <2>3. DOMAIN value = Pools
    OBVIOUS
  <2>4. totalSupply = 0 => \A p \in Pools : value[p] = 0
    BY DEF DeployedValue
  <2> HIDE DEF value
  <2>5. \A p \in Pools : /\ due[p] \in Int /\ share[p] \in Int /\ due[p] <= share[p]
                         /\ due[p] = totalSupply * value[p] /\ share[p] = tvl * mApt[p]
    BY <2>1, <2>2
  <2> HIDE DEF due, share
  <2>6. SumFunctionOnSet(due, Pools) <= SumFunctionOnSet(share, Pools)
    BY <2>5, PoolsAssumption, SumMonotone
  <2>7. SumFunctionOnSet(due, Pools) = totalSupply * v
    BY <2>1, <2>2, <2>5, PoolsAssumption, SumScale
  <2>8. SumFunctionOnSet(share, Pools) = tvl * totalSupply
    <3>1. SumFunctionOnSet(share, Pools) = tvl * SumFunctionOnSet(mApt, Pools)
      BY <2>1, <2>2, <2>5, PoolsAssumption, SumScale
    <3> QED BY <3>1 DEF SupplyIsBalances
  <2>9. v \in Int
    BY <2>2, PoolsAssumption, SumRemove
  <2>10. CASE totalSupply = 0
    <3>1. {} \in SUBSET Pools /\ \A p \in Pools \ {} : value[p] = 0
      BY <2>4, <2>10
    <3>2. v = SumFunctionOnSet(value, {})
      BY <2>2, <3>1, PoolsAssumption, SumSupport
    <3>3. SumFunctionOnSet(value, {}) = 0
      BY FS_EmptySet, SumEquation
    <3> QED BY <2>1, <2>3, <3>2, <3>3 DEF SumFunction, value
  <2>11. CASE totalSupply # 0
    <3> HIDE DEF v
    <3>1. totalSupply * v = v * totalSupply
      BY <2>1, <2>9
    <3>2. v * totalSupply <= tvl * totalSupply
      BY <2>6, <2>7, <2>8, <3>1
    <3>3. v <= tvl
      BY <2>1, <2>9, <2>11, <3>2, Cancel
    <3> QED BY <2>3, <3>3 DEF SumFunction, v, value
  <2> QED BY <2>10, <2>11
<1> QED BY <1>1, TypeCorrect, SupplyBacked, PTL

-----------------------------------------------------------------------------
(* How close a move brings a reserve to its percentage. *)

\* An excess of value e is taken out of a reserve worth held, and the amount
\* and every value it appears in are rounded down: x is the exact value of
\* the amount moved and h of the reserve before, both times the scale.
FundRounding(pct, dv, held, after, e, moved, scale, pr, x, h) ==
  /\ e * (100 + pct) <= 100 * held - pct * dv /\ 100 * held - pct * dv < (e + 1) * (100 + pct)
  /\ x <= e * scale /\ e * scale < x + pr
  /\ moved * scale <= x /\ x < (moved + 1) * scale
  /\ held * scale <= h /\ h < (held + 1) * scale
  /\ after * scale <= h - x /\ h - x < (after + 1) * scale

LEMMA FundTarget ==
  ASSUME NEW pct \in Nat, NEW dv \in Nat, NEW held \in Nat, NEW after \in Nat,
         NEW e \in Nat, NEW moved \in Nat, NEW scale \in Nat \ {0}, NEW pr \in Nat,
         NEW x \in Nat, NEW h \in Nat,
         FundRounding(pct, dv, held, after, e, moved, scale, pr, x, h)
  PROVE  Magnitude(100 * after - pct * (dv + moved)) * scale
           <= (100 + pct) * (2 * scale + pr)
<1> DEFINE off == 100 * after - pct * (dv + moved)
           k == 100 + pct
           a == held * scale
           b == after * scale
           m == moved * scale
           d == dv * scale
           g == e * scale
<1> USE DEF FundRounding
<1>1. /\ a \in Nat /\ b \in Nat /\ m \in Nat /\ d \in Nat /\ g \in Nat /\ k \in Nat
      /\ off \in Int
  BY ProductType, SMT
<1>2. /\ x <= g /\ g < x + pr /\ m <= x /\ x < m + scale
      /\ a <= h /\ h < a + scale /\ b <= h - x /\ h - x < b + scale
  BY SMT
<1>3. k * g <= 100 * a - pct * d /\ 100 * a - pct * d < k * g + k * scale
  <2>1. /\ e * k \in Int /\ 100 * held - pct * dv \in Int /\ (e + 1) * k \in Int
    BY SMT
  <2>2. (e * k) * scale <= (100 * held - pct * dv) * scale
    BY <2>1, ProductMonotone
  <2>3. (100 * held - pct * dv) * scale < ((e + 1) * k) * scale
    BY <2>1, ProductStrict
  <2>4. /\ (e * k) * scale = k * g
        /\ (100 * held - pct * dv) * scale = 100 * a - pct * d
        /\ ((e + 1) * k) * scale = k * g + k * scale
    BY SMT
  <2> QED BY <2>2, <2>3, <2>4
<1>4. off * scale = 100 * b - pct * d - pct * m
  BY SMT
<1> HIDE DEF off, a, b, m, d, g
<1>5. k * x <= k * g /\ k * g <= k * x + k * pr
  <2>1. x * k <= g * k /\ g * k <= (x + pr) * k
    BY <1>1, <1>2, ProductMonotone, SMT
  <2>2. x * k = k * x /\ g * k = k * g /\ (x + pr) * k = k * x + k * pr
    BY <1>1, SMT
  <2> QED BY <2>1, <2>2
<1>6. pct * m <= pct * x /\ pct * x <= pct * m + pct * scale
  <2>1. m * pct <= x * pct /\ x * pct <= (m + scale) * pct
    BY <1>1, <1>2, ProductMonotone, SMT
  <2>2. m * pct = pct * m /\ x * pct = pct * x /\ (m + scale) * pct = pct * m + pct * scale
    BY <1>1, SMT
  <2> QED BY <2>1, <2>2
<1>7. /\ k * x = 100 * x + pct * x /\ k * scale = 100 * scale + pct * scale
      /\ k * (2 * scale + pr) = 2 * (k * scale) + k * pr
  BY SMT
<1>8. /\ k * x \in Nat /\ k * g \in Nat /\ k * pr \in Nat /\ k * scale \in Nat
      /\ pct * m \in Nat /\ pct * x \in Nat /\ pct * d \in Nat /\ pct * scale \in Nat
  BY <1>1, ProductType
<1> HIDE DEF k
<1>9. off * scale <= k * (2 * scale + pr)
  BY <1>1, <1>2, <1>3, <1>4, <1>5, <1>6, <1>7, <1>8, SMT
<1>10. -(off * scale) <= k * (2 * scale + pr)
  BY <1>1, <1>2, <1>3, <1>4, <1>5, <1>6, <1>7, <1>8, SMT
<1>11. Magnitude(off) * scale <= k * (2 * scale + pr)
  <2>1. (-off) * scale = -(off * scale)
    BY <1>1, SMT
  <2> QED BY <1>9, <1>10, <2>1 DEF Magnitude
<1> QED BY <1>11 DEF off, k

\* The same for a deficit of value t that is put into a reserve.
WithdrawRounding(pct, dv, held, after, t, moved, scale, pr, x, h) ==
  /\ t * (100 + pct) <= pct * dv - 100 * held /\ pct * dv - 100 * held < (t + 1) * (100 + pct)
  /\ x <= t * scale /\ t * scale < x + pr
  /\ moved * scale <= x /\ x < (moved + 1) * scale
  /\ held * scale <= h /\ h < (held + 1) * scale
  /\ after * scale <= h + x /\ h + x < (after + 1) * scale

LEMMA WithdrawTarget ==
  ASSUME NEW pct \in Nat, NEW dv \in Nat, NEW held \in Nat, NEW after \in Nat,
         NEW t \in Nat, NEW moved \in Nat, NEW scale \in Nat \ {0}, NEW pr \in Nat,
         NEW x \in Nat, NEW h \in Nat,
         WithdrawRounding(pct, dv, held, after, t, moved, scale, pr, x, h)
  PROVE  Magnitude(100 * after - pct * (dv - moved)) * scale
           <= (100 + pct) * (2 * scale + pr)
<1> DEFINE off == 100 * after - pct * (dv - moved)
           k == 100 + pct
           a == held * scale
           b == after * scale
           m == moved * scale
           d == dv * scale
           g == t * scale
<1> USE DEF WithdrawRounding
<1>1. /\ a \in Nat /\ b \in Nat /\ m \in Nat /\ d \in Nat /\ g \in Nat /\ k \in Nat
      /\ off \in Int
  BY ProductType, SMT
<1>2. /\ x <= g /\ g < x + pr /\ m <= x /\ x < m + scale
      /\ a <= h /\ h < a + scale /\ b <= h + x /\ h + x < b + scale
  BY SMT
<1>3. k * g <= pct * d - 100 * a /\ pct * d - 100 * a < k * g + k * scale
  <2>1. /\ t * k \in Int /\ pct * dv - 100 * held \in Int /\ (t + 1) * k \in Int
    BY SMT
  <2>2. (t * k) * scale <= (pct * dv - 100 * held) * scale
    BY <2>1, ProductMonotone
  <2>3. (pct * dv - 100 * held) * scale < ((t + 1) * k) * scale
    BY <2>1, ProductStrict
  <2>4. /\ (t * k) * scale = k * g
        /\ (pct * dv - 100 * held) * scale = pct * d - 100 * a
        /\ ((t + 1) * k) * scale = k * g + k * scale
    BY SMT
  <2> QED BY <2>2, <2>3, <2>4
<1>4. off * scale = 100 * b - pct * d + pct * m
  BY SMT
<1> HIDE DEF off, a, b, m, d, g
<1>5. k * x <= k * g /\ k * g <= k * x + k * pr
  <2>1. x * k <= g * k /\ g * k <= (x + pr) * k
    BY <1>1, <1>2, ProductMonotone, SMT
  <2>2. x * k = k * x /\ g * k = k * g /\ (x + pr) * k = k * x + k * pr
    BY <1>1, SMT
  <2> QED BY <2>1, <2>2
<1>6. pct * m <= pct * x /\ pct * x <= pct * m + pct * scale
  <2>1. m * pct <= x * pct /\ x * pct <= (m + scale) * pct
    BY <1>1, <1>2, ProductMonotone, SMT
  <2>2. m * pct = pct * m /\ x * pct = pct * x /\ (m + scale) * pct = pct * m + pct * scale
    BY <1>1, SMT
  <2> QED BY <2>1, <2>2
<1>7. /\ k * x = 100 * x + pct * x /\ k * scale = 100 * scale + pct * scale
      /\ k * (2 * scale + pr) = 2 * (k * scale) + k * pr
  BY SMT
<1>8. /\ k * x \in Nat /\ k * g \in Nat /\ k * pr \in Nat /\ k * scale \in Nat
      /\ pct * m \in Nat /\ pct * x \in Nat /\ pct * d \in Nat /\ pct * scale \in Nat
  BY <1>1, ProductType
<1> HIDE DEF k
<1>9. off * scale <= k * (2 * scale + pr)
  BY <1>1, <1>2, <1>3, <1>4, <1>5, <1>6, <1>7, <1>8, SMT
<1>10. -(off * scale) <= k * (2 * scale + pr)
  BY <1>1, <1>2, <1>3, <1>4, <1>5, <1>6, <1>7, <1>8, SMT
<1>11. Magnitude(off) * scale <= k * (2 * scale + pr)
  <2>1. (-off) * scale = -(off * scale)
    BY <1>1, SMT
  <2> QED BY <1>9, <1>10, <2>1 DEF Magnitude
<1> QED BY <1>11 DEF off, k

\* An amount that is funded is the excess, converted at the price.
LEMMA FundAmountExact ==
  ASSUME TypeOK, NEW b \in Batches, CanPrice(b), NEW p \in Members(b),
         FundAmount(p) > 0
  PROVE  /\ ReserveTopUpValue(p) < 0 /\ price[p] > 0
         /\ -ReserveTopUpValue(p) \in Nat
         /\ FundAmount(p) = ((-ReserveTopUpValue(p)) * Scale[p]) \div price[p]
<1> DEFINE t == ReserveTopUpValue(p)
           e == -t
           q == (e * Scale[p]) \div price[p]
<1>1. /\ t \in Int /\ price[p] \in Nat /\ Scale[p] \in Nat \ {0}
      /\ t # 0 => price[p] # 0
  BY PoolNumbers
<1>2. t # 0
  BY SMT DEF FundAmount, RebalanceAmount, Greater
<1>3. ~(t > 0)
  <2> SUFFICES ASSUME t > 0 PROVE FALSE
    OBVIOUS
  <2>1. t * Scale[p] \in Nat /\ price[p] \in Nat \ {0}
    BY <1>1, <1>2, ProductType, SMT
  <2>2. RebalanceAmount(p) \in Nat
    <3> HIDE DEF t
    <3> QED BY <1>2, <2>1, DivBounds, SMT DEF RebalanceAmount, TruncDiv, t
  <2> QED BY <2>2, SMT DEF FundAmount, Greater
<1>4. t < 0 /\ price[p] \in Nat \ {0} /\ e \in Nat /\ t = -e
  <2> HIDE DEF t
  <2> QED BY <1>1, <1>2, <1>3, SMT
<1>5. TruncDiv((-e) * Scale[p], price[p]) = -q /\ q \in Nat
  <2> HIDE DEF e
  <2> QED BY <1>1, <1>4, TruncDivOfNegative
<1>6. RebalanceAmount(p) = -q
  BY <1>2, <1>4, <1>5 DEF RebalanceAmount
<1>7. FundAmount(p) = q
  <2> HIDE DEF q
  <2> QED BY <1>5, <1>6, SMT DEF FundAmount, Greater
<1> QED BY <1>4, <1>7

\* An amount that is withdrawn is the deficit, converted at the price, or all
\* that the LP Account holds.
LEMMA WithdrawAmountExact ==
  ASSUME TypeOK, NEW b \in Batches, CanPrice(b), NEW p \in Members(b),
         WithdrawAmount(p) > 0, WithdrawAmount(p) # lpBalance[p]
  PROVE  /\ ReserveTopUpValue(p) > 0 /\ price[p] > 0
         /\ WithdrawAmount(p) = (ReserveTopUpValue(p) * Scale[p]) \div price[p]
<1> DEFINE t == ReserveTopUpValue(p)
           r == (t * Scale[p]) \div price[p]
<1>1. /\ t \in Int /\ price[p] \in Nat /\ Scale[p] \in Nat \ {0}
      /\ lpBalance[p] \in Nat
      /\ t # 0 => price[p] # 0
  BY PoolNumbers
<1>2. t > 0
  BY WithdrawAmountBound
<1>3. t * Scale[p] \in Nat /\ price[p] \in Nat \ {0}
  BY <1>1, <1>2, ProductType, SMT
<1>4. RebalanceAmount(p) = r /\ r \in Nat
  <2> HIDE DEF t
  <2> QED BY <1>2, <1>3, DivBounds, SMT DEF RebalanceAmount, TruncDiv, t
<1>5. WithdrawAmount(p) = r
  <2> HIDE DEF r
  <2> QED BY <1>1, <1>4, SMT DEF WithdrawAmount, Greater, Lesser
<1> QED BY <1>2, <1>3, <1>5

\* No value, no mAPT.
LEMMA NothingForNothing ==
  ASSUME TypeOK, NEW b \in Batches, CanPrice(b), NEW p \in Members(b)
  PROVE  Delta(p, 0) = 0
<1>1. price[p] \in Nat /\ Scale[p] \in Nat \ {0} /\ tvl \in Nat /\ totalSupply \in Nat
      /\ Factor \in Nat
  BY PoolNumbers, BoundsAssumption DEF TypeOK
<1>2. (0 * price[p]) \div Scale[p] = 0
  <2>1. 0 * price[p] = 0
    BY <1>1, SMT
  <2> QED BY <1>1, <2>1, SMT
<1>3. MintedFor(0) = 0
  BY <1>1, SMT DEF MintedFor
<1> QED BY <1>2, <1>3 DEF Delta

\* An amount's value, between what the scale and the price make of it.
LEMMA ValueBounds ==
  ASSUME NEW p \in Pools, price[p] \in Nat, NEW amount \in Nat
  PROVE  LET v == ValueFromUnderlyerAmount(p, amount)
         IN  /\ v \in Nat /\ price[p] * amount \in Nat
             /\ v * Scale[p] <= price[p] * amount
             /\ price[p] * amount < (v + 1) * Scale[p]
<1>1. Scale[p] \in Nat \ {0} /\ price[p] * amount \in Nat
  BY ScaleAssumption, ProductType
<1> QED BY <1>1, DivBounds DEF ValueFromUnderlyerAmount

\* The amount a value converts to is worth the value, short by less than the
\* price of one unit.
LEMMA AmountBounds ==
  ASSUME NEW value \in Nat, NEW scale \in Nat \ {0}, NEW pr \in Nat \ {0}
  PROVE  LET amount == (value * scale) \div pr
         IN  /\ amount \in Nat
             /\ pr * amount <= value * scale
             /\ value * scale < pr * amount + pr
<1> DEFINE amount == (value * scale) \div pr
<1>1. value * scale \in Nat
  BY ProductType
<1>2. /\ amount \in Nat /\ amount * pr <= value * scale
      /\ value * scale < (amount + 1) * pr
  BY <1>1, DivBounds
<1> HIDE DEF amount
<1>3. amount * pr = pr * amount /\ (amount + 1) * pr = pr * amount + pr
  BY <1>2, SMT
<1>4. /\ amount \in Nat /\ pr * amount <= value * scale
      /\ value * scale < pr * amount + pr
  BY <1>2, <1>3
<1> QED BY <1>4 DEF amount

\* If every batch names each pool at most once, every move that is not cut
\* short by the LP Account's balance brings the reserve to its percentage of
\* what stays deployed, up to the rounding of the two conversions.
THEOREM ReservesMeetTargets ==
  ASSUME \A b \in Batches : Distinct(b)
  PROVE  Spec => ReserveMeetsTarget
<1> DEFINE Meets(p) ==
      LET moved  == ValueFromUnderlyerAmount(p, Magnitude(reserve'[p] - reserve[p]))
          gained == IF mApt'[p] < mApt[p] THEN moved ELSE -moved
          held   == ValueFromUnderlyerAmount(p, reserve'[p])
          off    == 100 * held - reservePercentage[p] * (DeployedValue(p) - gained)
      IN  Magnitude(off) * Scale[p] <=
            (100 + reservePercentage[p]) * (2 * Scale[p] + price[p])
<1>1. TypeOK /\ [Next]_vars =>
        [\A p \in Pools :
           mApt'[p] # mApt[p] /\ (mApt'[p] > mApt[p] \/ lpBalance'[p] > 0) => Meets(p)]_vars
  <2> SUFFICES ASSUME TypeOK, Next, NEW p \in Pools, mApt'[p] # mApt[p],
                      mApt'[p] > mApt[p] \/ lpBalance'[p] > 0
               PROVE  Meets(p)
    OBVIOUS
  <2>0. mApt[p] \in Nat /\ reserve[p] \in Nat /\ lpBalance[p] \in Nat
    BY DEF TypeOK
  <2> DEFINE pct == reservePercentage[p]
             dv == DeployedValue(p)
             held == ValueFromUnderlyerAmount(p, reserve[p])
             t == ReserveTopUpValue(p)
  <2>1. ASSUME NEW b \in Batches, FundLpAccount(b) PROVE Meets(p)
    <3> DEFINE amount == FundAmount(p)
               e == -t
               moved == ValueFromUnderlyerAmount(p, amount)
               after == ValueFromUnderlyerAmount(p, reserve[p] - amount)
               x == price[p] * amount
               h == price[p] * reserve[p]
    <3>1. p \in Members(b) /\ CanPrice(b) /\ mApt'[p] = mApt[p] + Minted(b, p)
          /\ reserve'[p] = reserve[p] - Funded(b, p)
      BY <2>1 DEF FundLpAccount, FundTokens
    <3>2. /\ b[p] = 1 /\ amount \in Nat /\ amount <= reserve[p]
          /\ Delta(p, amount) \in Nat /\ price[p] \in Nat /\ Scale[p] \in Nat \ {0}
          /\ pct \in Nat /\ dv \in Nat /\ held \in Nat /\ t \in Int
      BY <3>1, FundAmountBound, DeltaType, PoolNumbers, BatchesAssumption, SMT
         DEF Distinct, Members
    <3>3. Minted(b, p) = Delta(p, amount) /\ Delta(p, amount) # 0
      <4> HIDE DEF amount
      <4>1. 1 * Delta(p, amount) = Delta(p, amount)
        BY <3>2, SMT
      <4>2. Minted(b, p) = Delta(p, amount)
        BY <3>2, <4>1 DEF Minted, amount
      <4> QED BY <2>0, <3>1, <4>2, SMT
    <3>4. amount > 0
      <4>1. amount # 0
        BY <3>1, <3>3, NothingForNothing
      <4> HIDE DEF amount
      <4> QED BY <3>2, <4>1
    <3>5. /\ t < 0 /\ price[p] \in Nat \ {0} /\ e \in Nat
          /\ amount = (e * Scale[p]) \div price[p]
      BY <3>1, <3>2, <3>4, FundAmountExact
    <3>6. /\ e * (100 + pct) <= 100 * held - pct * dv
          /\ 100 * held - pct * dv < (e + 1) * (100 + pct)
      <4>1. t = TruncDiv(pct * dv - 100 * held, 100 + pct)
        BY DEF ReserveTopUpValue
      <4>2. pct * dv - 100 * held \in Int /\ 100 + pct \in Nat \ {0}
            /\ -(pct * dv - 100 * held) = 100 * held - pct * dv
        <5> HIDE DEF pct, dv, held
        <5> QED BY <3>2, SMT
      <4> HIDE DEF pct, dv, held, t
      <4>3. /\ (-t) * (100 + pct) <= -(pct * dv - 100 * held)
            /\ -(pct * dv - 100 * held) < (-t + 1) * (100 + pct)
        BY <3>5, <4>1, <4>2, TruncDivNegative, TruncDivBounds
      <4> QED BY <4>2, <4>3
    <3>7. /\ x \in Nat /\ x <= e * Scale[p] /\ e * Scale[p] < x + price[p]
      <4>1. x \in Nat
        BY <3>2, ProductType
      <4> HIDE DEF e, amount
      <4> QED BY <3>2, <3>5, <4>1, AmountBounds
    <3>8. /\ moved \in Nat /\ moved * Scale[p] <= x /\ x < (moved + 1) * Scale[p]
          /\ h \in Nat /\ held * Scale[p] <= h /\ h < (held + 1) * Scale[p]
      <4> HIDE DEF amount
      <4> QED BY <2>0, <3>2, ValueBounds
    <3>9. /\ after \in Nat /\ after * Scale[p] <= h - x /\ h - x < (after + 1) * Scale[p]
      <4> HIDE DEF amount
      <4>1. reserve[p] - amount \in Nat
        BY <2>0, <3>2
      <4>2. price[p] * (reserve[p] - amount) = h - x
        BY <2>0, <3>2, SMT
      <4> QED BY <3>2, <4>1, <4>2, ValueBounds
    <3>10. Magnitude(100 * after - pct * (dv + moved)) * Scale[p]
             <= (100 + pct) * (2 * Scale[p] + price[p])
      <4> HIDE DEF Meets, pct, dv, held, t, e, amount, moved, after, x, h
      <4>1. FundRounding(pct, dv, held, after, e, moved, Scale[p], price[p], x, h)
        BY <3>6, <3>7, <3>8, <3>9 DEF FundRounding
      <4>2. /\ pct \in Nat /\ dv \in Nat /\ held \in Nat /\ after \in Nat /\ e \in Nat
            /\ moved \in Nat /\ Scale[p] \in Nat \ {0} /\ price[p] \in Nat
            /\ x \in Nat /\ h \in Nat
        BY <3>2, <3>5, <3>7, <3>8, <3>9
      <4> QED BY <4>1, <4>2, FundTarget
    <3>11. /\ reserve'[p] = reserve[p] - amount
           /\ Magnitude(reserve'[p] - reserve[p]) = amount
           /\ ~(mApt'[p] < mApt[p])
      <4> HIDE DEF amount
      <4>1. Funded(b, p) = amount
        BY <3>2, <3>3, SMT DEF Funded, amount
      <4> QED BY <2>0, <3>1, <3>2, <3>3, <4>1, SMT DEF Magnitude
    <3>12. dv - (-moved) = dv + moved
      <4> HIDE DEF dv, moved
      <4> QED BY <3>2, <3>8
    <3> HIDE DEF amount
    <3> QED BY <3>10, <3>11, <3>12
  <2>2. ASSUME NEW b \in Batches, WithdrawFromLpAccount(b) PROVE Meets(p)
    <3> DEFINE amount == WithdrawAmount(p)
               moved == ValueFromUnderlyerAmount(p, amount)
               after == ValueFromUnderlyerAmount(p, reserve[p] + amount)
               x == price[p] * amount
               h == price[p] * reserve[p]
    <3>1. p \in Members(b) /\ CanPrice(b) /\ mApt'[p] = mApt[p] - Burned(b, p)
          /\ reserve'[p] = reserve[p] + Withdrawn(b, p)
          /\ lpBalance'[p] = lpBalance[p] - Withdrawn(b, p)
      BY <2>2 DEF WithdrawFromLpAccount, WithdrawTokens
    <3>2. /\ b[p] = 1 /\ amount \in Nat /\ amount <= lpBalance[p]
          /\ Delta(p, amount) \in Nat /\ price[p] \in Nat /\ Scale[p] \in Nat \ {0}
          /\ pct \in Nat /\ dv \in Nat /\ held \in Nat /\ t \in Int
      BY <3>1, WithdrawAmountBound, DeltaType, PoolNumbers, BatchesAssumption, SMT
         DEF Distinct, Members
    <3>3. Burned(b, p) = Delta(p, amount) /\ Delta(p, amount) # 0
      <4> HIDE DEF amount
      <4>1. 1 * Delta(p, amount) = Delta(p, amount)
        BY <3>2, SMT
      <4>2. Burned(b, p) = Delta(p, amount)
        BY <3>2, <4>1 DEF Burned, amount
      <4> QED BY <2>0, <3>1, <4>2, SMT
    <3>4. amount > 0
      <4>1. amount # 0
        BY <3>1, <3>3, NothingForNothing
      <4> HIDE DEF amount
      <4> QED BY <3>2, <4>1
    <3>5. /\ reserve'[p] = reserve[p] + amount
          /\ Magnitude(reserve'[p] - reserve[p]) = amount
          /\ mApt'[p] < mApt[p]
          /\ amount # lpBalance[p]
      <4> HIDE DEF amount
      <4>1. Withdrawn(b, p) = amount
        BY <3>2, <3>3, SMT DEF Withdrawn, amount
      <4> QED BY <2>0, <3>1, <3>2, <3>3, <4>1, SMT DEF Magnitude
    <3>6. /\ t > 0 /\ t \in Nat /\ price[p] \in Nat \ {0}
          /\ amount = (t * Scale[p]) \div price[p]
      <4>1. /\ t > 0 /\ price[p] > 0
            /\ amount = (t * Scale[p]) \div price[p]
        BY <3>1, <3>4, <3>5, WithdrawAmountExact
      <4> HIDE DEF t
      <4> QED BY <3>2, <4>1
    <3>7. /\ t * (100 + pct) <= pct * dv - 100 * held
          /\ pct * dv - 100 * held < (t + 1) * (100 + pct)
      <4>1. t = TruncDiv(pct * dv - 100 * held, 100 + pct)
        BY DEF ReserveTopUpValue
      <4>2. pct * dv - 100 * held \in Int /\ 100 + pct \in Nat \ {0}
        <5> HIDE DEF pct, dv, held
        <5> QED BY <3>2, SMT
      <4> HIDE DEF pct, dv, held, t
      <4> QED BY <3>6, <4>1, <4>2, TruncDivPositive, TruncDivBounds
    <3>8. /\ x \in Nat /\ x <= t * Scale[p] /\ t * Scale[p] < x + price[p]
      <4>1. x \in Nat
        BY <3>2, ProductType
      <4> HIDE DEF t, amount
      <4> QED BY <3>2, <3>6, <4>1, AmountBounds
    <3>9. /\ moved \in Nat /\ moved * Scale[p] <= x /\ x < (moved + 1) * Scale[p]
          /\ h \in Nat /\ held * Scale[p] <= h /\ h < (held + 1) * Scale[p]
      <4> HIDE DEF amount
      <4> QED BY <2>0, <3>2, ValueBounds
    <3>10. /\ after \in Nat /\ after * Scale[p] <= h + x /\ h + x < (after + 1) * Scale[p]
      <4> HIDE DEF amount
      <4>1. reserve[p] + amount \in Nat
        BY <2>0, <3>2
      <4>2. price[p] * (reserve[p] + amount) = h + x
        BY <2>0, <3>2, SMT
      <4> QED BY <3>2, <4>1, <4>2, ValueBounds
    <3>11. Magnitude(100 * after - pct * (dv - moved)) * Scale[p]
             <= (100 + pct) * (2 * Scale[p] + price[p])
      <4> HIDE DEF Meets, pct, dv, held, t, amount, moved, after, x, h
      <4>1. WithdrawRounding(pct, dv, held, after, t, moved, Scale[p], price[p], x, h)
        BY <3>7, <3>8, <3>9, <3>10 DEF WithdrawRounding
      <4>2. /\ pct \in Nat /\ dv \in Nat /\ held \in Nat /\ after \in Nat /\ t \in Nat
            /\ moved \in Nat /\ Scale[p] \in Nat \ {0} /\ price[p] \in Nat
            /\ x \in Nat /\ h \in Nat
        BY <3>2, <3>6, <3>8, <3>9, <3>10
      <4> QED BY <4>1, <4>2, WithdrawTarget, Zenon
    <3> HIDE DEF amount
    <3> QED BY <3>5, <3>11
  <2> QED BY <2>1, <2>2
          DEF Next, OracleMoves, ReserveMoves, LpAccountMoves, SetReservePercentage,
              EmergencyLockOrUnlock, RegisterOrRemoveErc20Token,
              mAptVars
<1> QED BY <1>1, TypeCorrect, PTL DEF Spec, ReserveMeetsTarget
=============================================================================
