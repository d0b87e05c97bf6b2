-------------------------- MODULE CapitalCycleProofs --------------------------
(* Proof that the locks outlast the reports, for every set of pools, every   *)
(* latency of Chainlink and every choice of periods that respects it.        *)
EXTENDS CapitalCycle, SolidityMathLemmas

\* What the argument needs of the types; the periods are configured ones.
LockTypes ==
  /\ blockNumber \in Nat /\ lockEnd \in Nat
  /\ defaultLockPeriod \in LockPeriods /\ lpLockPeriod \in LockPeriods
  /\ sinceChange \in 0 .. Latency
  /\ source = [f \in Feeds |-> f]
  /\ DOMAIN answer = Feeds

\* The lock covers the time Chainlink still has to report the last operation.
LockCoversReport ==
  sinceChange < Latency /\ lockEnd + sinceChange >= blockNumber + Latency

\* Inductive: TvlReadIsActual alone is not, since it says nothing of the
\* blocks during which the lock hides an answer that is out of date.
CycleInv == LockTypes /\ (CaughtUp \/ waived \/ LockCoversReport)

LEMMA CycleInvInit == Init => CycleInv
<1> SUFFICES ASSUME Init PROVE CycleInv
  OBVIOUS
<1>1. LockTypes
  BY LatencyAssumption, BlocksAssumption DEF Init, LockTypes
<1>2. answer[Tvl].price = ActualTvl
  BY DEF Init, Feeds
<1> QED BY <1>1, <1>2 DEF Init, CycleInv, CaughtUp

\* An operation that takes a lock of a configured period, or finds a longer
\* one in place, is covered.
LEMMA OperationIsCovered ==
  ASSUME LockTypes, Changed, UNCHANGED <<blockNumber, lpLockPeriod, source, answer>>,
         \/ OA!Lock
         \/ LpAccountLock
  PROVE  CycleInv'
<1>1. /\ defaultLockPeriod \in Nat /\ defaultLockPeriod >= Latency
      /\ lpLockPeriod \in Nat /\ lpLockPeriod >= Latency
  BY PeriodsAssumption DEF LockTypes
<1>2. /\ lockEnd' \in Nat /\ lockEnd' >= blockNumber + Latency
      /\ defaultLockPeriod' = defaultLockPeriod
  <2>1. CASE OA!Lock
    BY <1>1, <2>1, LatencyAssumption DEF OA!Lock, LockTypes
  <2>2. CASE LpAccountLock
    BY <1>1, <2>2, LatencyAssumption DEF LpAccountLock, OA!LockFor, lockVars, LockTypes
  <2> QED BY <2>1, <2>2
<1>3. LockTypes'
  BY <1>2, LatencyAssumption DEF LockTypes, Changed
<1>4. LockCoversReport'
  <2>1. sinceChange' = 0 /\ blockNumber' = blockNumber
    BY DEF Changed
  <2>2. PICK end \in Nat : lockEnd' = end /\ end >= blockNumber + Latency
    BY <1>2
  <2> QED BY <2>1, <2>2, LatencyAssumption DEF LockCoversReport, LockTypes
<1> QED BY <1>3, <1>4 DEF CycleInv

LEMMA ActualTvlUnchanged ==
  ASSUME UNCHANGED <<position, registered, lpBalance>>
  PROVE  ActualTvl' = ActualTvl
BY DEF ActualTvl, ValueOf

\* A step that touches neither the capital, nor the lock, nor the report.
LEMMA CycleInvKept ==
  ASSUME CycleInv, UNCHANGED capitalVars, UNCHANGED <<answer, pending, sinceChange>>,
         UNCHANGED <<blockNumber, lockEnd, source>>,
         lpLockPeriod' \in LockPeriods, defaultLockPeriod' \in LockPeriods,
         waived => waived'
  PROVE  CycleInv'
BY ActualTvlUnchanged DEF CycleInv, LockTypes, CaughtUp, LockCoversReport, capitalVars

LEMMA CycleInvNext == CycleInv /\ [Next]_vars => CycleInv'
<1> SUFFICES ASSUME CycleInv, [Next]_vars PROVE CycleInv'
  OBVIOUS
<1>0. LockTypes
  BY DEF CycleInv
<1>1. ASSUME NEW b \in Batches, FundLpAccount(b) \/ WithdrawFromLpAccount(b)
      PROVE  CycleInv'
  BY <1>0, <1>1, OperationIsCovered
     DEF FundLpAccount, WithdrawFromLpAccount, chainVars, settingVars, sourceVars
<1>2. ASSUME NEW p \in Pools, RegisterOrRemoveErc20Token(p) PROVE CycleInv'
  BY <1>0, <1>2, OperationIsCovered
     DEF RegisterOrRemoveErc20Token, chainVars, settingVars, sourceVars
<1>3. CASE LpAccountOperation
  BY <1>0, <1>3, OperationIsCovered
     DEF LpAccountOperation, chainVars, settingVars, sourceVars
<1>4. ASSUME NEW p \in Pools, EmergencyExit(p) PROVE CycleInv'
  BY <1>0, <1>4, LatencyAssumption
     DEF EmergencyExit, CycleInv, LockTypes, lockVars, chainVars, settingVars, sourceVars
<1>5. ASSUME NEW p \in Pools, SetReservePercentage(p) PROVE CycleInv'
  BY <1>0, <1>5, CycleInvKept
     DEF SetReservePercentage, LockTypes, lockVars, chainVars, sourceVars, reportVars
<1>6. ASSUME NEW p \in Pools, DepositOrRedeem(p) PROVE CycleInv'
  <2>1. ActualTvl' = ActualTvl
    BY <1>6, ActualTvlUnchanged DEF DepositOrRedeem
  <2> QED BY <1>6, <2>1
          DEF DepositOrRedeem, CycleInv, LockTypes, CaughtUp, LockCoversReport,
              lockVars, chainVars, settingVars, sourceVars, reportVars
<1>7. CASE EmergencyUnlock
  <2>1. /\ lockEnd' = blockNumber /\ defaultLockPeriod' = defaultLockPeriod
        /\ UNCHANGED <<blockNumber, answer, source, lpLockPeriod, pending, sinceChange>>
        /\ UNCHANGED <<position, registered, lpBalance>>
        /\ waived' \/ CaughtUp
    BY <1>7 DEF EmergencyUnlock, OA!EmergencyUnlock, chainVars, settingVars, sourceVars,
                capitalVars
  <2> QED BY <1>0, <2>1, ActualTvlUnchanged DEF CycleInv, LockTypes, CaughtUp
<1>8. CASE EmergencySetOrUnsetTvl
  <2>1. UNCHANGED lockVars
    BY <1>8 DEF EmergencySetOrUnsetTvl, OA!EmergencySetValue, OA!EmergencyUnsetValue,
                OA!lockVars, lockVars
  <2> QED BY <1>0, <1>8, <2>1, CycleInvKept
          DEF EmergencySetOrUnsetTvl, LockTypes, lockVars, chainVars, sourceVars, reportVars
<1>9. CASE SetPeriods
  <2>1. /\ lpLockPeriod' \in LockPeriods /\ defaultLockPeriod' \in LockPeriods
        /\ lockEnd' = lockEnd
    BY <1>0, <1>9 DEF SetPeriods, OA!SetDefaultLockPeriod, lockVars, LockTypes
  <2> QED BY <1>9, <2>1, CycleInvKept DEF SetPeriods, chainVars, sourceVars, reportVars
<1>10. CASE Observe
  <2>1. ActualTvl' = ActualTvl
    BY <1>10, ActualTvlUnchanged DEF Observe, capitalVars
  <2> QED BY <1>10, <2>1
          DEF Observe, CycleInv, LockTypes, CaughtUp, LockCoversReport,
              lockVars, chainVars, settingVars, sourceVars
<1>11. CASE Submit
  <2>1. ActualTvl' = ActualTvl
    BY <1>11, ActualTvlUnchanged DEF Submit, capitalVars
  <2>2. /\ UNCHANGED <<lockVars, blockNumber, source, lpLockPeriod, sinceChange>>
        /\ pending' = None
        /\ waived' = (waived /\ pending # ActualTvl)
        /\ DOMAIN answer' = Feeds
        /\ answer'[Tvl].price = pending
    BY <1>0, <1>11 DEF Submit, OA!Report, settingVars, sourceVars, LockTypes, Feeds
  <2>3. CASE LockCoversReport
    BY <1>0, <2>2, <2>3 DEF CycleInv, LockTypes, LockCoversReport, lockVars
  <2>4. CASE pending = ActualTvl
    BY <1>0, <2>1, <2>2, <2>4 DEF CycleInv, LockTypes, CaughtUp, lockVars
  <2>5. CASE pending # ActualTvl /\ ~LockCoversReport
    BY <1>0, <1>11, <2>2, <2>5 DEF CycleInv, LockTypes, CaughtUp, Submit, lockVars
  <2> QED BY <2>3, <2>4, <2>5
<1>12. CASE NextBlock
  <2>1. ActualTvl' = ActualTvl
    BY <1>12, ActualTvlUnchanged DEF NextBlock, capitalVars
  <2>2. /\ blockNumber' = blockNumber + 1 /\ answer' = answer
        /\ UNCHANGED <<lockVars, settingVars, pending, waived>>
        /\ sinceChange' = IF sinceChange < Latency THEN sinceChange + 1 ELSE Latency
        /\ sinceChange + 1 < Latency \/ CaughtUp
    BY <1>12 DEF NextBlock, OA!NextBlock
  <2>3. LockTypes'
    BY <1>0, <2>2, LatencyAssumption DEF LockTypes, lockVars, settingVars, sourceVars
  <2>4. CaughtUp => CaughtUp'
    BY <2>1, <2>2 DEF CaughtUp
  <2>5. LockCoversReport /\ sinceChange + 1 < Latency => LockCoversReport'
    BY <1>0, <2>2, LatencyAssumption DEF LockTypes, LockCoversReport, lockVars
  <2> QED BY <2>2, <2>3, <2>4, <2>5 DEF CycleInv
<1>13. CASE UNCHANGED vars
  BY <1>0, <1>13, CycleInvKept
     DEF vars, lockVars, chainVars, settingVars, sourceVars, reportVars, LockTypes
<1> QED BY <1>1, <1>2, <1>3, <1>4, <1>5, <1>6, <1>7, <1>8, <1>9, <1>10, <1>11, <1>12, <1>13
        DEF Next

\* A Chainlink TVL that can be read is the value of what is deployed: with
\* every lock period at least Chainlink's latency, no order of operations,
\* reports and blocks lets anyone price shares with an answer that misses one.
THEOREM ReadsAreCurrent == Spec => []TvlReadIsActual
<1>1. CycleInv => TvlReadIsActual
  <2> SUFFICES ASSUME CycleInv, OA!IsReadable(Tvl), ~OA!HasOverride(Tvl), ~waived
               PROVE  OA!Reading(Tvl) = ActualTvl
    BY DEF TvlReadIsActual
  <2>1. CaughtUp
    <3>1. ~OA!IsLocked
      BY DEF OA!IsReadable
    <3>2. ~LockCoversReport
      BY <3>1, LatencyAssumption DEF OA!IsLocked, CycleInv, LockTypes, LockCoversReport
    <3> QED BY <3>2 DEF CycleInv
  <2>2. source[Tvl] = Tvl
    BY DEF CycleInv, LockTypes, Feeds
  <2> QED BY <2>1, <2>2 DEF OA!Reading, CaughtUp
<1> QED BY <1>1, CycleInvInit, CycleInvNext, PTL DEF Spec

-----------------------------------------------------------------------------
(* Type correctness.  The adapter's readings are what MetaPoolToken reads:   *)
(* they are amounts, or no reading at all.                                   *)

\* The adapter, its feeds and the clock.  Only the TVL is ever overridden.
OracleTypes ==
  /\ lockEnd \in Nat /\ defaultLockPeriod \in LockPeriods /\ lpLockPeriod \in LockPeriods
  /\ chainlinkStalePeriod \in Nat \ {0}
  /\ source = [f \in Feeds |-> f]
  /\ submitted \in [Feeds -> [value : Nat, periodEnd : Nat]]
  /\ \A p \in Pools : submitted[p].periodEnd = 0
  /\ answer \in [Feeds -> [price : Nat, updatedAt : Nat]]
  /\ \A p \in Pools : answer[p].price = Price[p]
  /\ blockNumber \in Nat \ {0} /\ timestamp \in Nat

\* The tokens; no operation takes a pool's underlyer beyond its bound.
CapitalTypes ==
  /\ mApt \in [Pools -> Nat] /\ totalSupply \in Nat
  /\ reserve \in [Pools -> Nat] /\ lpBalance \in [Pools -> Nat]
  /\ \A p \in Pools : reserve[p] + lpBalance[p] <= MaxUnderlyer
  /\ reservePercentage \in [Pools -> Nat]
  /\ registered \in SUBSET Pools
  /\ position \in Nat

ReportTypes ==
  /\ pending \in Nat \cup {None}
  /\ sinceChange \in 0 .. Latency
  /\ waived \in BOOLEAN

CycleTypes == OracleTypes /\ CapitalTypes /\ ReportTypes

\* A reading is an amount.
LEMMA ReadableType ==
  ASSUME OracleTypes, NEW f \in Feeds
  PROVE  Readable(f) \in Nat \cup {Unreadable}
<1>1. submitted[f].value \in Nat /\ answer[source[f]].price \in Nat
  BY DEF OracleTypes
<1> QED BY <1>1 DEF Readable, OA!Reading

LEMMA CycleTypesSuffice == CycleTypes => TypeOK
<1> SUFFICES ASSUME CycleTypes PROVE TypeOK
  OBVIOUS
<1>1. OA!TypeOK
  <2>1. OA!Feeds = Feeds
    BY DEF OA!Feeds, Feeds
  <2>2. source \in [Feeds -> Feeds \cup {NoSource}] /\ source[Tvl] # NoSource
    BY PoolsAssumption DEF CycleTypes, OracleTypes, Feeds
  <2>3. answer \in [Feeds -> [price : Int, updatedAt : Nat]]
    BY DEF CycleTypes, OracleTypes
  <2> QED BY <2>1, <2>2, <2>3, PeriodsAssumption
          DEF OA!TypeOK, CycleTypes, OracleTypes, CapitalTypes
<1>2. MA!TypeOK
  <2>1. /\ Readable(Tvl) \in Nat \cup {Unreadable}
        /\ [p \in Pools |-> Readable(p)] \in [Pools -> Nat \cup {Unreadable}]
    BY ReadableType DEF CycleTypes, Feeds
  <2>2. [p \in Pools |-> FALSE] \in [Pools -> BOOLEAN]
    OBVIOUS
  <2> QED BY <2>1, <2>2 DEF MA!TypeOK, CycleTypes, CapitalTypes
<1> QED BY <1>1, <1>2 DEF TypeOK, CycleTypes, OracleTypes, CapitalTypes, ReportTypes

\* What a registered underlyer, and everything deployed, is worth.
LEMMA ValueOfType ==
  ASSUME NEW p \in Pools, NEW amount \in Nat
  PROVE  ValueOf(p, amount) \in Nat
BY PricesAssumption, ProductType, DivBounds DEF ValueOf

LEMMA ActualTvlType ==
  ASSUME CapitalTypes
  PROVE  ActualTvl \in Nat
<1> DEFINE worth == [p \in registered |-> ValueOf(p, lpBalance[p])]
<1>1. \A p \in registered : worth[p] \in Nat
  BY ValueOfType DEF CapitalTypes
<1>2. IsFiniteSet(registered)
  BY PoolsAssumption, FS_Subset DEF CapitalTypes
<1>3. SumFunctionOnSet(worth, registered) \in Nat
  <2> HIDE DEF worth
  <2> QED BY <1>1, <1>2, SumOfNaturals
<1>4. DOMAIN worth = registered
  OBVIOUS
<1> QED BY <1>3, <1>4 DEF ActualTvl, SumFunction, CapitalTypes

LEMMA CycleTypesInit == Init => CycleTypes
<1> SUFFICES ASSUME Init PROVE CycleTypes
  OBVIOUS
<1>1. CapitalTypes
  <2>1. reserve \in [Pools -> Nat] /\ \A p \in Pools : reserve[p] <= MaxUnderlyer
    <3>1. \A n \in Reserves : n \in Nat /\ n <= MaxUnderlyer
      BY AmountsAssumption
    <3> QED BY <3>1 DEF Init
  <2>2. reservePercentage \in [Pools -> Nat]
    BY AmountsAssumption DEF Init
  <2> QED BY <2>1, <2>2, AmountsAssumption DEF Init, CapitalTypes
<1>2. ActualTvl \in Nat
  BY <1>1, ActualTvlType
<1>3. answer \in [Feeds -> [price : Nat, updatedAt : Nat]]
      /\ \A p \in Pools : answer[p].price = Price[p]
  BY <1>2, PricesAssumption, PoolsAssumption DEF Init, Feeds
<1>4. OracleTypes
  BY <1>3, BlocksAssumption DEF Init, OracleTypes, Feeds
<1>5. ReportTypes
  <2>1. sinceChange \in 0 .. Latency
    BY LatencyAssumption DEF Init
  <2> QED BY <2>1, Zenon DEF Init, ReportTypes
<1> QED BY <1>1, <1>4, <1>5 DEF CycleTypes

\* Steps that leave one of the three parts alone.
LEMMA CapitalTypesKept ==
  ASSUME CapitalTypes, UNCHANGED mAptVars, UNCHANGED capitalVars,
         UNCHANGED reservePercentage
  PROVE  CapitalTypes'
BY DEF CapitalTypes, mAptVars, capitalVars

LEMMA OracleTypesKept ==
  ASSUME OracleTypes, UNCHANGED <<chainVars, sourceVars, submitted>>,
         lockEnd' \in Nat, defaultLockPeriod' \in LockPeriods, lpLockPeriod' \in LockPeriods
  PROVE  OracleTypes'
BY DEF OracleTypes, chainVars, sourceVars

LEMMA LockTypesKept ==
  ASSUME OracleTypes, UNCHANGED blockNumber, OA!Lock \/ LpAccountLock
  PROVE  lockEnd' \in Nat /\ defaultLockPeriod' \in LockPeriods
<1>1. defaultLockPeriod \in Nat /\ lpLockPeriod \in Nat /\ blockNumber \in Nat /\ lockEnd \in Nat
  BY PeriodsAssumption DEF OracleTypes
<1> QED BY <1>1 DEF OracleTypes, OA!Lock, LpAccountLock, OA!LockFor, lockVars

LEMMA ReportTypesChanged ==
  ASSUME ReportTypes, Changed
  PROVE  ReportTypes'
<1>1. sinceChange' \in 0 .. Latency
  BY LatencyAssumption DEF Changed
<1> QED BY <1>1, Zenon DEF ReportTypes, Changed

\* The signed division and the extremes, as MetaPoolToken instantiates them.
LEMMA InstanceMath ==
  /\ \A a, b : MA!TruncDiv(a, b) = TruncDiv(a, b)
  /\ \A a \in Int : MA!Greater(a, 0) \in Nat
  /\ \A a \in Nat, b \in Nat : MA!Lesser(a, b) \in Nat
BY DEF MA!TruncDiv, TruncDiv, MA!Greater, MA!Lesser

LEMMA InstanceSum ==
  ASSUME NEW f
  PROVE  MA!SumFunction(f) = SumFunctionOnSet(f, DOMAIN f)
BY DEF MA!SumFunction, MA!SumFunctionOnSet, MA!FoldFunctionOnSet, MA!MapThenFoldSet,
       SumFunctionOnSet, FoldFunctionOnSet, MapThenFoldSet

\* What a batch that can be priced reads for one of its pools.
LEMMA BatchReadings ==
  ASSUME CycleTypes, NEW b \in Batches, MA!CanPrice(b), NEW p \in MA!Members(b)
  PROVE  /\ p \in Pools /\ b[p] \in Nat \ {0}
         /\ Readable(Tvl) \in Nat /\ Readable(p) \in Nat /\ Scale[p] \in Nat \ {0}
         /\ [q \in Pools |-> Readable(q)][p] = Readable(p)
         /\ MA!ReserveTopUpValue(p) # 0 => Readable(p) # 0
<1>1. p \in Pools /\ b[p] \in Nat \ {0}
  BY AmountsAssumption DEF MA!Members
<1>2. [q \in Pools |-> Readable(q)][p] = Readable(p)
  BY <1>1
<1>3. Readable(Tvl) \in Nat /\ Readable(p) \in Nat
  BY <1>1, <1>2, ReadableType DEF CycleTypes, MA!CanPrice, Feeds
<1>4. MA!ReserveTopUpValue(p) # 0 => Readable(p) # 0
  BY <1>1, <1>2 DEF MA!CanPrice
<1> QED BY <1>1, <1>2, <1>3, <1>4, PricesAssumption

\* The amount that would bring the reserve to its target.
LEMMA RebalanceAmountType ==
  ASSUME CycleTypes, NEW b \in Batches, MA!CanPrice(b), NEW p \in MA!Members(b)
  PROVE  MA!RebalanceAmount(p) \in Int
<1>1. /\ p \in Pools /\ Readable(Tvl) \in Nat /\ Readable(p) \in Nat
      /\ [q \in Pools |-> Readable(q)][p] = Readable(p)
      /\ Scale[p] \in Nat \ {0}
      /\ mApt[p] \in Nat /\ totalSupply \in Nat /\ reserve[p] \in Nat
      /\ reservePercentage[p] \in Nat
  BY BatchReadings DEF CycleTypes, CapitalTypes
<1>2. MA!DeployedValue(p) \in Nat
  BY <1>1, ProductType, DivBounds DEF MA!DeployedValue
<1>3. MA!ValueFromUnderlyerAmount(p, reserve[p]) \in Nat
  BY <1>1, ProductType, DivBounds DEF MA!ValueFromUnderlyerAmount
<1>4. MA!ReserveTopUpValue(p) \in Int
  <2>1. reservePercentage[p] * MA!DeployedValue(p) \in Nat
    BY <1>1, <1>2, ProductType
  <2>2. /\ reservePercentage[p] * MA!DeployedValue(p)
             - 100 * MA!ValueFromUnderlyerAmount(p, reserve[p]) \in Int
        /\ 100 + reservePercentage[p] \in Nat \ {0}
    BY <1>1, <1>3, <2>1
  <2> QED BY <2>2, InstanceMath, TruncDivType DEF MA!ReserveTopUpValue
<1>5. CASE MA!ReserveTopUpValue(p) = 0
  BY <1>5 DEF MA!RebalanceAmount
<1>6. CASE MA!ReserveTopUpValue(p) # 0
  <2>1. Readable(p) \in Nat \ {0}
    BY <1>1, <1>6, BatchReadings
  <2>2. MA!ReserveTopUpValue(p) * Scale[p] \in Int
    BY <1>1, <1>4
  <2> QED BY <1>1, <1>6, <2>1, <2>2, InstanceMath, TruncDivType DEF MA!RebalanceAmount
<1> QED BY <1>5, <1>6

\* The mAPT an amount stands for.
LEMMA DeltaIsNatural ==
  ASSUME CycleTypes, NEW b \in Batches, MA!CanPrice(b), NEW p \in MA!Members(b),
         NEW amount \in Nat
  PROVE  MA!Delta(p, amount) \in Nat
<1>1. /\ Readable(Tvl) \in Nat /\ Readable(p) \in Nat /\ Scale[p] \in Nat \ {0}
      /\ [q \in Pools |-> Readable(q)][p] = Readable(p)
      /\ totalSupply \in Nat /\ Factor \in Nat
  BY BatchReadings, AmountsAssumption DEF CycleTypes, CapitalTypes
<1>2. (amount * Readable(p)) \div Scale[p] \in Nat
  BY <1>1, ProductType, DivBounds
<1>3. \A value \in Nat : MA!MintedFor(value) \in Nat
  BY <1>1, ProductType, DivBounds DEF MA!MintedFor
<1> QED BY <1>1, <1>2, <1>3 DEF MA!Delta

\* What a batch moves, mints and burns for a pool.
LEMMA BatchMoves ==
  ASSUME CycleTypes, NEW b \in Batches, MA!CanPrice(b), NEW p \in MA!Members(b)
  PROVE  /\ MA!FundAmount(p) \in Nat /\ MA!WithdrawAmount(p) \in Nat
         /\ MA!Minted(b, p) \in Nat /\ MA!Funded(b, p) \in Nat
         /\ MA!Burned(b, p) \in Nat /\ MA!Withdrawn(b, p) \in Nat
<1>1. p \in Pools /\ b[p] \in Nat /\ lpBalance[p] \in Nat
  BY BatchReadings DEF CycleTypes, CapitalTypes
<1>2. /\ MA!FundAmount(p) \in Nat
      /\ MA!WithdrawAmount(p) \in Nat
  <2>1. MA!RebalanceAmount(p) \in Int
    BY RebalanceAmountType
  <2>2. -MA!RebalanceAmount(p) \in Int
    BY <2>1
  <2>3. /\ MA!Greater(-MA!RebalanceAmount(p), 0) \in Nat
        /\ MA!Greater(MA!RebalanceAmount(p), 0) \in Nat
    BY <2>1, <2>2, InstanceMath
  <2> QED BY <1>1, <2>3, InstanceMath DEF MA!FundAmount, MA!WithdrawAmount
<1>3. /\ MA!Delta(p, MA!FundAmount(p)) \in Nat
      /\ MA!Delta(p, MA!WithdrawAmount(p)) \in Nat
  BY <1>2, DeltaIsNatural
<1>4. /\ MA!Minted(b, p) \in Nat /\ MA!Burned(b, p) \in Nat
  BY <1>1, <1>3, ProductType DEF MA!Minted, MA!Burned
<1>5. /\ MA!Funded(b, p) \in Nat /\ MA!Withdrawn(b, p) \in Nat
  BY <1>1, <1>2, ProductType DEF MA!Funded, MA!Withdrawn
<1> QED BY <1>2, <1>4, <1>5

\* Funding and withdrawing move tokens between a pool and the LP Account.
LEMMA FundTypes ==
  ASSUME CycleTypes, NEW b \in Batches, FundLpAccount(b)
  PROVE  CapitalTypes'
<1>1. MA!CanPrice(b)
  BY DEF FundLpAccount, MA!FundTokens
<1>2. \A p \in MA!Members(b) :
        /\ MA!Minted(b, p) \in Nat /\ MA!Funded(b, p) \in Nat
        /\ MA!Funded(b, p) <= reserve[p]
  BY <1>1, BatchMoves DEF FundLpAccount, MA!FundTokens, MA!FundCovered
<1>3. mApt' \in [Pools -> Nat]
  BY <1>2, SMT DEF FundLpAccount, MA!FundTokens, CycleTypes, CapitalTypes
<1>4. reserve' \in [Pools -> Nat] /\ lpBalance' \in [Pools -> Nat]
  BY <1>2, SMT DEF FundLpAccount, MA!FundTokens, CycleTypes, CapitalTypes
<1>5. \A p \in Pools : reserve'[p] + lpBalance'[p] = reserve[p] + lpBalance[p]
  BY <1>2, SMT DEF FundLpAccount, MA!FundTokens, CycleTypes, CapitalTypes
<1>6. totalSupply' \in Nat
  BY AmountsAssumption DEF FundLpAccount, MA!FundTokens, MA!Uint
<1>7. registered' \in SUBSET Pools /\ position' = position
      /\ reservePercentage' = reservePercentage
  BY DEF FundLpAccount, MA!FundTokens, MA!RegisterUnderlyers, MA!Members, CycleTypes,
         CapitalTypes, settingVars
<1> QED BY <1>3, <1>4, <1>5, <1>6, <1>7 DEF CycleTypes, CapitalTypes

LEMMA WithdrawTypes ==
  ASSUME CycleTypes, NEW b \in Batches, WithdrawFromLpAccount(b)
  PROVE  CapitalTypes'
<1>1. MA!CanPrice(b)
  BY DEF WithdrawFromLpAccount, MA!WithdrawTokens
<1>2. \A p \in MA!Members(b) :
        /\ MA!Burned(b, p) \in Nat /\ MA!Withdrawn(b, p) \in Nat
        /\ MA!Burned(b, p) <= mApt[p] /\ MA!Withdrawn(b, p) <= lpBalance[p]
  BY <1>1, BatchMoves DEF WithdrawFromLpAccount, MA!WithdrawTokens, MA!WithdrawCovered
<1>3. mApt' \in [Pools -> Nat]
  BY <1>2, SMT DEF WithdrawFromLpAccount, MA!WithdrawTokens, CycleTypes, CapitalTypes
<1>4. reserve' \in [Pools -> Nat] /\ lpBalance' \in [Pools -> Nat]
  BY <1>2, SMT DEF WithdrawFromLpAccount, MA!WithdrawTokens, CycleTypes, CapitalTypes
<1>5. \A p \in Pools : reserve'[p] + lpBalance'[p] = reserve[p] + lpBalance[p]
  BY <1>2, SMT DEF WithdrawFromLpAccount, MA!WithdrawTokens, CycleTypes, CapitalTypes
<1>6. totalSupply' \in Nat
  BY AmountsAssumption DEF WithdrawFromLpAccount, MA!WithdrawTokens, MA!Uint
<1>7. registered' \in SUBSET Pools /\ position' = position
      /\ reservePercentage' = reservePercentage
  BY DEF WithdrawFromLpAccount, MA!WithdrawTokens, MA!RegisterUnderlyers, MA!Members,
         CycleTypes, CapitalTypes, settingVars
<1> QED BY <1>3, <1>4, <1>5, <1>6, <1>7 DEF CycleTypes, CapitalTypes

LEMMA CycleTypesNext == CycleTypes /\ [Next]_vars => CycleTypes'
<1> SUFFICES ASSUME CycleTypes, [Next]_vars PROVE CycleTypes'
  OBVIOUS
<1>0. OracleTypes /\ CapitalTypes /\ ReportTypes
  BY DEF CycleTypes
\* Operations that take a lock.
<1>a. ASSUME UNCHANGED <<chainVars, settingVars>>, OA!Lock \/ LpAccountLock, Changed
      PROVE  OracleTypes' /\ ReportTypes'
  <2>1. /\ UNCHANGED <<chainVars, sourceVars, submitted>>
        /\ blockNumber' = blockNumber /\ lpLockPeriod' \in LockPeriods
    BY <1>0, <1>a DEF chainVars, settingVars, OracleTypes
  <2> QED BY <1>0, <1>a, <2>1, LockTypesKept, OracleTypesKept, ReportTypesChanged
\* Steps that leave the adapter and its clock alone.
<1>b. ASSUME UNCHANGED <<lockVars, chainVars, sourceVars, submitted, lpLockPeriod>>
      PROVE  OracleTypes'
  <2>1. /\ lockEnd' \in Nat /\ defaultLockPeriod' \in LockPeriods
        /\ lpLockPeriod' \in LockPeriods
    BY <1>0, <1>b DEF lockVars, OracleTypes
  <2> QED BY <1>0, <1>b, <2>1, OracleTypesKept
<1>c. ASSUME UNCHANGED reportVars PROVE ReportTypes'
  BY <1>0, <1>c, Zenon DEF ReportTypes, reportVars
<1>1. ASSUME NEW b \in Batches, FundLpAccount(b) PROVE CycleTypes'
  BY <1>0, <1>1, <1>a, FundTypes DEF FundLpAccount, CycleTypes
<1>2. ASSUME NEW b \in Batches, WithdrawFromLpAccount(b) PROVE CycleTypes'
  BY <1>0, <1>2, <1>a, WithdrawTypes DEF WithdrawFromLpAccount, CycleTypes
<1>3. ASSUME NEW p \in Pools, RegisterOrRemoveErc20Token(p) PROVE CycleTypes'
  <2>1. CapitalTypes'
    BY <1>0, <1>3 DEF RegisterOrRemoveErc20Token, CapitalTypes, mAptVars, settingVars
  <2> QED BY <1>0, <1>3, <1>a, <2>1 DEF RegisterOrRemoveErc20Token, CycleTypes
<1>4. CASE LpAccountOperation
  <2>1. CapitalTypes'
    <3>1. lpBalance' \in [Pools -> Nat] /\ position' \in Nat
      BY <1>4, AmountsAssumption DEF LpAccountOperation
    <3> QED BY <1>0, <1>4, <3>1 DEF LpAccountOperation, CapitalTypes, mAptVars, settingVars
  <2> QED BY <1>0, <1>4, <1>a, <2>1 DEF LpAccountOperation, CycleTypes
<1>5. ASSUME NEW p \in Pools, EmergencyExit(p) PROVE CycleTypes'
  <2>1. CapitalTypes'
    BY <1>0, <1>5, AmountsAssumption DEF EmergencyExit, CapitalTypes, mAptVars, settingVars
  <2>2. OracleTypes'
    BY <1>5, <1>b DEF EmergencyExit, settingVars
  <2>3. ReportTypes'
    <3>1. sinceChange' \in 0 .. Latency
      BY <1>5, LatencyAssumption DEF EmergencyExit
    <3> QED BY <1>0, <1>5, <3>1, Zenon DEF EmergencyExit, ReportTypes
  <2> QED BY <2>1, <2>2, <2>3 DEF CycleTypes
<1>6. ASSUME NEW p \in Pools, SetReservePercentage(p) PROVE CycleTypes'
  <2>1. CapitalTypes'
    <3>1. reservePercentage' \in [Pools -> Nat]
      BY <1>0, <1>6, AmountsAssumption DEF SetReservePercentage, CapitalTypes
    <3> QED BY <1>0, <1>6, <3>1 DEF SetReservePercentage, CapitalTypes, mAptVars, capitalVars
  <2> QED BY <1>6, <1>b, <1>c, <2>1 DEF SetReservePercentage, CycleTypes
<1>7. ASSUME NEW p \in Pools, DepositOrRedeem(p) PROVE CycleTypes'
  <2>1. CapitalTypes'
    <3>1. PICK n \in Reserves : reserve' = [reserve EXCEPT ![p] = n]
      BY <1>7 DEF DepositOrRedeem
    <3>2. n \in Nat
      BY AmountsAssumption
    <3>3. reserve' \in [Pools -> Nat]
          /\ \A q \in Pools : reserve'[q] + lpBalance[q] <= MaxUnderlyer
      BY <1>0, <1>7, <3>1, <3>2 DEF DepositOrRedeem, CapitalTypes
    <3> QED BY <1>0, <1>7, <3>3 DEF DepositOrRedeem, CapitalTypes, mAptVars, settingVars
  <2> QED BY <1>7, <1>b, <1>c, <2>1 DEF DepositOrRedeem, CycleTypes, settingVars
<1>8. CASE EmergencyUnlock
  <2>1. OracleTypes'
    <3>1. /\ lockEnd' \in Nat /\ defaultLockPeriod' \in LockPeriods
          /\ lpLockPeriod' \in LockPeriods
      BY <1>0, <1>8 DEF EmergencyUnlock, OA!EmergencyUnlock, OracleTypes, settingVars
    <3> QED BY <1>0, <1>8, <3>1, OracleTypesKept DEF EmergencyUnlock, settingVars
  <2>2. ReportTypes'
    <3>1. waived' \in BOOLEAN
      BY <1>0, <1>8, Zenon DEF EmergencyUnlock, ReportTypes
    <3> QED BY <1>0, <1>8, <3>1, Zenon DEF EmergencyUnlock, ReportTypes
  <2>3. UNCHANGED mAptVars /\ UNCHANGED capitalVars /\ UNCHANGED reservePercentage
    BY <1>8 DEF EmergencyUnlock, settingVars
  <2> QED BY <1>0, <2>1, <2>2, <2>3, CapitalTypesKept DEF CycleTypes
<1>9. CASE EmergencySetOrUnsetTvl
  <2>1. /\ UNCHANGED <<chainVars, sourceVars, lpLockPeriod>>
        /\ UNCHANGED mAptVars /\ UNCHANGED capitalVars /\ UNCHANGED reservePercentage
        /\ UNCHANGED reportVars
        /\ UNCHANGED lockVars
    BY <1>9 DEF EmergencySetOrUnsetTvl, OA!EmergencySetValue, OA!EmergencyUnsetValue,
                OA!lockVars, lockVars
  <2>2. /\ submitted' \in [Feeds -> [value : Nat, periodEnd : Nat]]
        /\ \A p \in Pools : submitted'[p].periodEnd = 0
    <3>0. Tvl \in Feeds /\ \A p \in Pools : p # Tvl /\ p \in Feeds
      BY PoolsAssumption DEF Feeds
    <3>1. ASSUME NEW s \in Overrides, OA!EmergencySetValue(s[1], s[2], s[3])
          PROVE  /\ submitted' \in [Feeds -> [value : Nat, periodEnd : Nat]]
                 /\ \A p \in Pools : submitted'[p].periodEnd = 0
      <4>1. s[1] = Tvl /\ s[2] \in Nat /\ s[3] \in Nat
        BY ReadsAssumption
      <4>2. blockNumber + s[3] \in Nat
        BY <1>0, <4>1 DEF OracleTypes
      <4>3. submitted' = [submitted EXCEPT ![Tvl] =
                            [value |-> s[2], periodEnd |-> blockNumber + s[3]]]
        BY <3>1, <4>1 DEF OA!EmergencySetValue
      <4> QED BY <1>0, <3>0, <4>1, <4>2, <4>3 DEF OracleTypes
    <3>2. ASSUME OA!EmergencyUnsetValue(Tvl)
          PROVE  /\ submitted' \in [Feeds -> [value : Nat, periodEnd : Nat]]
                 /\ \A p \in Pools : submitted'[p].periodEnd = 0
      BY <1>0, <3>0, <3>2 DEF OA!EmergencyUnsetValue, OracleTypes
    <3> QED BY <1>9, <3>1, <3>2 DEF EmergencySetOrUnsetTvl
  <2>3. OracleTypes'
    BY <1>0, <2>1, <2>2 DEF OracleTypes, chainVars, sourceVars, lockVars
  <2> QED BY <1>0, <1>c, <2>1, <2>3, CapitalTypesKept DEF CycleTypes
<1>10. CASE SetPeriods
  <2>1. /\ UNCHANGED <<chainVars, sourceVars, submitted>>
        /\ UNCHANGED mAptVars /\ UNCHANGED capitalVars /\ UNCHANGED reservePercentage
        /\ UNCHANGED reportVars
        /\ lockEnd' \in Nat /\ defaultLockPeriod' \in LockPeriods
        /\ lpLockPeriod' \in LockPeriods
    BY <1>0, <1>10 DEF SetPeriods, OA!SetDefaultLockPeriod, lockVars, OracleTypes
  <2> QED BY <1>0, <1>c, <2>1, CapitalTypesKept, OracleTypesKept DEF CycleTypes
<1>11. CASE Observe
  <2>1. /\ UNCHANGED <<lockVars, chainVars, sourceVars, submitted, lpLockPeriod>>
        /\ UNCHANGED mAptVars /\ UNCHANGED capitalVars /\ UNCHANGED reservePercentage
    BY <1>11 DEF Observe, settingVars
  <2>2. ReportTypes'
    BY <1>0, <1>11, ActualTvlType, Zenon DEF Observe, ReportTypes
  <2> QED BY <1>0, <1>b, <2>1, <2>2, CapitalTypesKept DEF CycleTypes
<1>12. CASE Submit
  <2>1. /\ UNCHANGED <<lockVars, sourceVars, submitted, lpLockPeriod>>
        /\ UNCHANGED mAptVars /\ UNCHANGED capitalVars /\ UNCHANGED reservePercentage
        /\ UNCHANGED <<blockNumber, timestamp>>
        /\ pending \in Nat /\ pending' = None
        /\ answer' = [answer EXCEPT ![Tvl] = [price |-> pending, updatedAt |-> timestamp]]
    BY <1>0, <1>12 DEF Submit, OA!Report, settingVars, ReportTypes
  <2>2. OracleTypes'
    <3>1. \A p \in Pools : p # Tvl /\ p \in Feeds
      BY PoolsAssumption DEF Feeds
    <3>2. /\ answer' \in [Feeds -> [price : Nat, updatedAt : Nat]]
          /\ \A p \in Pools : answer'[p].price = Price[p]
      BY <1>0, <2>1, <3>1 DEF OracleTypes, Feeds
    <3> QED BY <1>0, <2>1, <3>2 DEF OracleTypes, sourceVars, lockVars
  <2>3. ReportTypes'
    <3>1. waived' \in BOOLEAN
      BY <1>0, <1>12, Zenon DEF Submit, ReportTypes
    <3> QED BY <1>0, <1>12, <2>1, <3>1, Zenon DEF Submit, ReportTypes
  <2> QED BY <1>0, <2>1, <2>2, <2>3, CapitalTypesKept DEF CycleTypes
<1>13. CASE NextBlock
  <2>1. /\ UNCHANGED <<lockVars, sourceVars, submitted, lpLockPeriod, answer>>
        /\ UNCHANGED mAptVars /\ UNCHANGED capitalVars /\ UNCHANGED reservePercentage
        /\ UNCHANGED <<pending, waived>>
        /\ blockNumber' = blockNumber + 1 /\ timestamp' = timestamp + 0
        /\ sinceChange' = IF sinceChange < Latency THEN sinceChange + 1 ELSE Latency
    BY <1>13 DEF NextBlock, OA!NextBlock, settingVars
  <2>2. OracleTypes'
    BY <1>0, <2>1 DEF OracleTypes, lockVars, sourceVars
  <2>3. ReportTypes'
    <3>1. sinceChange' \in 0 .. Latency
      BY <1>0, <2>1, LatencyAssumption DEF ReportTypes
    <3> QED BY <1>0, <2>1, <3>1, Zenon DEF ReportTypes
  <2> QED BY <1>0, <2>1, <2>2, <2>3, CapitalTypesKept DEF CycleTypes
<1>14. CASE UNCHANGED vars
  BY <1>0, <1>14, <1>b, <1>c, CapitalTypesKept DEF CycleTypes, vars, settingVars
<1> QED BY <1>1, <1>2, <1>3, <1>4, <1>5, <1>6, <1>7, <1>8, <1>9, <1>10, <1>11, <1>12, <1>13,
           <1>14
        DEF Next

LEMMA CycleTypesAlways == Spec => []CycleTypes
BY CycleTypesInit, CycleTypesNext, PTL DEF Spec

\* Type correctness of the composition: through any interleaving of
\* rebalances, strategies, reports and emergency calls, every balance stays a
\* natural number and every successful read of the adapter is an amount.
THEOREM CycleTypeCorrect == Spec => []TypeOK
BY CycleTypesAlways, CycleTypesSuffice, PTL

-----------------------------------------------------------------------------
(* The cycle implements MetaPoolToken, with its readings defined by the      *)
(* adapter: an operation on the capital makes every read fail at once, and   *)
(* whatever else the adapter does is one of the moves of the oracle.         *)

\* A lock of a configured period hides every value in the block it is taken in.
LEMMA LockHidesReadings ==
  ASSUME OracleTypes, UNCHANGED blockNumber, OA!Lock \/ LpAccountLock
  PROVE  MA!LockOracle
<1>1. /\ defaultLockPeriod \in Nat \ {0} /\ lpLockPeriod \in Nat \ {0}
      /\ blockNumber \in Nat /\ lockEnd \in Nat
  BY PeriodsAssumption, LatencyAssumption DEF OracleTypes
<1>2. blockNumber' < lockEnd'
  <2>1. CASE OA!Lock
    BY <1>1, <2>1 DEF OA!Lock
  <2>2. CASE LpAccountLock
    BY <1>1, <2>2 DEF LpAccountLock, OA!LockFor, lockVars
  <2> QED BY <2>1, <2>2
<1>3. OA!IsLocked'
  BY <1>2 DEF OA!IsLocked
<1>4. \A f : Readable(f)' = Unreadable
  BY <1>3 DEF Readable, OA!IsReadable
<1>5. Readable(Tvl)' = Unreadable
  BY <1>4
<1>6. [p \in Pools |-> Readable(p)]' = [p \in Pools |-> Unreadable]
  BY <1>4
<1> QED BY <1>5, <1>6 DEF MA!LockOracle

\* Reads depend on nothing else.
LEMMA ReadingsKept ==
  ASSUME UNCHANGED <<lockEnd, chainlinkStalePeriod, source, submitted, answer,
                     blockNumber, timestamp, totalSupply>>
  PROVE  UNCHANGED MA!oracleVars
<1>1. \A f : Readable(f)' = Readable(f)
  BY DEF Readable, OA!IsReadable, OA!IsLocked, OA!HasOverride, OA!SourceIsUsable,
         OA!ZeroIsValid, OA!Reading
<1>2. Readable(Tvl)' = Readable(Tvl)
  BY <1>1
<1>3. [p \in Pools |-> Readable(p)]' = [p \in Pools |-> Readable(p)]
  BY <1>1
<1> QED BY <1>2, <1>3 DEF MA!oracleVars

\* Whatever the adapter does between two operations moves the readings only.
LEMMA AdapterMoves ==
  ASSUME OracleTypes', UNCHANGED mAptVars, UNCHANGED capitalVars,
         UNCHANGED reservePercentage
  PROVE  MA!OracleMoves
<1>1. /\ Readable(Tvl)' \in Nat \cup {Unreadable}
      /\ \A p \in Pools : Readable(p)' \in Nat \cup {Unreadable}
  <2>1. \A f \in Feeds : submitted'[f].value \in Nat /\ answer'[source'[f]].price \in Nat
    BY DEF OracleTypes
  <2>2. \A f \in Feeds : Readable(f)' \in Nat \cup {Unreadable}
    BY <2>1 DEF Readable, OA!Reading
  <2> QED BY <2>2 DEF Feeds
<1>2. [p \in Pools |-> Readable(p)]' \in [Pools -> Nat \cup {Unreadable}]
  BY <1>1
<1> QED BY <1>1, <1>2
        DEF MA!OracleMoves, MA!OracleAnswers, MA!mAptVars, MA!tokenVars, MA!poolVars,
            mAptVars, capitalVars

\* A pool's Pausable flag stands still in the cycle.
LEMMA RefinementInit == Init => MA!Init
<1> SUFFICES ASSUME Init PROVE MA!Init
  OBVIOUS
<1>1. CycleTypes
  BY CycleTypesInit
<1>2. Readable(Tvl) = 0
  <2>1. /\ Tvl \in Feeds /\ source[Tvl] = Tvl /\ source[Tvl] # NoSource
        /\ answer[Tvl].price = ActualTvl /\ answer[Tvl].updatedAt = 0
    BY PoolsAssumption DEF Init, Feeds
  <2>2. ActualTvl = 0
    <3>1. DOMAIN [p \in registered |-> ValueOf(p, lpBalance[p])] = {}
      BY DEF Init
    <3>2. SumFunction([p \in registered |-> ValueOf(p, lpBalance[p])]) = 0
      BY <3>1, FS_EmptySet, SumEquation DEF SumFunction
    <3> QED BY <3>2 DEF Init, ActualTvl
  <2>3. /\ timestamp = 0 /\ chainlinkStalePeriod = 1 /\ totalSupply = 0
        /\ lockEnd = 0 /\ blockNumber = FirstBlock /\ submitted[Tvl].periodEnd = 0
    BY <2>1 DEF Init
  <2>4. ~OA!IsLocked /\ ~OA!HasOverride(Tvl)
    BY <2>3, BlocksAssumption DEF OA!IsLocked, OA!HasOverride
  <2>5. OA!SourceIsUsable(source[Tvl])
    BY <2>1, <2>2, <2>3 DEF OA!SourceIsUsable
  <2> QED BY <2>1, <2>2, <2>3, <2>4, <2>5
          DEF Readable, OA!IsReadable, OA!ZeroIsValid, OA!Reading
<1>3. [p \in Pools |-> Readable(p)] \in [Pools -> Nat \cup {Unreadable}]
  BY <1>1, ReadableType DEF CycleTypes, Feeds
<1>4. reserve \in [Pools -> 0 .. MaxUnderlyer]
  BY AmountsAssumption DEF Init
<1> QED BY <1>2, <1>3, <1>4 DEF Init, MA!Init

LEMMA RefinementStep ==
  ASSUME CycleTypes, CycleTypes', [Next]_vars
  PROVE  [MA!Next]_(MA!vars)
<1>0. OracleTypes /\ CapitalTypes /\ OracleTypes' /\ CapitalTypes'
  BY DEF CycleTypes
<1>1. ASSUME NEW b \in Batches, FundLpAccount(b) PROVE MA!Next
  <2>1. MA!LockOracle
    BY <1>0, <1>1, LockHidesReadings DEF FundLpAccount, chainVars
  <2> QED BY <1>1, <2>1 DEF FundLpAccount, MA!FundLpAccount, MA!Next
<1>2. ASSUME NEW b \in Batches, WithdrawFromLpAccount(b) PROVE MA!Next
  <2>1. MA!LockOracle
    BY <1>0, <1>2, LockHidesReadings DEF WithdrawFromLpAccount, chainVars
  <2> QED BY <1>2, <2>1 DEF WithdrawFromLpAccount, MA!WithdrawFromLpAccount, MA!Next
<1>3. ASSUME NEW p \in Pools, RegisterOrRemoveErc20Token(p) PROVE MA!Next
  <2>1. MA!LockOracle
    BY <1>0, <1>3, LockHidesReadings DEF RegisterOrRemoveErc20Token, chainVars
  <2>2. MA!RegisterOrRemoveErc20Token(p)
    BY <1>3, <2>1
       DEF RegisterOrRemoveErc20Token, MA!RegisterOrRemoveErc20Token, mAptVars, settingVars,
           MA!mAptVars, MA!tokenVars, MA!poolVars
  <2> QED BY <2>2 DEF MA!Next
<1>4. CASE LpAccountOperation
  <2>1. MA!LockOracle
    BY <1>0, <1>4, LockHidesReadings DEF LpAccountOperation, chainVars
  <2>2. /\ lpBalance' \in [Pools -> 0 .. MaxUnderlyer]
        /\ \A p \in Pools : lpBalance'[p] + reserve[p] <= MaxUnderlyer
    BY <1>0, <1>4 DEF LpAccountOperation, CapitalTypes
  <2>3. MA!LpAccountMoves
    BY <1>4, <2>1, <2>2
       DEF LpAccountOperation, MA!LpAccountMoves, mAptVars, settingVars, MA!mAptVars,
           MA!poolVars
  <2> QED BY <2>3 DEF MA!Next
<1>5. ASSUME NEW p \in Pools, EmergencyExit(p) PROVE MA!Next
  <2>1. UNCHANGED MA!oracleVars
    BY <1>5, ReadingsKept
       DEF EmergencyExit, lockVars, chainVars, mAptVars, settingVars, sourceVars
  <2>2. /\ lpBalance' \in [Pools -> 0 .. MaxUnderlyer]
        /\ \A q \in Pools : lpBalance'[q] + reserve[q] <= MaxUnderlyer
    <3>1. \A q \in Pools : /\ lpBalance'[q] \in Nat /\ reserve'[q] \in Nat
                           /\ reserve'[q] + lpBalance'[q] <= MaxUnderlyer
      BY <1>0 DEF CapitalTypes
    <3>2. reserve' = reserve
      BY <1>5 DEF EmergencyExit
    <3>3. \A q \in Pools : /\ lpBalance'[q] \in 0 .. MaxUnderlyer
                           /\ lpBalance'[q] + reserve[q] <= MaxUnderlyer
      BY <3>1, <3>2, AmountsAssumption
    <3> QED BY <1>0, <3>3 DEF CapitalTypes
  <2>3. MA!LpAccountMoves
    BY <1>5, <2>1, <2>2
       DEF EmergencyExit, MA!LpAccountMoves, mAptVars, settingVars, MA!mAptVars, MA!poolVars
  <2> QED BY <2>3 DEF MA!Next
<1>6. ASSUME NEW p \in Pools, SetReservePercentage(p) PROVE MA!Next
  <2>1. UNCHANGED MA!oracleVars
    BY <1>6, ReadingsKept
       DEF SetReservePercentage, lockVars, chainVars, mAptVars, sourceVars
  <2>2. MA!SetReservePercentage(p)
    BY <1>6, <2>1
       DEF SetReservePercentage, MA!SetReservePercentage, mAptVars, capitalVars,
           MA!mAptVars, MA!tokenVars
  <2> QED BY <2>2 DEF MA!Next
<1>7. ASSUME NEW p \in Pools, DepositOrRedeem(p) PROVE MA!Next
  <2>1. UNCHANGED MA!oracleVars
    BY <1>7, ReadingsKept
       DEF DepositOrRedeem, lockVars, chainVars, mAptVars, settingVars, sourceVars
  <2>2. PICK n \in Reserves : reserve' = [reserve EXCEPT ![p] = n]
    BY <1>7 DEF DepositOrRedeem
  <2>3. n \in 0 .. MaxUnderlyer /\ n + lpBalance[p] <= MaxUnderlyer
    <3>1. reserve'[p] = n
      BY <1>0, <2>2 DEF CapitalTypes
    <3> QED BY <1>7, <3>1, AmountsAssumption DEF DepositOrRedeem
  <2>4. MA!ReserveMoves(p)
    BY <1>7, <2>1, <2>2, <2>3
       DEF DepositOrRedeem, MA!ReserveMoves, mAptVars, settingVars, MA!mAptVars, MA!poolVars
  <2> QED BY <2>4 DEF MA!Next
<1>8. ASSUME EmergencyUnlock \/ EmergencySetOrUnsetTvl \/ Submit \/ NextBlock
      PROVE  MA!Next
  <2>1. UNCHANGED mAptVars /\ UNCHANGED capitalVars /\ UNCHANGED reservePercentage
    BY <1>8 DEF EmergencyUnlock, EmergencySetOrUnsetTvl, Submit, NextBlock, settingVars
  <2> QED BY <1>0, <2>1, AdapterMoves DEF MA!Next
<1>9. ASSUME SetPeriods \/ Observe \/ UNCHANGED vars
      PROVE  UNCHANGED MA!vars
  <2>1. /\ UNCHANGED <<lockEnd, chainVars, sourceVars, submitted>>
        /\ UNCHANGED mAptVars /\ UNCHANGED capitalVars /\ UNCHANGED reservePercentage
    BY <1>9 DEF SetPeriods, OA!SetDefaultLockPeriod, Observe, vars, lockVars, settingVars
  <2>2. UNCHANGED MA!oracleVars
    BY <2>1, ReadingsKept DEF chainVars, sourceVars, mAptVars
  <2> QED BY <2>1, <2>2
          DEF MA!vars, MA!mAptVars, MA!tokenVars, MA!poolVars, mAptVars, capitalVars
<1> QED BY <1>1, <1>2, <1>3, <1>4, <1>5, <1>6, <1>7, <1>8, <1>9 DEF Next

\* Every behaviour of the whole cycle is a behaviour of MetaPoolToken, so what
\* is proved of MetaPoolToken holds of mAPT in the cycle: the environment it was
\* given is broad enough for the adapter's locks, overrides and reports.
THEOREM CycleIsMetaPoolToken == Spec => ImplementsMetaPoolToken
BY RefinementInit, RefinementStep, CycleTypesAlways, PTL DEF Spec, ImplementsMetaPoolToken, MA!Spec

-----------------------------------------------------------------------------
(* What mAPT is worth.  Per pool, what a batch changes of the value deployed *)
(* and of the mAPT differs by rounding only; the sums over the pools carry   *)
(* that to the TVL and the supply.                                           *)

\* What a pool's underlyer contributes to the TVL.
Contribution(p) == IF p \in registered THEN ValueOf(p, lpBalance[p]) ELSE 0

LEMMA TvlOverPools ==
  ASSUME NEW r \in SUBSET Pools, NEW held \in [Pools -> Nat]
  PROVE  LET worth == [p \in r |-> ValueOf(p, held[p])]
             due   == [p \in Pools |-> IF p \in r THEN ValueOf(p, held[p]) ELSE 0]
         IN  SumFunction(worth) = SumFunctionOnSet(due, Pools)
<1> DEFINE worth == [p \in r |-> ValueOf(p, held[p])]
           due == [p \in Pools |-> IF p \in r THEN ValueOf(p, held[p]) ELSE 0]
<1>1. /\ \A p \in Pools : due[p] \in Int
      /\ \A p \in Pools \ r : due[p] = 0
      /\ \A p \in r : due[p] \in Int /\ worth[p] = due[p]
      /\ DOMAIN worth = r
  BY ValueOfType
<1>2. IsFiniteSet(r)
  BY PoolsAssumption, FS_Subset
<1> HIDE DEF worth, due
<1>3. SumFunctionOnSet(due, Pools) = SumFunctionOnSet(due, r)
  BY <1>1, PoolsAssumption, SumSupport
<1>4. SumFunctionOnSet(due, r) = SumFunctionOnSet(worth, r)
  BY <1>1, <1>2, SumEqual
<1>5. SumFunction(worth) = SumFunctionOnSet(due, Pools)
  BY <1>1, <1>3, <1>4 DEF SumFunction
<1> QED BY <1>5 DEF worth, due

\* Values of parts add up to the value of the whole, or one less.
LEMMA ValueOfParts ==
  ASSUME NEW p \in Pools, NEW a \in Nat, NEW b \in Nat
  PROVE  /\ ValueOf(p, a) + ValueOf(p, b) <= ValueOf(p, a + b)
         /\ ValueOf(p, a + b) <= ValueOf(p, a) + ValueOf(p, b) + 1
<1>1. /\ Price[p] \in Nat /\ Scale[p] \in Nat \ {0}
      /\ Price[p] * a \in Nat /\ Price[p] * b \in Nat
  BY PricesAssumption, ProductType
<1>2. Price[p] * (a + b) = Price[p] * a + Price[p] * b
  BY <1>1
<1> QED BY <1>1, <1>2, DivOfSum DEF ValueOf

\* Where Chainlink is read, prices are its prices and the TVL the actual one.
LEMMA PriceRead ==
  ASSUME CycleTypes, NEW p \in Pools, Readable(p) # Unreadable
  PROVE  Readable(p) = Price[p]
<1>1. p \in Feeds /\ submitted[p].periodEnd = 0 /\ answer[p].price = Price[p]
      /\ source[p] = p /\ blockNumber \in Nat
  BY DEF CycleTypes, OracleTypes, Feeds
<1>2. ~OA!HasOverride(p)
  BY <1>1 DEF OA!HasOverride
<1> QED BY <1>1, <1>2 DEF Readable, OA!Reading

LEMMA TvlRead ==
  ASSUME CycleTypes, TvlReadIsActual, totalSupply > 0, ~OA!HasOverride(Tvl), ~waived,
         Readable(Tvl) # Unreadable
  PROVE  Readable(Tvl) = ActualTvl /\ ActualTvl \in Nat \ {0}
<1>1. OA!IsReadable(Tvl) /\ Readable(Tvl) = OA!Reading(Tvl)
  BY DEF Readable
<1>2. OA!Reading(Tvl) = ActualTvl
  BY <1>1 DEF TvlReadIsActual
<1>3. answer[source[Tvl]].price > 0 \/ OA!ZeroIsValid(Tvl)
  BY <1>1 DEF OA!IsReadable
<1>4. OA!Reading(Tvl) > 0
  BY <1>3 DEF OA!ZeroIsValid, OA!Reading
<1> QED BY <1>1, <1>2, <1>4, ActualTvlType DEF CycleTypes

\* The mAPT minted or burned for an amount is its share of the actual TVL.
LEMMA DeltaIsShare ==
  ASSUME CycleTypes, TvlReadIsActual, totalSupply > 0, ~OA!HasOverride(Tvl), ~waived,
         NEW b \in Batches, MA!CanPrice(b), NEW p \in MA!Members(b), NEW amount \in Nat
  PROVE  /\ ActualTvl \in Nat \ {0}
         /\ MA!Delta(p, amount) \in Nat
         /\ MA!Delta(p, amount) * ActualTvl <= ValueOf(p, amount) * totalSupply
         /\ ValueOf(p, amount) * totalSupply < (MA!Delta(p, amount) + 1) * ActualTvl
<1>1. /\ p \in Pools /\ Readable(Tvl) \in Nat /\ Readable(p) \in Nat
      /\ [q \in Pools |-> Readable(q)][p] = Readable(p)
  BY BatchReadings
<1>2. Readable(p) = Price[p]
  BY <1>1, PriceRead, ReadsAssumption
<1>3. Readable(Tvl) = ActualTvl /\ ActualTvl \in Nat \ {0}
  BY <1>1, TvlRead, ReadsAssumption
<1>4. totalSupply \in Nat \ {0} /\ Price[p] \in Nat
  BY <1>1, PricesAssumption DEF CycleTypes, CapitalTypes
<1>5. (amount * Readable(p)) \div Scale[p] = ValueOf(p, amount)
  <2>1. amount * Readable(p) = Price[p] * amount
    BY <1>2, <1>4
  <2> QED BY <2>1 DEF ValueOf
<1>6. MA!Delta(p, amount) = (ValueOf(p, amount) * totalSupply) \div ActualTvl
  BY <1>1, <1>3, <1>4, <1>5 DEF MA!Delta, MA!MintedFor
<1>7. ValueOf(p, amount) * totalSupply \in Nat
  BY <1>1, <1>4, ValueOfType, ProductType
<1> QED BY <1>3, <1>6, <1>7, DivBounds

\* One pool's part of a step: what it contributes to the TVL changes by what
\* its new mAPT is worth, up to the rounding of a payment.
PoolKeepsWorth(p) ==
  LET minted   == mApt'[p] - mApt[p]
      rounding == IF mApt'[p] < mApt[p] THEN ActualTvl + totalSupply ELSE 0
  IN  ActualTvl * minted + totalSupply * Contribution(p)
        <= totalSupply * Contribution(p)' + rounding

MintedSum == SumFunctionOnSet([p \in Pools |-> mApt'[p] - mApt[p]], Pools)

\* The last step of the summation, about numbers.
LEMMA WorthOfSums ==
  ASSUME NEW t \in Nat, NEW s \in Nat, NEW pos \in Nat, NEW before \in Int, NEW after \in Int,
         NEW minted \in Int, NEW paid \in Nat,
         t = pos + before,
         t * minted + s * before <= s * after + (t + s) * paid
  PROVE  t * (s + minted) <= (pos + after) * s + paid * (t + s)
<1> DEFINE x == t * minted
           y == s * before
           z == s * after
           w == paid * (t + s)
           v == s * pos
<1>1. x \in Int /\ y \in Int /\ z \in Int /\ w \in Int /\ v \in Int
  OBVIOUS
<1>2. (t + s) * paid = w
  OBVIOUS
<1>3. (pos + after) * s = v + z
  OBVIOUS
<1>4. t * s = v + y
  <2>1. t * s = s * t
    OBVIOUS
  <2>2. s * (pos + before) = s * pos + s * before
    OBVIOUS
  <2> QED BY <2>1, <2>2
<1>5. t * (s + minted) = t * s + x
  OBVIOUS
<1>6. x + y <= z + w
  BY <1>2
<1> HIDE DEF x, y, z, w, v
<1>7. t * (s + minted) = v + y + x
  BY <1>1, <1>4, <1>5
<1>8. v + y + x <= v + z + w
  BY <1>1, <1>6
<1> QED BY <1>1, <1>3, <1>7, <1>8 DEF w

LEMMA WorthAddsUp ==
  ASSUME CapitalTypes, CapitalTypes', position' = position,
         totalSupply' = totalSupply + MintedSum,
         \A p \in Pools : PoolKeepsWorth(p)
  PROVE  LET paid == Cardinality({p \in Pools : mApt'[p] < mApt[p]})
         IN  ActualTvl' * totalSupply + paid * (ActualTvl + totalSupply)
               >= ActualTvl * totalSupply'
<1> DEFINE Out == {p \in Pools : mApt'[p] < mApt[p]}
           t == ActualTvl
           s == totalSupply
           before == [p \in Pools |-> IF p \in registered THEN ValueOf(p, lpBalance[p]) ELSE 0]
           after == [p \in Pools |-> IF p \in registered' THEN ValueOf(p, lpBalance'[p]) ELSE 0]
           minted == [p \in Pools |-> mApt'[p] - mApt[p]]
           one == [p \in Pools |-> IF p \in Out THEN 1 ELSE 0]
           tm == [p \in Pools |-> t * minted[p]]
           sb == [p \in Pools |-> s * before[p]]
           sa == [p \in Pools |-> s * after[p]]
           r == [p \in Pools |-> (t + s) * one[p]]
           left == [p \in Pools |-> tm[p] + sb[p]]
           right == [p \in Pools |-> sa[p] + r[p]]
           Sum(f) == SumFunctionOnSet(f, Pools)
<1>1. t \in Nat /\ s \in Nat /\ position \in Nat
  BY ActualTvlType DEF CapitalTypes
<1>2. \A p \in Pools : /\ before[p] \in Int /\ after[p] \in Int /\ minted[p] \in Int
                       /\ one[p] \in Int
  BY ValueOfType DEF CapitalTypes
<1>3. /\ t = position + Sum(before)
      /\ ActualTvl' = position + Sum(after)
  <2>1. /\ registered \in SUBSET Pools /\ lpBalance \in [Pools -> Nat]
        /\ registered' \in SUBSET Pools /\ lpBalance' \in [Pools -> Nat]
    BY DEF CapitalTypes
  <2>2. /\ SumFunction([p \in registered |-> ValueOf(p, lpBalance[p])]) = Sum(before)
        /\ SumFunction([p \in registered' |-> ValueOf(p, lpBalance'[p])]) = Sum(after)
    BY <2>1, TvlOverPools
  <2>3. ActualTvl' = position' + SumFunction([p \in registered' |-> ValueOf(p, lpBalance'[p])])
    BY DEF ActualTvl, ValueOf
  <2> HIDE DEF before, after
  <2> QED BY <2>2, <2>3 DEF ActualTvl
<1>4. \A p \in Pools : left[p] <= right[p]
  <2> SUFFICES ASSUME NEW p \in Pools PROVE left[p] <= right[p]
    OBVIOUS
  <2>1. before[p] = Contribution(p) /\ after[p] = Contribution(p)'
    BY DEF Contribution, ValueOf
  <2>2. r[p] = IF mApt'[p] < mApt[p] THEN t + s ELSE 0
    <3>1. CASE mApt'[p] < mApt[p]
      <4>1. one[p] = 1
        BY <3>1
      <4> HIDE DEF t, s, one
      <4> QED BY <1>1, <3>1, <4>1
    <3>2. CASE ~(mApt'[p] < mApt[p])
      <4>1. one[p] = 0
        BY <3>2
      <4> HIDE DEF t, s, one
      <4> QED BY <1>1, <3>2, <4>1
    <3> QED BY <3>1, <3>2
  <2>3. /\ left[p] = t * minted[p] + s * before[p]
        /\ right[p] = s * after[p] + r[p]
        /\ minted[p] = mApt'[p] - mApt[p]
    OBVIOUS
  <2>4. t * (mApt'[p] - mApt[p]) + s * Contribution(p)
          <= s * Contribution(p)' + (IF mApt'[p] < mApt[p] THEN t + s ELSE 0)
    BY DEF PoolKeepsWorth
  <2> HIDE DEF left, right, before, after, minted, r
  <2> QED BY <2>1, <2>2, <2>3, <2>4
<1>5. \A p \in Pools : /\ tm[p] = t * minted[p] /\ sb[p] = s * before[p]
                       /\ sa[p] = s * after[p] /\ r[p] = (t + s) * one[p]
                       /\ left[p] = tm[p] + sb[p] /\ right[p] = sa[p] + r[p]
                       /\ one[p] = IF p \in Out THEN 1 ELSE 0
  OBVIOUS
<1>6. Out \in SUBSET Pools /\ IsFiniteSet(Pools) /\ IsFiniteSet(Out)
  BY PoolsAssumption, FS_Subset
<1>7. MintedSum = Sum(minted)
  BY DEF MintedSum
<1> HIDE DEF Out, t, s, before, after, minted, one, tm, sb, sa, r, left, right
<1>8. t + s \in Int /\ t \in Int /\ s \in Int
  BY <1>1
<1>9. \A p \in Pools : /\ tm[p] \in Int /\ sb[p] \in Int /\ sa[p] \in Int /\ r[p] \in Int
  <2>1. \A k \in Int, x \in Int : k * x \in Int
    OBVIOUS
  <2> QED BY <1>2, <1>5, <1>8, <2>1
<1>10. \A p \in Pools : left[p] \in Int /\ right[p] \in Int
  BY <1>5, <1>9
<1>11. Sum(left) <= Sum(right)
  BY <1>4, <1>6, <1>10, SumMonotone
<1>12. Sum(left) = Sum(tm) + Sum(sb) /\ Sum(right) = Sum(sa) + Sum(r)
  BY <1>5, <1>6, <1>9, SumAdd
<1>13. Sum(tm) = t * Sum(minted) /\ Sum(sb) = s * Sum(before)
  <2>1. Sum(tm) = t * Sum(minted)
    <3>1. \A p \in Pools : minted[p] \in Int /\ tm[p] = t * minted[p]
      BY <1>2, <1>5
    <3> QED BY <1>6, <1>8, <3>1, SumScale
  <2>2. Sum(sb) = s * Sum(before)
    <3>1. \A p \in Pools : before[p] \in Int /\ sb[p] = s * before[p]
      BY <1>2, <1>5
    <3> QED BY <1>6, <1>8, <3>1, SumScale
  <2> QED BY <2>1, <2>2
<1>14. Sum(sa) = s * Sum(after) /\ Sum(r) = (t + s) * Sum(one)
  <2>1. Sum(sa) = s * Sum(after)
    <3>1. \A p \in Pools : after[p] \in Int /\ sa[p] = s * after[p]
      BY <1>2, <1>5
    <3> QED BY <1>6, <1>8, <3>1, SumScale
  <2>2. Sum(r) = (t + s) * Sum(one)
    <3>1. \A p \in Pools : one[p] \in Int /\ r[p] = (t + s) * one[p]
      BY <1>2, <1>5
    <3> QED BY <1>6, <1>8, <3>1, SumScale
  <2> QED BY <2>1, <2>2
<1>15. Sum(one) = Cardinality(Out) /\ Cardinality(Out) \in Nat
  <2>1. Sum(one) = Cardinality(Out)
    BY <1>5, <1>6, SumOfOnes
  <2>2. Cardinality(Out) \in Nat
    BY <1>6, FS_CardinalityType
  <2> QED BY <2>1, <2>2
<1>16. Sum(before) \in Int /\ Sum(after) \in Int /\ Sum(minted) \in Int
  BY <1>2, <1>6, SumRemove
<1> HIDE DEF Sum
<1>17. t * Sum(minted) + s * Sum(before) <= s * Sum(after) + (t + s) * Cardinality(Out)
  BY <1>11, <1>12, <1>13, <1>14, <1>15
<1>18. t * (s + Sum(minted))
         <= (position + Sum(after)) * s + Cardinality(Out) * (t + s)
  BY <1>1, <1>3, <1>15, <1>16, <1>17, WorthOfSums
<1>19. t * totalSupply' <= ActualTvl' * s + Cardinality(Out) * (t + s)
  BY <1>3, <1>7, <1>18 DEF s
<1>20. /\ t * totalSupply' \in Int
       /\ ActualTvl' * s + Cardinality(Out) * (t + s) \in Int
  <2>1. totalSupply' \in Int /\ ActualTvl' \in Int
    <3>1. totalSupply' \in Nat
      BY DEF CapitalTypes
    <3> QED BY <1>1, <1>3, <1>16, <3>1
  <2> QED BY <1>1, <1>15, <2>1
<1>21. ActualTvl' * s + Cardinality(Out) * (t + s) >= t * totalSupply'
  BY <1>19, <1>20
<1> QED BY <1>21 DEF t, s, Out

\* The numbers of one pool that is funded, and of one that is paid out: mAPT
\* delta d for an amount worth v, contribution c before and c2 after.
LEMMA FundedWorth ==
  ASSUME NEW t \in Nat, NEW s \in Nat, NEW d \in Nat, NEW v \in Nat, NEW c \in Nat,
         NEW c2 \in Nat, d * t <= v * s, c + v <= c2
  PROVE  t * d + s * c <= s * c2
<1>1. (c + v) * s <= c2 * s
  <2>1. c + v \in Nat
    OBVIOUS
  <2> QED BY <2>1, ProductMonotone
<1> DEFINE x == d * t
           y == v * s
           z == c * s
           w == c2 * s
<1>2. (c + v) * s = z + y /\ t * d = x /\ s * c = z /\ s * c2 = w
  OBVIOUS
<1>3. x \in Nat /\ y \in Nat /\ z \in Nat /\ w \in Nat
  BY ProductType
<1>4. x <= y /\ z + y <= w
  BY <1>1, <1>2
<1> HIDE DEF x, y, z, w
<1>5. x + z <= w
  BY <1>3, <1>4
<1> QED BY <1>2, <1>5

LEMMA PaidWorth ==
  ASSUME NEW t \in Nat, NEW s \in Nat, NEW d \in Nat, NEW v \in Nat, NEW c \in Nat,
         NEW c2 \in Nat, v * s < (d + 1) * t, c <= c2 + v + 1
  PROVE  t * (-d) + s * c <= s * c2 + (t + s)
<1>1. c * s <= (c2 + v + 1) * s
  <2>1. c2 + v + 1 \in Nat
    OBVIOUS
  <2> QED BY <2>1, ProductMonotone
<1> DEFINE x == d * t
           y == v * s
           z == c * s
           w == c2 * s
<1>2. /\ (c2 + v + 1) * s = w + y + s /\ (d + 1) * t = x + t
      /\ t * (-d) = -x /\ s * c = z /\ s * c2 = w
  OBVIOUS
<1>3. x \in Nat /\ y \in Nat /\ z \in Nat /\ w \in Nat
  BY ProductType
<1>4. y < x + t /\ z <= w + y + s
  BY <1>1, <1>2
<1> HIDE DEF x, y, z, w
<1>5. -x + z <= w + (t + s)
  BY <1>3, <1>4
<1> QED BY <1>2, <1>5

\* The state in which shares have a worth that can be read.
Priced == /\ CycleTypes /\ TvlReadIsActual
          /\ totalSupply > 0 /\ ~OA!HasOverride(Tvl) /\ ~waived

\* A pool outside the batch.
LEMMA UntouchedWorth ==
  ASSUME CycleTypes, NEW p \in Pools, mApt'[p] = mApt[p], lpBalance'[p] = lpBalance[p],
         p \in registered' <=> p \in registered
  PROVE  PoolKeepsWorth(p)
<1>1. /\ ActualTvl \in Nat /\ totalSupply \in Nat /\ mApt[p] \in Nat
      /\ Contribution(p) \in Nat
  BY ActualTvlType, ValueOfType DEF CycleTypes, CapitalTypes, Contribution
<1>2. Contribution(p)' = Contribution(p)
  BY DEF Contribution, ValueOf
<1>3. mApt'[p] - mApt[p] = 0 /\ ~(mApt'[p] < mApt[p])
  BY <1>1
<1>4. ActualTvl * 0 + totalSupply * Contribution(p) <= totalSupply * Contribution(p) + 0
  <2>1. ActualTvl * 0 = 0 /\ totalSupply * Contribution(p) \in Nat
    BY <1>1, ProductType
  <2> QED BY <2>1
<1> QED BY <1>2, <1>3, <1>4 DEF PoolKeepsWorth

LEMMA FundKeepsWorth ==
  ASSUME Priced, NEW b \in Batches, MA!Distinct(b), MA!FundTokens(b), NEW p \in Pools
  PROVE  PoolKeepsWorth(p)
<1>0. /\ CycleTypes /\ MA!CanPrice(b)
      /\ mApt[p] \in Nat /\ lpBalance[p] \in Nat /\ totalSupply \in Nat
      /\ registered' = registered \cup MA!Members(b)
  BY DEF Priced, MA!FundTokens, MA!RegisterUnderlyers, CycleTypes, CapitalTypes
<1>1. CASE p \notin MA!Members(b)
  BY <1>0, <1>1, UntouchedWorth DEF MA!FundTokens
<1>2. CASE p \in MA!Members(b)
  <2> DEFINE d == MA!Delta(p, MA!FundAmount(p))
             a == IF d = 0 THEN 0 ELSE MA!FundAmount(p)
             v == ValueOf(p, a)
             c == Contribution(p)
             c2 == ValueOf(p, lpBalance[p] + a)
  <2>1. /\ MA!FundAmount(p) \in Nat /\ b[p] = 1
    BY <1>0, <1>2, BatchMoves, AmountsAssumption DEF MA!Distinct, MA!Members
  <2>2. /\ ActualTvl \in Nat \ {0} /\ d \in Nat
        /\ d * ActualTvl <= ValueOf(p, MA!FundAmount(p)) * totalSupply
    BY <1>0, <1>2, <2>1, DeltaIsShare DEF Priced
  <2>3. a \in Nat /\ v \in Nat /\ d * ActualTvl <= v * totalSupply
    <3>1. a \in Nat /\ v \in Nat
      BY <2>1, ValueOfType
    <3>2. CASE d = 0
      <4>1. d * ActualTvl = 0 /\ v * totalSupply \in Nat
        BY <1>0, <2>2, <3>1, <3>2, ProductType
      <4> HIDE DEF d, v
      <4> QED BY <3>1, <4>1
    <3>3. CASE d # 0
      BY <2>2, <3>1, <3>3
    <3> QED BY <3>2, <3>3
  <2>4. MA!Minted(b, p) = d /\ MA!Funded(b, p) = a
    <3>1. 1 * d = d /\ 1 * MA!FundAmount(p) = MA!FundAmount(p)
      BY <2>1, <2>2
    <3> QED BY <2>1, <3>1 DEF MA!Minted, MA!Funded
  <2>5. mApt'[p] = mApt[p] + d /\ lpBalance'[p] = lpBalance[p] + a
    BY <1>2, <2>4 DEF MA!FundTokens
  <2>6. c + v <= c2 /\ c \in Nat /\ c2 \in Nat
    <3>1. lpBalance[p] + a \in Nat
      BY <1>0, <2>3
    <3>2. ValueOf(p, lpBalance[p]) + v <= c2 /\ c2 \in Nat
          /\ ValueOf(p, lpBalance[p]) \in Nat
      BY <1>0, <2>3, <3>1, ValueOfParts, ValueOfType
    <3>3. c = ValueOf(p, lpBalance[p]) \/ c = 0
      BY DEF Contribution
    <3> HIDE DEF c, v, c2
    <3> QED BY <2>3, <3>2, <3>3
  <2>7. Contribution(p)' = c2
    BY <1>0, <1>2, <2>5 DEF Contribution, ValueOf
  <2> HIDE DEF d, a, v, c2
  <2>8. mApt'[p] - mApt[p] = d /\ ~(mApt'[p] < mApt[p])
    BY <1>0, <2>2, <2>5
  <2>9. ActualTvl * d + totalSupply * c <= totalSupply * c2
    <3> HIDE DEF c
    <3> QED BY <1>0, <2>2, <2>3, <2>6, FundedWorth
  <2>10. totalSupply * c2 + 0 = totalSupply * c2
    BY <1>0, <2>6
  <2> QED BY <2>7, <2>8, <2>9, <2>10 DEF PoolKeepsWorth
<1> QED BY <1>1, <1>2

LEMMA WithdrawKeepsWorth ==
  ASSUME Priced, NEW b \in Batches, MA!Distinct(b), MA!WithdrawTokens(b), NEW p \in Pools
  PROVE  PoolKeepsWorth(p)
<1>0. /\ CycleTypes /\ MA!CanPrice(b)
      /\ mApt[p] \in Nat /\ lpBalance[p] \in Nat /\ totalSupply \in Nat
      /\ registered' = registered \cup MA!Members(b)
  BY DEF Priced, MA!WithdrawTokens, MA!RegisterUnderlyers, CycleTypes, CapitalTypes
<1>1. CASE p \notin MA!Members(b)
  BY <1>0, <1>1, UntouchedWorth DEF MA!WithdrawTokens
<1>2. CASE p \in MA!Members(b)
  <2> DEFINE w == MA!WithdrawAmount(p)
             d == MA!Delta(p, w)
             v == ValueOf(p, w)
             c == Contribution(p)
  <2>1. /\ w \in Nat /\ b[p] = 1
    BY <1>0, <1>2, BatchMoves, AmountsAssumption DEF MA!Distinct, MA!Members
  <2>2. /\ ActualTvl \in Nat \ {0} /\ d \in Nat /\ v \in Nat
        /\ v * totalSupply < (d + 1) * ActualTvl
    BY <1>0, <1>2, <2>1, DeltaIsShare, ValueOfType DEF Priced
  <2>3. MA!Burned(b, p) = d /\ MA!Withdrawn(b, p) = IF d = 0 THEN 0 ELSE w
    <3>1. 1 * d = d /\ 1 * w = w
      BY <2>1, <2>2
    <3> QED BY <2>1, <3>1 DEF MA!Burned, MA!Withdrawn
  <2>4. /\ mApt'[p] = mApt[p] - d /\ d <= mApt[p]
        /\ lpBalance'[p] = lpBalance[p] - (IF d = 0 THEN 0 ELSE w)
        /\ (IF d = 0 THEN 0 ELSE w) <= lpBalance[p]
    BY <1>2, <2>3 DEF MA!WithdrawTokens, MA!WithdrawCovered
  <2>5. Contribution(p)' = ValueOf(p, lpBalance'[p])
    BY <1>0, <1>2 DEF Contribution, ValueOf
  <2>6. c \in Nat /\ (c = ValueOf(p, lpBalance[p]) \/ c = 0)
    BY <1>0, ValueOfType DEF Contribution
  <2> HIDE DEF w, d, v, c
  <2>7. CASE d = 0
    <3>1. lpBalance'[p] = lpBalance[p] /\ mApt'[p] - mApt[p] = 0 /\ ~(mApt'[p] < mApt[p])
      BY <1>0, <2>4, <2>7
    <3>2. ValueOf(p, lpBalance[p]) \in Nat /\ c <= ValueOf(p, lpBalance[p])
      BY <1>0, <2>6, ValueOfType
    <3>3. c + 0 <= ValueOf(p, lpBalance[p]) /\ 0 * ActualTvl <= 0 * totalSupply
      BY <1>0, <2>2, <2>6, <3>2
    <3>4. ActualTvl * 0 + totalSupply * c <= totalSupply * ValueOf(p, lpBalance[p])
      BY <1>0, <2>2, <2>6, <3>2, <3>3, FundedWorth
    <3>5. totalSupply * ValueOf(p, lpBalance[p]) + 0 = totalSupply * ValueOf(p, lpBalance[p])
      BY <1>0, <3>2
    <3> QED BY <2>5, <3>1, <3>4, <3>5 DEF PoolKeepsWorth, c
  <2>8. CASE d # 0
    <3> DEFINE rest == lpBalance[p] - w
               c2 == ValueOf(p, rest)
    <3>1. rest \in Nat /\ lpBalance'[p] = rest /\ rest + w = lpBalance[p]
      BY <1>0, <2>1, <2>4, <2>8
    <3> HIDE DEF rest
    <3>2. c2 \in Nat /\ ValueOf(p, lpBalance[p]) <= c2 + v + 1
          /\ ValueOf(p, lpBalance[p]) \in Nat
      BY <1>0, <2>1, <3>1, ValueOfParts, ValueOfType DEF v
    <3> HIDE DEF c2
    <3>3. c <= c2 + v + 1
      BY <2>2, <2>6, <3>2
    <3>4. mApt'[p] - mApt[p] = -d /\ mApt'[p] < mApt[p]
      BY <1>0, <2>2, <2>4, <2>8
    <3>5. ActualTvl * (-d) + totalSupply * c <= totalSupply * c2 + (ActualTvl + totalSupply)
      BY <1>0, <2>2, <2>6, <3>2, <3>3, PaidWorth
    <3>6. Contribution(p)' = c2
      BY <2>5, <3>1 DEF c2
    <3> QED BY <3>4, <3>5, <3>6 DEF PoolKeepsWorth, c
  <2> QED BY <2>7, <2>8
<1> QED BY <1>1, <1>2

\* The supply changes by what the pools' balances change by.
LEMMA FundMintedSum ==
  ASSUME CycleTypes, NEW b \in Batches, MA!FundTokens(b)
  PROVE  totalSupply' = totalSupply + MintedSum
<1> DEFINE M == MA!Members(b)
           e == [p \in M |-> MA!Minted(b, p)]
           c == [p \in Pools |-> mApt'[p] - mApt[p]]
<1>1. M \in SUBSET Pools /\ IsFiniteSet(M) /\ MA!CanPrice(b) /\ DOMAIN e = M
  BY PoolsAssumption, FS_Subset DEF MA!Members, MA!FundTokens
<1>2. \A p \in M : MA!Minted(b, p) \in Nat
  BY <1>1, BatchMoves
<1>3. \A p \in Pools : /\ mApt[p] \in Nat
                       /\ mApt'[p] = IF p \in M THEN mApt[p] + MA!Minted(b, p) ELSE mApt[p]
  BY DEF MA!FundTokens, CycleTypes, CapitalTypes
<1>4. /\ \A p \in Pools : c[p] \in Int
      /\ \A p \in Pools \ M : c[p] = 0
      /\ \A p \in M : c[p] \in Int /\ e[p] = c[p]
  BY <1>1, <1>2, <1>3
<1>5. totalSupply' = totalSupply + SumFunctionOnSet(e, M)
  BY <1>1, InstanceSum DEF MA!FundTokens
<1> HIDE DEF M, e, c
<1>6. SumFunctionOnSet(c, Pools) = SumFunctionOnSet(c, M)
  BY <1>1, <1>4, PoolsAssumption, SumSupport
<1>7. SumFunctionOnSet(c, M) = SumFunctionOnSet(e, M)
  BY <1>1, <1>4, SumEqual
<1> QED BY <1>5, <1>6, <1>7 DEF MintedSum, c

LEMMA WithdrawMintedSum ==
  ASSUME CycleTypes, NEW b \in Batches, MA!WithdrawTokens(b)
  PROVE  totalSupply' = totalSupply + MintedSum
<1> DEFINE M == MA!Members(b)
           e == [p \in M |-> MA!Burned(b, p)]
           c == [p \in Pools |-> mApt'[p] - mApt[p]]
<1>1. M \in SUBSET Pools /\ IsFiniteSet(M) /\ MA!CanPrice(b) /\ DOMAIN e = M
  BY PoolsAssumption, FS_Subset DEF MA!Members, MA!WithdrawTokens
<1>2. \A p \in M : MA!Burned(b, p) \in Nat
  BY <1>1, BatchMoves
<1>3. \A p \in Pools : /\ mApt[p] \in Nat
                       /\ mApt'[p] = IF p \in M THEN mApt[p] - MA!Burned(b, p) ELSE mApt[p]
  BY DEF MA!WithdrawTokens, CycleTypes, CapitalTypes
<1>4. /\ \A p \in Pools : c[p] \in Int
      /\ \A p \in Pools \ M : c[p] = 0
      /\ \A p \in M : e[p] \in Int /\ c[p] = (-1) * e[p]
  BY <1>1, <1>2, <1>3
<1>5. totalSupply' = totalSupply - SumFunctionOnSet(e, M)
  BY <1>1, InstanceSum DEF MA!WithdrawTokens
<1>6. totalSupply \in Nat /\ -1 \in Int
  BY DEF CycleTypes, CapitalTypes
<1> HIDE DEF M, e, c
<1>7. SumFunctionOnSet(c, Pools) = SumFunctionOnSet(c, M)
  BY <1>1, <1>4, PoolsAssumption, SumSupport
<1>8. SumFunctionOnSet(c, M) = (-1) * SumFunctionOnSet(e, M)
  BY <1>1, <1>4, <1>6, SumScale
<1>9. SumFunctionOnSet(e, M) \in Int
  BY <1>1, <1>4, SumRemove
<1>10. totalSupply' = totalSupply + SumFunctionOnSet(c, Pools)
  BY <1>5, <1>6, <1>7, <1>8, <1>9
<1> QED BY <1>10 DEF MintedSum, c

\* Where Chainlink's TVL is read, no batch that names each pool once, whatever
\* the prices, scales and percentages, takes more from the worth of the mAPT of
\* the pools that stay than the rounding of what it pays out.
THEOREM WorthIsKept ==
  ASSUME \A b \in Batches : MA!Distinct(b)
  PROVE  Spec => MAptKeepsItsWorth
<1> DEFINE Kept == LET paid == Cardinality({p \in Pools : mApt'[p] < mApt[p]})
                   IN  ActualTvl' * totalSupply + paid * (ActualTvl + totalSupply)
                         >= ActualTvl * totalSupply'
<1>1. CycleTypes /\ CycleTypes' /\ TvlReadIsActual /\ [Next]_vars =>
        [mApt' # mApt /\ totalSupply > 0 /\ ~OA!HasOverride(Tvl) /\ ~waived => Kept]_vars
  <2> SUFFICES ASSUME CycleTypes, CycleTypes', TvlReadIsActual, Next, mApt' # mApt,
                      totalSupply > 0, ~OA!HasOverride(Tvl), ~waived
               PROVE  Kept
    OBVIOUS
  <2>0. Priced /\ CapitalTypes /\ CapitalTypes'
    BY DEF Priced, CycleTypes
  <2>1. ASSUME NEW b \in Batches, FundLpAccount(b) PROVE Kept
    <3>1. MA!FundTokens(b) /\ position' = position
      BY <2>1 DEF FundLpAccount
    <3>2. \A p \in Pools : PoolKeepsWorth(p)
      BY <2>0, <3>1, FundKeepsWorth
    <3> QED BY <2>0, <3>1, <3>2, FundMintedSum, WorthAddsUp DEF Priced
  <2>2. ASSUME NEW b \in Batches, WithdrawFromLpAccount(b) PROVE Kept
    <3>1. MA!WithdrawTokens(b) /\ position' = position
      BY <2>2 DEF WithdrawFromLpAccount
    <3>2. \A p \in Pools : PoolKeepsWorth(p)
      BY <2>0, <3>1, WithdrawKeepsWorth
    <3> QED BY <2>0, <3>1, <3>2, WithdrawMintedSum, WorthAddsUp DEF Priced
  <2>3. ASSUME UNCHANGED mAptVars PROVE FALSE
    BY <2>3 DEF mAptVars
  <2> QED BY <2>1, <2>2, <2>3
          DEF Next, RegisterOrRemoveErc20Token, EmergencyExit, SetReservePercentage,
              DepositOrRedeem, LpAccountOperation, EmergencyUnlock, EmergencySetOrUnsetTvl,
              SetPeriods, Observe, Submit, NextBlock
<1> QED BY <1>1, CycleTypesAlways, ReadsAreCurrent, PTL DEF Spec, MAptKeepsItsWorth

-----------------------------------------------------------------------------
(* The cycle implements OracleAdapter.  What Chainlink reports stays within  *)
(* the bounds of the balances, and so among the answers the adapter is       *)
(* checked with.                                                             *)

\* Values in strategies and mAPT stay within their bounds, and the nodes never
\* observe more than the bounds of all balances are worth.
WithinBounds ==
  /\ position <= MaxPosition
  /\ totalSupply \in 0 .. MaxUint
  /\ pending \in (0 .. LargestTvl) \cup {None}

LEMMA ValueOfMonotone ==
  ASSUME NEW p \in Pools, NEW a \in Nat, NEW b \in Nat, a <= b
  PROVE  ValueOf(p, a) <= ValueOf(p, b)
<1>1. Price[p] \in Nat /\ Scale[p] \in Nat \ {0}
  BY PricesAssumption
<1>2. PICK d \in Nat : b = a + d
  <2>1. b - a \in Nat /\ b = a + (b - a)
    OBVIOUS
  <2> QED BY <2>1
<1> DEFINE x == Price[p] * a
           y == Price[p] * d
           c == Scale[p]
<1>3. x \in Nat /\ y \in Nat /\ c \in Nat \ {0} /\ Price[p] * b = x + y
  BY <1>1, <1>2, ProductType
<1> HIDE DEF x, y, c
<1>4. /\ (x \div c) + (y \div c) <= (x + y) \div c
      /\ x \div c \in Nat /\ y \div c \in Nat /\ (x + y) \div c \in Nat
  BY <1>3, DivOfSum, DivBounds
<1>5. x \div c <= (Price[p] * b) \div c
  BY <1>3, <1>4
<1> QED BY <1>5 DEF ValueOf, x, c

\* No observation exceeds the value of all bounds.
LEMMA TvlWithinBounds ==
  ASSUME CapitalTypes, position <= MaxPosition
  PROVE  ActualTvl \in 0 .. LargestTvl
<1> DEFINE worth == [p \in registered |-> ValueOf(p, lpBalance[p])]
           due == [p \in Pools |-> IF p \in registered THEN ValueOf(p, lpBalance[p]) ELSE 0]
           most == [p \in Pools |-> ValueOf(p, MaxUnderlyer)]
<1>1. SumFunction(worth) = SumFunctionOnSet(due, Pools)
  BY TvlOverPools DEF CapitalTypes
<1>2. \A p \in Pools : due[p] \in Int /\ most[p] \in Int /\ due[p] <= most[p]
  <2> TAKE p \in Pools
  <2>1. lpBalance[p] \in Nat /\ lpBalance[p] <= MaxUnderlyer /\ MaxUnderlyer \in Nat
    BY AmountsAssumption DEF CapitalTypes
  <2>2. /\ ValueOf(p, lpBalance[p]) \in Nat /\ ValueOf(p, MaxUnderlyer) \in Nat
        /\ ValueOf(p, lpBalance[p]) <= ValueOf(p, MaxUnderlyer)
    BY <2>1, ValueOfType, ValueOfMonotone
  <2> QED BY <2>2
<1>3. /\ DOMAIN most = Pools
      /\ ActualTvl = position + SumFunction(worth)
      /\ LargestTvl = MaxPosition + SumFunction(most)
  BY DEF ActualTvl, LargestTvl
<1> HIDE DEF worth, due, most
<1>4. /\ SumFunctionOnSet(due, Pools) <= SumFunctionOnSet(most, Pools)
      /\ SumFunctionOnSet(due, Pools) \in Int /\ SumFunctionOnSet(most, Pools) \in Int
  BY <1>2, PoolsAssumption, SumMonotone, SumRemove
<1>5. SumFunction(most) = SumFunctionOnSet(most, Pools)
  BY <1>3 DEF SumFunction
<1>6. ActualTvl \in Nat /\ position \in Nat /\ MaxPosition \in Nat
  BY ActualTvlType, AmountsAssumption DEF CapitalTypes
<1>7. ActualTvl <= LargestTvl /\ LargestTvl \in Int
  BY <1>1, <1>3, <1>4, <1>5, <1>6
<1> QED BY <1>6, <1>7

LEMMA WithinBoundsInit == Init => WithinBounds
<1> SUFFICES ASSUME Init PROVE WithinBounds
  OBVIOUS
<1>1. position = 0 /\ totalSupply = 0 /\ pending = None
  BY DEF Init
<1> QED BY <1>1, AmountsAssumption DEF WithinBounds

LEMMA WithinBoundsNext == CycleTypes /\ WithinBounds /\ [Next]_vars => WithinBounds'
<1> SUFFICES ASSUME CycleTypes, WithinBounds, [Next]_vars PROVE WithinBounds'
  OBVIOUS
<1>1. LargestTvl' = LargestTvl
  BY DEF LargestTvl, ValueOf
<1>2. position' <= MaxPosition
  <2>1. CASE LpAccountOperation
    BY <2>1, AmountsAssumption DEF LpAccountOperation
  <2>2. CASE ~LpAccountOperation
    <3>1. position' = position
      BY <2>2 DEF Next, vars, capitalVars, FundLpAccount, WithdrawFromLpAccount, EmergencyExit,
             RegisterOrRemoveErc20Token, SetReservePercentage, DepositOrRedeem,
             EmergencyUnlock, EmergencySetOrUnsetTvl, SetPeriods, Observe, Submit, NextBlock
    <3> QED BY <3>1 DEF WithinBounds
  <2> QED BY <2>1, <2>2
<1>3. totalSupply' \in 0 .. MaxUint
  <2>1. ASSUME NEW b \in Batches, FundLpAccount(b) \/ WithdrawFromLpAccount(b)
        PROVE  totalSupply' \in 0 .. MaxUint
    BY <2>1 DEF FundLpAccount, WithdrawFromLpAccount, MA!FundTokens, MA!WithdrawTokens, MA!Uint
  <2>2. CASE ~\E b \in Batches : FundLpAccount(b) \/ WithdrawFromLpAccount(b)
    <3>1. totalSupply' = totalSupply
      BY <2>2 DEF Next, vars, mAptVars, LpAccountOperation, EmergencyExit,
             RegisterOrRemoveErc20Token, SetReservePercentage, DepositOrRedeem,
             EmergencyUnlock, EmergencySetOrUnsetTvl, SetPeriods, Observe, Submit, NextBlock
    <3> QED BY <3>1 DEF WithinBounds
  <2> QED BY <2>1, <2>2
<1>4. pending' \in (0 .. LargestTvl) \cup {None}
  <2>1. CASE Observe
    <3>1. ActualTvl \in 0 .. LargestTvl
      BY TvlWithinBounds DEF CycleTypes, WithinBounds
    <3> QED BY <2>1, <3>1 DEF Observe
  <2>2. CASE Submit
    BY <2>2 DEF Submit
  <2>3. CASE ~Observe /\ ~Submit
    <3>1. pending' = pending
      BY <2>3 DEF Next, vars, reportVars, Changed, FundLpAccount, WithdrawFromLpAccount,
             LpAccountOperation, EmergencyExit, RegisterOrRemoveErc20Token,
             SetReservePercentage, DepositOrRedeem,
             EmergencyUnlock, EmergencySetOrUnsetTvl, SetPeriods, NextBlock
    <3> QED BY <3>1 DEF WithinBounds
  <2> QED BY <2>1, <2>2, <2>3
<1> QED BY <1>1, <1>2, <1>3, <1>4 DEF WithinBounds

LEMMA AdapterInit == Init => OA!Init
<1> SUFFICES ASSUME Init PROVE OA!Init
  OBVIOUS
<1>1. OA!Feeds = Feeds
  BY DEF OA!Feeds, Feeds
<1>2. source \in {s \in [Feeds -> Feeds \cup {NoSource}] : s[Tvl] # NoSource}
  BY PoolsAssumption DEF Init, Feeds
<1>3. answer \in [Feeds -> [price : Reports, updatedAt : {0}]]
  <2>1. ActualTvl \in Reports
    <3>1. CapitalTypes /\ position <= MaxPosition
      BY CycleTypesInit, WithinBoundsInit DEF CycleTypes, WithinBounds
    <3> QED BY <3>1, TvlWithinBounds DEF Reports
  <2>2. \A p \in Pools : Price[p] \in Reports
    BY DEF Reports
  <2>3. \A f \in Feeds : (IF f = Tvl THEN ActualTvl ELSE Price[f]) \in Reports
    BY <2>1, <2>2 DEF Feeds
  <2> QED BY <2>3 DEF Init
<1> QED BY <1>1, <1>2, <1>3 DEF Init, OA!Init

\* An operation on the capital is, to the adapter, a lock with or without a
\* move of the mAPT supply; a strategy that finds a longer lock is nothing.
LEMMA AdapterStep ==
  ASSUME CycleTypes, WithinBounds, WithinBounds', [Next]_vars
  PROVE  [OA!Next]_(OA!vars)
<1>0. OracleTypes
  BY DEF CycleTypes
<1>a. OA!Feeds = Feeds
  BY DEF OA!Feeds, Feeds
<1>1. ASSUME NEW b \in Batches, FundLpAccount(b) \/ WithdrawFromLpAccount(b)
      PROVE  OA!Next
  <2>1. OA!Lock /\ UNCHANGED <<answer, blockNumber, timestamp>>
    BY <1>1 DEF FundLpAccount, WithdrawFromLpAccount, chainVars
  <2>2. OA!LockAfterMinting
    BY <2>1 DEF OA!LockAfterMinting, WithinBounds
  <2> QED BY <2>2 DEF OA!Next
<1>2. ASSUME NEW p \in Pools, RegisterOrRemoveErc20Token(p) PROVE OA!Next
  <2>1. OA!Lock /\ UNCHANGED <<answer, blockNumber, timestamp>>
    BY <1>2 DEF RegisterOrRemoveErc20Token, chainVars
  <2>2. OA!LockAfterMinting
    BY <2>1 DEF OA!LockAfterMinting, WithinBounds
  <2> QED BY <2>2 DEF OA!Next
<1>3. CASE LpAccountOperation
  <2>1. UNCHANGED OA!chainVars /\ UNCHANGED OA!valueVars
    BY <1>3 DEF LpAccountOperation, OA!chainVars, OA!valueVars, chainVars, mAptVars,
                settingVars, sourceVars
  <2>2. CASE OA!LockFor(lpLockPeriod)
    BY <1>0, <2>1, <2>2 DEF OA!Next, OracleTypes
  <2>3. CASE UNCHANGED lockVars
    BY <2>1, <2>3 DEF OA!vars, OA!lockVars, lockVars
  <2> QED BY <1>3, <2>2, <2>3 DEF LpAccountOperation, LpAccountLock
<1>4. CASE EmergencyUnlock
  BY <1>4 DEF EmergencyUnlock, OA!Next, OA!AdminStep, OA!chainVars, chainVars, mAptVars
<1>5. CASE EmergencySetOrUnsetTvl
  <2>1. UNCHANGED OA!chainVars
    BY <1>5 DEF EmergencySetOrUnsetTvl, OA!chainVars, chainVars, mAptVars
  <2>2. OA!AdminStep
    BY <1>5, <1>a DEF EmergencySetOrUnsetTvl, OA!AdminStep, Feeds
  <2> QED BY <2>1, <2>2 DEF OA!Next
<1>6. CASE SetPeriods
  <2>1. UNCHANGED OA!chainVars /\ UNCHANGED OA!valueVars
    BY <1>6 DEF SetPeriods, OA!chainVars, OA!valueVars, chainVars, mAptVars, sourceVars
  <2>2. CASE \E period \in LockPeriods : OA!SetDefaultLockPeriod(period)
    BY <2>1, <2>2 DEF OA!Next, OA!AdminStep
  <2>3. CASE UNCHANGED lockVars
    BY <2>1, <2>3 DEF OA!vars, OA!lockVars, lockVars
  <2> QED BY <1>6, <2>2, <2>3 DEF SetPeriods
<1>7. CASE Submit
  <2>1. Tvl \in Feeds /\ pending \in Reports
    BY <1>7 DEF Submit, WithinBounds, Reports, Feeds
  <2> QED BY <1>7, <2>1 DEF Submit, OA!Next, mAptVars
<1>8. CASE NextBlock
  BY <1>8 DEF NextBlock, OA!Next, mAptVars
\* What the adapter does not see.
<1>9. ASSUME \/ \E p \in Pools : EmergencyExit(p) \/ SetReservePercentage(p) \/ DepositOrRedeem(p)
             \/ Observe
             \/ UNCHANGED vars
      PROVE  UNCHANGED OA!vars
  <2>1. UNCHANGED <<lockVars, chainVars, mAptVars, sourceVars, submitted>>
    BY <1>9 DEF EmergencyExit, SetReservePercentage, DepositOrRedeem, Observe, vars, settingVars
  <2> QED BY <2>1 DEF OA!vars, OA!lockVars, OA!valueVars, OA!chainVars, lockVars, chainVars,
                      mAptVars, sourceVars
<1> QED BY <1>1, <1>2, <1>3, <1>4, <1>5, <1>6, <1>7, <1>8, <1>9 DEF Next

\* Every behaviour of the whole cycle is a behaviour of OracleAdapter: the
\* contracts lock it in the transactions that change the capital or the mAPT,
\* never shorten a lock but through lock(), and what Chainlink can report of the
\* capital is among the answers the adapter is proved correct for.  So what is
\* proved of the adapter's locks and overrides holds of it in the cycle.
THEOREM CycleIsOracleAdapter == Spec => ImplementsOracleAdapter
<1>1. Spec => []WithinBounds
  BY WithinBoundsInit, WithinBoundsNext, CycleTypesAlways, PTL DEF Spec
<1> QED BY <1>1, AdapterInit, AdapterStep, CycleTypesAlways, PTL
        DEF Spec, ImplementsOracleAdapter, OA!Spec
=============================================================================
