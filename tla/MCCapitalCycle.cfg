SPECIFICATION Spec
CONSTANTS
  dai = dai
  Tvl = Tvl
  NoSource = NoSource
  Unreadable = Unreadable
  None = None
  Pools = {dai}
  Scale <- MCScale
  Price <- MCPrice
  Factor = 3
  MaxUint = 9
  Batches <- MCBatches
  MaxUnderlyer = 2
  MaxPosition = 1
  Percentages <- MCPercentages
  Reserves <- MCReserves
  LockPeriods = {1, 2}
  Latency = 1
  Overrides <- MCOverrides
  FirstBlock = 1
  MaxBlock = 3
INVARIANT TvlReadIsActual
PROPERTY ImplementsOracleAdapter
