SPECIFICATION Spec
CONSTANTS
  dai = dai
  Tvl = Tvl
  NoSource = NoSource
  Unreadable = Unreadable
  None = None
  Pools = {dai}
  Scale <- RoundingScale
  Price <- RoundingPrice
  Factor = 3
  MaxUint = 9
  Batches <- MCBatches
  MaxUnderlyer = 2
  MaxPosition = 1
  Percentages <- RoundingPercentages
  Reserves <- MCReserves
  LockPeriods = {1}
  Latency = 1
  Overrides = {}
  FirstBlock = 1
  MaxBlock = 3
PROPERTIES ImplementsMetaPoolToken MAptKeepsItsWorth
