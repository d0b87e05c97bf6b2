SPECIFICATION Spec
CONSTANTS
  dai = dai
  usdc = usdc
  Unreadable = Unreadable
  Pools = {dai, usdc}
  Scale <- MCScale
  Factor = 1
  MaxUint = 10
  MaxUnderlyer = 6
  Attended = {dai}
  ZeroPeriod = TRUE
  Batches <- MCBatches
  TvlReadings <- MCTvlReadings
  PriceReadings <- MCPriceReadings
  Balances <- MCBalances
  Percentages <- MCPercentages
INVARIANTS TypeOK RebalanceIsCovered DeployedValueWithinTvl
PROPERTIES NeverBurnsOut SharesFollowValue ReserveMeetsTarget
