SPECIFICATION Spec
CONSTANTS
  Users = {alice, bob}
  Unit = 2
  Factor = 2
  WithdrawFeeDenominator = 4
  ArbFeeDenominator = 2
  MaxUint = 12
  Unreadable = Unreadable
  PriceReadings = {0, 3, Unreadable}
  DeployedReadings = {0, 4, Unreadable}
  Deposits = {1, 3}
  Moves = {2}
  MaxReserve = 5
  WithdrawFees = {0, 3}
  ArbFees = {1}
  FeePeriods = {1, 2}
  StartTime = 2
  MaxTime = 4
SYMMETRY MCSymmetry
INVARIANTS TypeOK RoundTripGainsNothing ClaimsWithinAssets
PROPERTIES SharePriceNeverFalls EarlyUntilTimePasses
CHECK_DEADLOCK FALSE
