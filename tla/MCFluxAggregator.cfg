SPECIFICATION Spec
CONSTANTS
  Oracles = {o1, o2}
  Requesters = {q}
  Answers = {1}
  Payments = {1, 2}
  RestartDelays = {0, 1}
  RequesterDelays = {0}
  Timeouts = {0, 1}
  RoundMax = 9
  MaxOracleCount = 2
  StartTime = 2
  MaxRound = 2
  MaxLink = 4
  Moves = {2, 4}
  MaxChanges = 3
INVARIANTS TypeOK Solvent SomeoneMayStart NoRoundSkipped
PROPERTIES PastAnswersStay AnswersNeedOracles ImplementsPriceFeed RoundsEnd
CHECK_DEADLOCK FALSE
