SPECIFICATION Spec
CONSTANTS
  dai = dai
  chainlink = chainlink
  backup = backup
  Tvl = Tvl
  NoSource = NoSource
  Assets = {dai}
  Aggregators = {chainlink, backup}
  Answers <- MCAnswers
  LockPeriods <- MCLockPeriods
  Submissions <- MCSubmissions
  Rewirings <- MCRewirings
  StalePeriods <- MCStalePeriods
  BlockTimes = {1, 2}
  FirstBlock = 1
  MaxBlock = 3
  MaxSupply = 1
INVARIANT SilenceIsNotReadable
PROPERTIES LockOnlyCutKnowingly OverridesAreSubmitted
