SPECIFICATION Spec
CONSTANTS
  dai = dai
  usdt = usdt
  frax = frax
  crv = crv
  gauge = gauge
  stake = stake
  curveZap = curveZap
  migrationZap = migrationZap
  crvToDai = crvToDai
  curveAllocation = curveAllocation
  curveName = curveName
  migrationName = migrationName
  swapName = swapName
  Erc20Allocation = Erc20Allocation
  Erc20Name = Erc20Name
  Empty = Empty
  Null = Null
  Tokens = {dai, usdt, frax, crv, gauge, stake}
  Staked = {stake}
  Underlyers = {dai}
  ThreePoolCoins = {dai, usdt}
  Names = {curveName, migrationName, swapName, Erc20Name}
  ZapContracts = {curveZap, migrationZap}
  SwapContracts = {crvToDai}
  AllocationContracts = {Erc20Allocation, curveAllocation}
  MigrationZaps = {migrationZap}
  NameOf <- MCNameOf
  Counted <- MCCounted
  AssetAllocations <- MCAssetAllocations
  Erc20s <- MCErc20s
  Coins <- MCCoins
  Receipt <- MCReceipt
  Unwinds <- MCUnwinds
  Rewards <- MCRewards
  SwapFrom <- MCSwapFrom
  SwapTo <- MCSwapTo
  FeeDenominator = 2
  RewardFees = {1, 4}
  Listable = {frax, crv}
  FeeTokens = {crv}
  MaxHeld <- MCMaxHeld
  MaxTreasury = 2
  MaxClaim = 2
INVARIANTS CapitalIsListed Erc20AllocationStays
PROPERTIES ReadsChangeUnderLock FeesComeFromClaims
