SPECIFICATION Spec
CONSTANTS
  u1 = u1
  u2 = u2
  s1 = s1
  VaultAddr = vault
  AdminAddr = admin
  TreasuryAddr = treasury
  None = none
  Supply <- MCSupply
  Users = {u1, u2}
  Strategies = {}
  UserSupply = 3
  AdminSupply = 1
  StrategySupply = 0
  MaxSettings = 0
  MaxEntries = 0
  MaxUnset = 0
  DepositAmounts = {1, 3}
  ShareAmounts = {1, 2, 3}
  YieldAmounts = {1}
  MoveAmounts = {}
  GiftAmounts = {}
  FeeChoices = {}
  ThresholdChoices = {2}
  MinDepositChoices = {}
  CooldownChoices = {1}
  BufferChoices = {}
  BatchSizeChoices = {}
  CapChoices = {}
  RiskChoices = {}
  TreasuryChoices = {}
  RelayerChoices = {}
  PauseChoices = {TRUE, FALSE}
  NavChoices = {}
  KoreanYields = {1}
  Timelock = 1
  SHARE_PRICE_SCALE = 2
  MaxI128 = 14
  BPS_DENOMINATOR = 2
  MaxTime = 2
  LeavesPendingAlone = TRUE
SYMMETRY UserSymmetry
CHECK_DEADLOCK FALSE
INVARIANT Redeemable
PROPERTY PriceNeverFalls
