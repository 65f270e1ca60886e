SPECIFICATION Spec
CONSTANTS
  u1 = u1
  s1 = s1
  s2 = s2
  VaultAddr = vault
  AdminAddr = admin
  TreasuryAddr = treasury
  None = none
  Supply <- MCSupply
  Users = {u1}
  Strategies = {s1, s2}
  UserSupply = 2
  AdminSupply = 2
  StrategySupply = 0
  DepositAmounts = {1, 2}
  ShareAmounts = {1, 2}
  YieldAmounts = {2}
  MoveAmounts = {1, 2}
  GiftAmounts = {1}
  FeeChoices = {1}
  ThresholdChoices = {}
  MinDepositChoices = {2}
  CooldownChoices = {}
  BufferChoices = {1}
  BatchSizeChoices = {2}
  CapChoices = {2}
  RiskChoices = {1}
  TreasuryChoices = {treasury}
  RelayerChoices = {TRUE, FALSE}
  PauseChoices = {}
  NavChoices = {2}
  KoreanYields = {2}
  Timelock = 1
  SHARE_PRICE_SCALE = 2
  MaxI128 = 8
  BPS_DENOMINATOR = 2
  MaxTime = 0
  LeavesPendingAlone = TRUE
  MaxSettings = 4
  MaxEntries = 2
  MaxUnset = 6
CONSTRAINT OneTrack
CHECK_DEADLOCK FALSE
INVARIANTS Custody BooksAgree
