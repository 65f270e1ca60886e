SPECIFICATION Spec
CONSTANTS
  w1 = w1
  w2 = w2
  n1 = n1
  n3 = n3
  Requests = {r1}
  Issuers = {i1, i2}
  Wallets = {w1, w2}
  Actions = {"deposit", "withdrawal"}
  Nonces = {n1, n2, n3}
  Bodies <- MCBodies
  MAX_ACTIVE_NONCES_PER_WALLET = 1
  RedisStore = TRUE
  Enforced = TRUE
  None = none
  ImpSessions = {s1}
  ImpCalls = {c1, c2}
  NoSession = noSession
  MaxImpFaults = 2
  ApiKeys_ = {k0, k1}
  SeedKeys = {k0}
  KeyCalls = {c1, c2}
  MaxKeyEvents = 3
  MaxKeyFaults = 2
  AdWallets = {w1}
  AdCalls = {c1, c2}
  MaxChanges = 3
  MaxAdFaults = 1
  LimKeys = {k1}
  LimMax = 2
  LimWindow = 3
  SecondMs = 2
  LimMaxTime = 6
  LimMaxBurst = 3
  PipeSlots = {s1, s2}
  AuditRetention = 2
  MaxArrivals = 3
  ListSizes = {0, 3, 6}
  LimitArgs = {0, 1, 2}
  ListMaxLimit = 3
  ListDefaultLimit = 3
  DayLen = 3
  RangeSlack = 1
  MaxRangeDays = 2
  Boundaries <- MCBoundaries
  TxRows = {1, 2, 3, 4}
  PageLimit = 2
  MaxPages = 3
  RefWallets = {"a", "b"}
  RefCodes = {"x", "y"}
  CodeCalls = {c1, c2}
  SharePrices = {0, 2, 4}
  TxAmounts = {16, 32}
  MaxRefEvents = 4
  ExportWallets = {"a", "b"}
  ExportCalls = {c1}
  MaxExports = 2
  BulkJobs = {j1}
  BulkBatches = 1
  MaxExportFaults = 1
  CacheKeys = {k1, k2}
  Matched = {k1}
  CacheReads = {r1, r2}
  CacheWrites = {w1, w2}
  CacheMax = 1
  CacheTtl = 1
  CacheMaxTime = 1
  DeliveryIds = {1, 2, 3, 4}
  deliveryRetention = 3
  PageLimits = {1, 2}
  MaxDeliveryTime = 1
CHECK_DEADLOCK FALSE
INVARIANTS ConsoleTypeOK AdminsLeaveATrail LimitsHold PagesMissNothing HandedOutIsRecorded StaleIsExplained
PROPERTY AnswersHold
