SPECIFICATION PollSpec
CONSTANTS
  Instances = {i1}
  Polls = {p1}
  LedgerOf <- MCLedgerOf
  MaxLedger = 2
  batchSize = 1
  PageLimit = 1
  ManualRanges <- MCRanges
  RpcErrorBodies = TRUE
  Faults = TRUE
  UseRedis = TRUE
  None = none
INVARIANT OnlyKnownLosses
PROPERTY PollerCatchesUp
