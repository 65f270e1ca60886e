SPECIFICATION PollSpec
CONSTANTS
  Instances = {i1}
  Polls = {p1}
  LedgerOf <- MCLedgerOf
  MaxLedger = 2
  batchSize = 1
  PageLimit = 4
  ManualRanges <- NoRanges
  RpcErrorBodies = TRUE
  Faults = FALSE
  UseRedis = FALSE
  None = none
INVARIANT NoEventSkipped
