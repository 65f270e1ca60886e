SPECIFICATION Spec
CONSTANTS
  w1 = w1
  w2 = w2
  WizWallets = {w1, w2}
  Balance <- MCBalance
  NoWallet = none
  Typed = {1}
  Linked = {3}
  MIN_DEPOSIT_AMOUNT = 2
  WizTxs = {t1, t2}
  MaxMounts = 2
  MaxRestarts = 2
  Muts = {m1, m2}
  MaxFetches = 1
  ApiOps = {o1, o2}
  Queries = {o1}
  ApiAttempts = 2
  QueryRetries = 1
CHECK_DEADLOCK FALSE
INVARIANTS SubmissionTypeOK SubmissionsAreSound OptimismIsPutRight
PROPERTY SessionFollowsUser
SYMMETRY SubmissionSymmetry
