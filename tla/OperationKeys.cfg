SPECIFICATION Spec
CONSTANTS
  Requests = {r1, r2, r3}
  Issuers = {}
  w1 = w1
  w2 = w2
  n1 = n1
  k1 = k1
  Wallets = {w1, w2}
  Actions = {"deposit", "withdrawal"}
  Nonces = {n1}
  Keys = {k1}
  Bodies <- MCBodies
  MAX_ACTIVE_NONCES_PER_WALLET = 1
  RedisStore = FALSE
  Enforced = FALSE
  DailyLimit = 2
  Overridable = {w1}
  MaxRestarts = 0
  None = none
CHECK_DEADLOCK FALSE
SYMMETRY Symmetry
INVARIANTS TypeOK OneOperationPerWallet SuccessIsRecorded OvershootIsOverlap
PROPERTY NoResubmission
