SPECIFICATION Spec
CONSTANTS
  Requests = {r1, r2, r3}
  Issuers = {i1}
  w1 = w1
  w2 = w2
  n1 = n1
  k1 = k1
  Wallets = {w1}
  Actions = {"deposit", "withdrawal"}
  Nonces = {n1}
  Keys = {k1}
  Bodies <- SignedBodies
  MAX_ACTIVE_NONCES_PER_WALLET = 1
  RedisStore = FALSE
  Enforced = TRUE
  DailyLimit = 2
  Overridable = {}
  MaxRestarts = 1
  None = none
CHECK_DEADLOCK FALSE
PROPERTIES NonceIsToken EveryRequestAnswered
