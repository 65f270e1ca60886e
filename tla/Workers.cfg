SPECIFICATION Spec
CONSTANTS
  WhIds = {h1}
  WhMaxAttempts = 2
  WhRetention = 1
  WhAllowUnverified = FALSE
  MaxDeliveries = 3
  MaxProbes = 1
  Emails = {1, 2}
  EmailMaxRetries = 2
  EmailBatch = 2
  MaxEmailFaults = 2
  MaxReplays = 1
  BackupAttempts = 2
  BackupRetention = 1
  MaxDays = 2
  MaxRuns = 2
  MaxConns = 1
  MaxJobFaults = 2
  ApyDates = {1, 2, 3}
  Backfills = {b1}
  ApyReaders = {r1}
  ApyRetention = 1
  MaxApyWrites = 2
  MaxApyFaults = 1
  MaxApyLag = 1
  Calls = {c1, c2, c3}
  failureThreshold = 3
  windowMs = 2
  cooldownMs = 2
  MappedEndpoints = {e1}
  OtherEndpoints = {e2}
  SloWindow = 2
  AlertCooldown = 1
  LatMaxTime = 4
  MaxPoints = 2
CHECK_DEADLOCK FALSE
INVARIANTS WorkersTypeOK DeliveriesAccounted EmailsAccounted GuardsHold
PROPERTIES DeletedStaysDeleted StoredIsKept WorkSettles
