SPECIFICATION Spec
CONSTANTS
  Families = {f1}
  RefreshCalls = {r1, r2}
  MaxTokens = 3
  Hashes = {h1, h2}
  NoHash = none
  MAX_POLL_ATTEMPTS = 3
  MaxShows = 3
  LiveQueries = {q1, q2}
  Polled = q1
  STALE_THRESHOLD = 1
  TableRows = {1, 2, 3}
  Matching <- MCMatching
  PageSize = 2
  BatchSize = 2
  MaxEdits = 3
  deadLetterThreshold = 1
  MaxRequests = 2
  MaxClicks = 1
  Owners = {w1, w2}
  NoOwner = none
  MaxTurns = 3
  MaxAsks = 2
  MaxViewFaults = 1
  PrefTabs = {t1, t2}
  Scopes = {w1, guest}
  Guest = guest
  PrefFields = {theme, locale}
  MaxPrefWrites = 2
CHECK_DEADLOCK FALSE
INVARIANTS BrowserTypeOK SessionsHold ShownIsTrue
PROPERTIES NothingGoesBack BrowserSettles
