SPECIFICATION ContractSpec
CONSTANTS
  a1 = a1
  a2 = a2
  a3 = a3
  s1 = s1
  s2 = s2
  h1 = h1
  h2 = h2
  Addresses = {a1, a2, a3}
  None = none
  InitialAdmin = a1
  Strategies = {s1, s2}
  Hashes = {h1, h2}
  InitialHash = h1
  Reasons = {0}
  EmergencyCalls <- MCEmergencyCalls
  Weights = {0, 1, 2}
  Thresholds = {0, 3}
  Targets = {1, 2}
  STORAGE_VERSION = 2
  MaxI128 = 4
  MaxProposals = 2
  Ids = {0, 2, 3, 5}
  ShipmentStatus = {Pending, InTransit}
  Pending = Pending
  InTransit = InTransit
  MAX_PAGE_SIZE = 2
  PageSizes = {0, 1, 3}
  Absent = absent
  NoScan = noscan
CONSTRAINT OneTrack
SYMMETRY VoterSymmetry
INVARIANTS Authorised Elected TallyIsBallots ListingExact
