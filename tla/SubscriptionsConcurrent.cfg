\* Every overlap of three requests on codes, organisations and their names, with one restart.
SPECIFICATION Spec
CONSTANTS
  None = None
  Unlimited = Unlimited
  Orgs = {o1, o2}
  Founders = {o1}
  PlatformOrgs = {}
  Names = {n1, n2}
  Plans = {}
  Codes = {c1, c2}
  IssuedCodes = {c1}
  Durations = {1, Unlimited}
  InitialTerms = {1}
  SetDates = {3}
  Requests = {r1, r2, r3}
  Ops = {"issue", "revoke", "redeem", "register", "set", "rename", "logo"}
  MaxNow = 1
  MaxBatch = 2
  MaxInFlight = 3
  MaxCrashes = 1
SYMMETRY RequestSymmetry
INVARIANTS TypeOK CodeConsumedOnce NeverOverCredited NobodyStuck
PROPERTY CodeLedgerSpec
