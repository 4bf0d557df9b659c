\* Three requests of any kind, one after the other, without a crash.
SPECIFICATION Spec
CONSTANTS
  None = None
  Unlimited = Unlimited
  Orgs = {o1, o2}
  Founders = {o1}
  PlatformOrgs = {o1}
  Names = {n1, n2}
  Plans = {yearly}
  Codes = {c1, c2}
  IssuedCodes = {c1}
  Durations = {1, Unlimited}
  InitialTerms = {1, Unlimited}
  SetDates = {0, 3}
  Requests = {r1, r2, r3}
  Ops = {"issue", "revoke", "redeem", "register", "set", "rename", "logo"}
  MaxNow = 2
  MaxBatch = 2
  MaxInFlight = 1
  MaxCrashes = 0
SYMMETRY RequestSymmetry
PROPERTIES SubscriptionLedgerSpec
