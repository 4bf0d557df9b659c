\* A redemption that overlaps an edit of the organisation's profile.
SPECIFICATION Spec
CONSTANTS
  None = None
  Unlimited = Unlimited
  Orgs = {o1}
  Founders = {o1}
  PlatformOrgs = {}
  Names = {n1, n2}
  Plans = {}
  Codes = {c1}
  IssuedCodes = {c1}
  Durations = {1}
  InitialTerms = {1}
  SetDates = {}
  Requests = {r1, r2}
  Ops = {"redeem", "rename", "logo"}
  MaxNow = 0
  MaxBatch = 1
  MaxInFlight = 2
  MaxCrashes = 0
INVARIANTS MonthsAddUp
