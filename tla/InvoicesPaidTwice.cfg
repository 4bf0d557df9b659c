\* Two payments of the same invoice overlap.
SPECIFICATION Spec
CONSTANTS
  None = None
  Unlimited = Unlimited
  Orgs = {o1}
  Invoices = {i1}
  Durations = {1}
  InitialTerms = {1}
  SetTerms = {}
  Requests = {r1, r2, r3}
  Ops = {"create", "pay"}
  YearLength = 2
  Base = 2
  Capacity = 3
  MaxNow = 0
  MaxOverlap = 2
  MaxCrashes = 0
INVARIANTS PaymentCountsOnce
