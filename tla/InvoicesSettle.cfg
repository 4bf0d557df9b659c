\* Invoices issued at the same time, around a turn of the year, while they are settled one at a time.
SPECIFICATION FairSpec
CONSTANTS
  None = None
  Unlimited = Unlimited
  Orgs = {o1}
  Invoices = {i1, i2, i3}
  Durations = {1}
  InitialTerms = {1}
  SetTerms = {Unlimited}
  Requests = {r1, r2, r3, r4}
  Ops = {"create", "pay", "cancel", "set"}
  YearLength = 2
  Base = 2
  Capacity = 3
  MaxNow = 2
  MaxOverlap = 1
  MaxCrashes = 1
INVARIANTS TypeOK NumbersConsecutive
PROPERTIES InvoiceLedgerSpec RequestsEnd
