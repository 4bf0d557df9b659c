\* Four requests that create, edit, deactivate, give out and take back two
\* pieces, with one restart.
SPECIFICATION Spec
CONSTANTS
  None = None
  Keep = Keep
  n1 = n1
  n2 = n2
  t1 = t1
  plain = plain
  separated = separated
  lower = lower
  Pieces = {p1, p2}
  Stocked = 1
  Members = {m1, m2}
  Numbers = {n1, n2}
  Tags = {t1}
  Spellings = {plain, separated, lower}
  Normal = plain
  NewTags <- MCNewTags
  Edits <- AllEdits
  Requests = {r1, r2, r3, r4}
  Ops = {"create", "update", "deactivate", "issue", "return"}
  MaxCrashes = 1
SYMMETRY MCSymmetry
CHECK_DEADLOCK FALSE
INVARIANTS TypeOK FoundByItsMarks
PROPERTIES CustodySpec HistoryStays
