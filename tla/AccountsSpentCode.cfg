\* Two requests that overlap, each with a backup code of its own.
SPECIFICATION Spec
CONSTANTS
  r1 = r1
  r2 = r2
  Requests = {r1, r2}
  Indices = {1, 2}
  MaxEpochs = 1
  MaxSecrets = 1
  MaxLinks = 0
  MaxBegun = 4
INVARIANT SpentCodesGone
CHECK_DEADLOCK FALSE
