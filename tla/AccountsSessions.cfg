\* Two requests at a time on one account, five in all that read its row.
SPECIFICATION Spec
CONSTANTS
  r1 = r1
  r2 = r2
  Requests = {r1, r2}
  Indices = {1, 2}
  MaxEpochs = 3
  MaxSecrets = 2
  MaxLinks = 1
  MaxBegun = 5
SYMMETRY Symmetry
INVARIANTS TypeOK RevokedStayRevoked SecondFactorInForce LinkResetsOnce
CHECK_DEADLOCK FALSE
