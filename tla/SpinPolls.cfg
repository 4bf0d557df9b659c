\* Two servers that start, poll and restart while interventions appear and leave the feed.
SPECIFICATION FairSpec
CONSTANTS
  g1 = g1
  g2 = g2
  g3 = g3
  o1 = o1
  Guids = {g1, g2, g3}
  Old = {g1, g2}
  Orgs = {o1}
  Concerns <- MostConcerns
  Servers = {s1, s2}
  MaxCrashes = 1
INVARIANTS TypeOK PushedOnce NoFlood
PROPERTIES NewOnesGoOut
\* All that may appear has appeared and expired: the polls go on without effect.
CHECK_DEADLOCK FALSE
