\* Two clients, two paths and a limit of 0 or 1, so that a round deletes more
\* than the excess or takes several chunks: inserts and setting changes between
\* all reads of trim(), quiet periods, lost signals and stop().
SPECIFICATION FairSpec
CONSTANTS
  c1 = c1 c2 = c2
  p1 = p1 p2 = p2
  a1 = a1 a2 = a2
  Clients <- TwoClients
  Paths <- TwoPaths
  Attrs = {a1}
  MTimes = {0}
  ExpireSettings = {0}
  MaxSettings = {0, 1}
  DefaultExpire = 0
  DefaultMax = 1
  MaxTime = 2
  SizeModulus = 16
  SubLow = 2 SubHigh = 3 DeltaMin = 2 DeltaDiv = 2 DeltaMax = 2
  RereadsBounds = FALSE
INVARIANTS ListMatchesMap TrimStopsAtThreshold
PROPERTIES QuietCacheShrinks StopReturns
