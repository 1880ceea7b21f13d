\* Two paths and two attributes over two ticks, in a build that reads size and
\* limit twice: the size may grow in between.
SPECIFICATION HSpec
CONSTANTS
  c1 = c1 c2 = c2
  p1 = p1 p2 = p2
  a1 = a1 a2 = a2
  Clients <- TwoClients
  Paths <- TwoPaths
  Attrs <- TwoAttrs
  MTimes = {0}
  ExpireSettings = {1}
  MaxSettings = {1}
  DefaultExpire = 1
  DefaultMax = 1
  MaxTime = 2
  SizeModulus = 16
  SubLow = 2 SubHigh = 4 DeltaMin = 1 DeltaDiv = 2 DeltaMax = 3
  RereadsBounds = TRUE
SYMMETRY Symmetry
INVARIANTS TypeOK  ServedWasOffered IdleEntryExpires RemovedStaysGone
PROPERTY ImplementsFifo
