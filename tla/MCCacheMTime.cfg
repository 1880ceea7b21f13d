\* One path added with an mtime and then found.
SPECIFICATION HSpec
CONSTANTS
  c1 = c1 c2 = c2
  p1 = p1 p2 = p2
  a1 = a1 a2 = a2
  Clients <- TwoClients
  Paths <- OnePath
  Attrs <- OneAttr
  MTimes = {0, 1}
  ExpireSettings = {1}
  MaxSettings = {1}
  DefaultExpire = 1
  DefaultMax = 1
  MaxTime = 1
  SizeModulus = 16
  SubLow = 2 SubHigh = 4 DeltaMin = 1 DeltaDiv = 2 DeltaMax = 3
  RereadsBounds = FALSE
SYMMETRY Symmetry
INVARIANT KeepsMTime
