\* Nothing changes its nature in the middle of a lookup, no request is lost.
SPECIFICATION FairSpec
CONSTANTS
  c1 = c1 c2 = c2 p1 = p1 p2 = p2 root = root dot = dot
  Clients <- TwoClients
  Files <- OnePath
  Root = root
  Dots <- OneDot
  Resources <- Honest
  Absent <- Nothing
  PageLength = 9
  Failures = FALSE
  Races = FALSE
  MaxChanges = 2
INVARIANTS TypeOK AnswersWereTrue
 
