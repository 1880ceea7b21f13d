\* Requests are lost, and paths change under the lookups.
SPECIFICATION Spec
CONSTANTS
  c1 = c1 c2 = c2 p1 = p1 p2 = p2 root = root dot = dot
  Clients <- TwoClients
  Files <- OnePath
  Root = root
  Dots <- OneDot
  Resources <- Described
  Absent <- Nothing
  PageLength = 9
  Failures = TRUE
  Races = TRUE
  MaxChanges = 2
SYMMETRY Symmetry
INVARIANTS  AbsentWasAbsent
