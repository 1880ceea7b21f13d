\* A lost request makes a regular file of a directory.
SPECIFICATION Spec
CONSTANTS
  c1 = c1 c2 = c2 p1 = p1 p2 = p2 root = root dot = dot
  Clients <- TwoClients
  Files <- OnePath
  Root = root
  Dots <- OneDot
  Resources <- FilesAndDirs
  Absent <- Nothing
  PageLength = 9
  Failures = TRUE
  Races = FALSE
  MaxChanges = 0
SYMMETRY Symmetry
INVARIANT KindsWereTrue
