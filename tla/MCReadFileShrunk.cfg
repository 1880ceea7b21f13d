\* A file that has become shorter.
SPECIFICATION Spec
CONSTANTS
  Sizes <- OneToThree
  Offsets <- UpToFour
  Lengths <- UpToFour
INVARIANT ReadMatchesServer
