\* All command lines of three arguments, all kinds of files, listings and reads.
SPECIFICATION FsFairSpec
CONSTANTS
  Sizes = {1, 2, 3}
  Offsets = {0, 1, 2, 3}
  Lengths = {0, 1, 2, 3, 4}
  LocalZone = 2
  CommandLines <- UpToThreeArguments
  Documents <- SomeDocuments
  Statuses = {200, 404}
  RootStats <- SomeRoots
  Descriptions <- SomeDescriptions
  Leftover <- SomeLeftover
INVARIANTS FsTypeOK OptionsTaken ReadOnlyMount NoExecMount ShownKindOpens
  ProcTreeIsWhole ListedDirOpens ListingIsWhole EndOfFileAgrees 
  StaysInBuffer 
 
