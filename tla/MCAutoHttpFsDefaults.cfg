\* Headers that leave fields out.
SPECIFICATION FsSpec
CONSTANTS
  Sizes = {1}
  Offsets = {0}
  Lengths = {0, 1, 2, 3}
  LocalZone = 2
  CommandLines <- NoArguments
  Documents <- SomeDocuments
  Statuses = {200}
  RootStats <- SomeRoots
  Descriptions <- SomeDescriptions
  Leftover <- SomeLeftover
INVARIANT MissingFieldsAreDefaults
