CONSTANTS
  Slots = 4
  MaxAdapters = 5
  Piece <- Pieces
  Path <- Paths
  MountPath <- MountPaths
  TooLong <- LongPaths
  Handle = {f1}
  Name = {"a", "x"}
  LocalFolder <- Folders
  DefaultFolder <- Defaults
  Size <- Sizes
  Fragment = 4
  Extra = 1
  Width = 32
SPECIFICATION Spec
INVARIANT OwnedOnce
INVARIANT HandleServed
INVARIANT BufferBacked
PROPERTY EntryNamed
PROPERTY ImplementsMountTable
CHECK_DEADLOCK FALSE
