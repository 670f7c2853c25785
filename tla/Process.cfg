CONSTANTS
  None = None
  InvalidPath = InvalidPath
  Numbers <- MCNumbers
  Defaults <- MCDefaults
  CommandLines <- MCCommandLines
  Environments <- MCEnvironments
  Leeway = 1
  Width = 3
  MaxTime = 4
  MaxStarts = 2
  Store <- TheStore
  Paths <- MCPaths
  FileNames <- MCNames
SPECIFICATION Spec
INVARIANT TypeOK
INVARIANT ServesWhatWasAsked
INVARIANT SessionLasts
INVARIANT SessionEnds
INVARIANT StaysInStore
CHECK_DEADLOCK FALSE
