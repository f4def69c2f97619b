SPECIFICATION StartSpec
CONSTANTS
  CommandLines <- lines
  Table <- table
  Problems <- problems
  NULL = NULL
  Files <- files
  FIELDS = 2
  MAXFILTERS = 2
  OCTET = 3
INVARIANTS ParsedAsRead OffsetInCluster LoadedInOrder ExitJustified RangeIsBlock
PROPERTY StartEnds
CHECK_DEADLOCK FALSE
