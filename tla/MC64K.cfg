SPECIFICATION StartSpec
CONSTANTS
  CommandLines <- lines
  Table <- table
  Problems <- problems
  NULL = NULL
  Files <- files
  FIELDS = 2
  MAXFILTERS = 2
  OCTET = 3
INVARIANT SupportedFit
CHECK_DEADLOCK FALSE
