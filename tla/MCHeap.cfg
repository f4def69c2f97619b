SPECIFICATION Spec
CONSTANTS
  Entries <- MCEntries
  key <- MCKey
  OK = OK
  ERR = ERR
  Room = 5
  HYSTERESIS = 2
INVARIANTS PeekIsLeast
PROPERTIES IsQueue CallsReturn
