SPECIFICATION CommandSpec
CONSTANTS
  HALF = 2
  UINT32 = 4
  UINT64 = 16
  SMALL_CMD_STR_LEN = 2
  LARGE_CMD_STR_LEN = 2
  Garbage = Garbage
  NULL = NULL
  Message <- MCMessage
  Field <- MCField
  MaxCommands = 2
  MaxInternals = 1
  MaxArrays = 3
  MaxStrings = 3
  MaxId = 3
INVARIANTS
  UniqueCommandId
