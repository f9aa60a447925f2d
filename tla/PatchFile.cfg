SPECIFICATION Spec
CONSTANTS
  None = None
  Radix = 5
  WordSize = 1
  HashSize = 1
  Magic <- Header
  Utf8 = {0, 1, 2}
  Bundles <- Sendable
INVARIANTS OnlyWritten Understood OneRecordEach
CHECK_DEADLOCK FALSE
