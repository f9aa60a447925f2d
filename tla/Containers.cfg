CONSTANTS
  Width = 1
  Bun = "bun"
  ElfSections = {"bun", "next", "names", "zero"}
  ElfSegments = {"data", "note"}
  Page = 4
  Linkedit = "linkedit"
  MachoSegments = {"bun", "linkedit", "data"}
  Refs = {"table", "note", "crypt"}
  Alignment = 4
  PeSections = {"text", "bun", "other"}
  Pointers = {"symbols", "entry"}
  DebugPointers = {"entry"}
  FileAlign = 2
  SectionAlign = 4
  MaxElfPayload = 8
  MaxMachoPayload = 12
  MaxPePayload = 9
  PayloadsOf <- AllPayloads
  InputsOf <- AllInputs
SPECIFICATION Spec
INVARIANTS
  StaysLoadable
PROPERTIES
  ImageKept
  StaysWritable
  SwapsPayloadOnly
CHECK_DEADLOCK FALSE
