SPECIFICATION Spec
CONSTANTS
  None = None
  Scopes = {1, 2, 3}
  Kinds = {"var", "import"}
  Minified = {"x"}
  Names <- AllNames
  Programs <- AllPrograms
  Count = 3
INVARIANTS
  ScopesDistinct
  BindingsKept
PROPERTY Finishes
CHECK_DEADLOCK FALSE
