SPECIFICATION Spec
CONSTANTS
  MaxFiles = 4
  Fcps <- FcpSet
  Paths <- PathSet
  Names = {"A", "A1", "A2"}
  StartsWith <- Started
  Octets <- OctetSet
  None = None
INVARIANTS
  TreeIsTree
  FidsAreUnique
  NamesAreKnown
  PathLeadsBack
CHECK_DEADLOCK FALSE
