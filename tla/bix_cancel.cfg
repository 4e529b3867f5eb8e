SPECIFICATION Spec
CONSTANTS
  Requests = {r1}
  Commands = {}
  Backends = {"vpcd"}
  Server = Server
  MaxStarts = 1
  MaxMoves = 2
INVARIANTS
  CancelledIsForgotten
CHECK_DEADLOCK FALSE
