SPECIFICATION FairSpec
CONSTANTS
  Requests = {r1, r2}
  Commands = {r2}
  Backends = {"vpcd", "tcp", "pipe"}
  Server = Server
  MaxStarts = 1
  MaxMoves = 3
INVARIANTS
  CompletedOnce
  ToldTruly
  OfferIsRead
PROPERTIES
  RemovalIsTold
CHECK_DEADLOCK FALSE
