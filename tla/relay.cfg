SPECIFICATION RunSpec
CONSTANTS
  Driver = "listen"
  Connector = "vicc"
  Polite = FALSE
  None = None
  Garbled = Garbled
  Empty = Empty
INVARIANTS
  RelayedOnce
PROPERTIES
  ImplementsChannel
  HostAnsweredOrDropped
  HostReconnects
