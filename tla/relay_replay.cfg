SPECIFICATION Spec
CONSTANTS
  Driver = "host"
  Connector = "pcsc"
  Polite = FALSE
  None = None
  Garbled = Garbled
  Empty = Empty
INVARIANT RelayedOnce
