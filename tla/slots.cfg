SPECIFICATION Spec
CONSTANTS
  Luns <- TwoSlots
  Slots = {0, 1}
  SlotOf <- SlotNumber
  Fds = {3, 4, 5, 6, 7}
  INVALID_SOCKET = INVALID_SOCKET
  NoLun = NoLun
INVARIANTS
  SocketsAreOwn
  NoneLost
  CommandsReachOwnCard
  NoDanglingContext
PROPERTIES
  LeavesOthersAlone
