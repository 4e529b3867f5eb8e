SPECIFICATION FairSpec
CONSTANTS
  Clients = {c1, c2}
  Readers = {0}
  Slots = {0}
  Seconds = {0, 1}
  MaxUse = 3
  None = None
INVARIANTS
  ReservedIsAlone
PROPERTIES
  PowerIsOwn
  ChannelsStay
  ChangeIsTold
