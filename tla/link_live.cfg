SPECIFICATION PollingSpec
CONSTANTS
  poller = poller
  user = user
  Threads = {user}
  Conns = {c1, c2}
  Hosts <- Asking
  Modes = {FALSE, TRUE}
  LockWorks = TRUE
  Short = FALSE
  SndBuf = 7
  Cuts = {0, 3}
  INVALID_SOCKET = INVALID_SOCKET
  STALE = STALE
  NoThread = NoThread
  NoMsg = NoMsg
INVARIANTS
  NoAnswerLeft
PROPERTIES
  CallsReturn
  CardIsFound
