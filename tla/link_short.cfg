SPECIFICATION Spec
CONSTANTS
  poller = poller
  user = user
  Threads = {poller, user}
  Conns = {c1, c2}
  Hosts <- OnlyPcscd
  Modes = {FALSE}
  LockWorks = TRUE
  Short = TRUE
  SndBuf = 7
  Cuts = {0, 2, 3}
  INVALID_SOCKET = INVALID_SOCKET
  STALE = STALE
  NoThread = NoThread
  NoMsg = NoMsg
INVARIANTS
  CardRunsCommands
