SPECIFICATION Spec
CONSTANTS
  poller = poller
  user = user
  Threads = {poller, user}
  Conns = {c1, c2}
  Hosts <- EachHost
  Modes = {FALSE}
  LockWorks = TRUE
  Short = FALSE
  SndBuf = 7
  Cuts = {0, 1, 2, 3}
  INVALID_SOCKET = INVALID_SOCKET
  STALE = STALE
  NoThread = NoThread
  NoMsg = NoMsg
INVARIANTS
  AnswerIsOwn
  PowerReachesCard
PROPERTIES
  EjectOnlyDead
  ImplementsChannel
