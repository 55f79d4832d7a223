CONSTANTS
  p1 = p1
  p2 = p2
  Procs = {p1, p2}
  Creator = p1
  Fds = {0, 1, 2}
  NCPU = 1
  PIPEBUFSIZ = 2
  COUNT = 2
  MAXBYTES = 4
  Programs <- MCPrograms
  None = None
SPECIFICATION FairSpec
CHECK_DEADLOCK FALSE
INVARIANTS InOrder ClosedIsReal
PROPERTIES IsChannel CallsEnd
