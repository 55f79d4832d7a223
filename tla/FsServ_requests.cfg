\* The file server with two clients, one of them forked from the other.
SPECIFICATION FairSpec
CONSTANTS
  None = None
  Clients = {c1, c2}
  First = c1
  Fds = {0, 1}
  MAXOPEN = 2
  IDMOD = 8
  MAXSIZE = 2
  Programs <- MCPrograms
CHECK_DEADLOCK FALSE
INVARIANTS FdStaysOpen EachPositionOnce PanicsHaveACause
PROPERTIES AcceptedIsAnswered
