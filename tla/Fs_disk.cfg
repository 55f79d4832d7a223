CONSTANTS
  NBLOCKS = 9
  NDIRECT = 1
  NINDIRECT = 1
  BLKFILES = 2
  Motd = "newmotd"
  Names = {"a", "b"}
  Files <- MCFiles
  Bytes = {1, 2}
  MAXOPS = 6
  MAXBOOTS = 3
  None = None
SPECIFICATION Spec
CHECK_DEADLOCK FALSE
INVARIANTS BlocksExact PanicOnlyWhenFull PromiseKept
PROPERTIES OneFileChanges
