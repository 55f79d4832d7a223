\* Up to four CPUs, of which NCPU = 3 are used, and memories of 10 to 27 pages.
SPECIFICATION FairSpec
CONSTANTS
  PGSIZE = 8
  NPT = 23
  IOPHYSMEM = 10
  EXTPHYSMEM = 11
  MPENTRY = 2
  NCPU = 3
  KSTK = 1
  KGAP = 1
  KWIN = 2
  PAGEINFO = 1
  ENVS = 3
  MAXPAGES = 27
  NHW = 4
  Machines <- MCMachines
CHECK_DEADLOCK FALSE
INVARIANTS FreeExact AlwaysMapped StacksPrivate LapicExact
PROPERTIES BootCompletes
