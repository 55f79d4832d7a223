CONSTANTS
  Cpus = {c1, c2}
  BootCpu = c1
  NENV = 4
  NINIT = 4
  NGEN = 2
  Traps = {"SYSCALL", "TIMER", "DEVICE"}
  Calls = {"yield", "ipc"}
  Liberties = {}
  NoEnv = NoEnv
  NoCpu = NoCpu
  KernPgdir = KernPgdir
SPECIFICATION FairSpec
PROPERTIES RunnableRuns
