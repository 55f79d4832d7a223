CONSTANTS
  Cpus = {c1, c2}
  BootCpu = c1
  NENV = 3
  NINIT = 2
  NGEN = 2
  Traps = {"SYSCALL", "TIMER"}
  Calls = {"yield", "exofork", "destroy", "status", "ipc"}
  Liberties = {}
  NoEnv = NoEnv
  NoCpu = NoCpu
  KernPgdir = KernPgdir
SYMMETRY CpuSymmetry
SPECIFICATION Spec
INVARIANTS OneCpu AddressSpaceAlive MonitorIsFinal
