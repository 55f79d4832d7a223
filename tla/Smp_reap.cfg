CONSTANTS
  Cpus = {c1, c2}
  BootCpu = c1
  NENV = 2
  NINIT = 1
  NGEN = 3
  Traps = {"SYSCALL", "TIMER", "DEVICE", "PGFLT", "OTHER"}
  Calls = {"yield", "exofork", "destroy", "status", "ipc", "trapframe"}
  Liberties = {"trapframe"}
  NoEnv = NoEnv
  NoCpu = NoCpu
  KernPgdir = KernPgdir
SPECIFICATION FairSpec
INVARIANTS Inv
PROPERTIES ZombieStaysDead NewTenantNewId ZombieReaped
