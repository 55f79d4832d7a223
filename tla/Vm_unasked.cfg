CONSTANTS
  NPAGES = 5
  REFMOD = 65536
  Envs = {e1, e2}
  Vas <- MCVas
  Pdxs <- MCPdxs
  PDX <- MCPDX
  None = None
  InitEnv = e1
  InitVa = "va1"
  ZeroVa = "va0"
  Programs <- MCMessages
SPECIFICATION Spec
CHECK_DEADLOCK FALSE
VIEW MCView
PROPERTIES NothingUnasked
