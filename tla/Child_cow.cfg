\* Environments that fork and spawn, with memory that can run out.
SPECIFICATION Spec
CONSTANTS
  None = None
  Envs = {e1, e2, e3}
  First = e1
  NFRAMES = 10
  Values = {0, 1}
  Segments <- MCSegments
  Image <- MCImage
  Calls = {"fork", "spawn", "exit"}
SYMMETRY MCSymmetry
VIEW MCView
CHECK_DEADLOCK FALSE
INVARIANTS Isolation NoFatalFault SpawnCleansUp
