\* CPU times of two processes.
CONSTANTS
  UINT = 16
  MAXTIME = 6
  Gap = {0, 1}
  Boots = {13}
  HANDLER = 9
  Pcb = {p1, p2}
  NULL = NULL
SYMMETRY Symmetry
SPECIFICATION Spec
INVARIANTS
  ChargedOnce
  KernelWithinTotal
PROPERTIES
  CpuWithinWall
\* MAXTIME stops the clock.
CHECK_DEADLOCK FALSE
