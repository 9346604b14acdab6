\* The slice, when two reads of the clock in scheduler() may differ.
CONSTANTS
  UINT = 32
  PERIOD = 10
  TIMESLICE = 3
  Gap = {0, 1}
  Work = {0, 1, 2}
  Boots = {0}
  Proc = {p1, p2}
  NULL = NULL
SPECIFICATION Spec
INVARIANTS
  SliceKept
