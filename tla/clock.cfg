\* Slices and the pseudo-clock; reads of the clock differ by up to one unit.
CONSTANTS
  UINT = 16
  PERIOD = 5
  TIMESLICE = 2
  Gap = {0, 1}
  Work = {0, 1}
  Boots <- Times
  Proc = {p1, p2}
  NULL = NULL
SPECIFICATION FairSpec
INVARIANTS
  TypeOK
  NeverEarly
  WithinSlice
PROPERTIES
  WaitersWoken
