\* Whom the end of a process wakes.
CONSTANTS
  MAXPROC = 3
  MAXPRIO = 1
  MAXSEMD = 60
  NDEV = 2
  TERM = 2
  UINT = 8
  Priorities = {0, 1}
  UserSem = {s1}
  timerSem = timerSem
  childSem = childSem
  Device = {0}
  SEMCAP = 1
  Discipline = "unblocked"
SPECIFICATION Spec
PROPERTIES
  WakesOwnParent
