\* The last device: terminal 7. Its commands succeed (TERM is out of range).
CONSTANTS
  MAXPROC = 2
  MAXPRIO = 1
  MAXSEMD = 60
  NDEV = 2
  TERM = 2
  UINT = 8
  Priorities = {0, 1}
  UserSem = {s1}
  timerSem = timerSem
  childSem = childSem
  Device = {1}
  SEMCAP = 1
  Discipline = "unblocked"
SPECIFICATION FairSpec
PROPERTIES
  IoCompletes
