\* One PCB used again and again, two terminals, programs without any discipline.
CONSTANTS
  MAXPROC = 1
  MAXPRIO = 1
  MAXSEMD = 6
  NDEV = 2
  TERM = 0
  UINT = 4
  Priorities = {0, 1}
  UserSem = {s1}
  timerSem = timerSem
  childSem = childSem
  Device = {0, 1}
  SEMCAP = 1
  Discipline = "any"
SPECIFICATION Spec
INVARIANTS
  TypeOK
  SemaphoresSound
  RequestHasWaiter
