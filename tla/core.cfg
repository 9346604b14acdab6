\* Three processes and one device, programs that never terminate a process that waits.
CONSTANTS
  MAXPROC = 3
  MAXPRIO = 1
  MAXSEMD = 60
  NDEV = 2
  TERM = 2
  UINT = 8
  Priorities = {0, 1}
  UserSem = {s1}
  timerSem = timerSem
  childSem = childSem
  Device = {0}
  SEMCAP = 1
  Discipline = "unblocked"
SPECIFICATION HandlerSpec
INVARIANTS
  SemaphoresSound
  OnePlace
  ActiveCounts
  SoftblockCounts
  ReadySorted
  PriorityKept
  TreeSound
  NoOrphan
  StopsRight
  RequestHasWaiter
  Supported
PROPERTIES
  NoOvertaking
  HandlersEnd
  RequestsComplete
  IdleResumes
  NoStarvation
  ImplementsNucleus
