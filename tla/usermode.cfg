\* The test again: p4b runs in user mode.
CONSTANTS
  MAXPROC = 9
  MAXPRIO = 4
  MAXSEMD = 60
  NDEV = 2
  TERM = 2
  UINT = 64
  Priorities = {}
  timerSem = timerSem
  childSem = childSem
  Device = {0}
  SEMCAP = 6
  Discipline = "any"
  term_mutex = term_mutex
  p1sem = p1sem
  p1ok = p1ok
  synp3 = synp3
  blkp3 = blkp3
  testp5 = testp5
  stack_mutex = stack_mutex
  p5p6_mutex = p5p6_mutex
  p7ok = p7ok
  p7lock = p7lock
  UserSem = {term_mutex, p1sem, p1ok, synp3, blkp3, testp5, stack_mutex, p5p6_mutex, p7ok, p7lock}
  CLOCKLOOP = 10
  Mutex <- MCMutex
  PREEMPTIONS = 0
SPECIFICATION P2Spec
PROPERTIES
  UserModeTraps
