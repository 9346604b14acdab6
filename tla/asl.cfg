\* Two descriptors for three keys, two of which collide.
CONSTANTS
  MAXPROC = 3
  MAXSEMD = 2
  ASHDSIZE = 2
  Key = {0, 1, 3}
  Hash <- SomeHash
  p_priority <- SomePriorities
SPECIFICATION Spec
INVARIANTS
  AslSound
PROPERTIES
  ImplementsMap
