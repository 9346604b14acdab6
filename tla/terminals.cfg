\* Three processes that share a terminal.
CONSTANTS
  Proc = {p1, p2, p3}
  NONE = NONE
SPECIFICATION Spec
INVARIANTS
  TypeOK
  OwnResult
  Matched
PROPERTIES
  NoneGoesOnUnset
  RequestsAnswered
