SPECIFICATION Spec
CONSTANTS
  Conns = {c1, c2}
  MaxFd = 3
  Script <- StartAndStop
  Garbling = {}
INVARIANTS UniqueSocketIds
CHECK_DEADLOCK FALSE
