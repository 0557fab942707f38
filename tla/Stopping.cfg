SPECIFICATION LeavingSpec
CONSTANTS
  Conns = {c1, c2}
  MaxFd = 3
  Script <- StartAndStop
  Garbling = {c1}
PROPERTIES StopReturns
CHECK_DEADLOCK FALSE
