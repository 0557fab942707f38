SPECIFICATION FairSpec
CONSTANTS
  Conns = {c1, c2, c3}
  MaxFd = 3
  Script <- RunForever
  Garbling = {c1}
PROPERTIES RequestsAnswered
\* Every client may have left.
CHECK_DEADLOCK FALSE
