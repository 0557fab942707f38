SPECIFICATION Spec
CONSTANTS
  c1 = c1
  c2 = c2
  Clients = {c1}
  Usernames = {alice, bob}
  Passwords = {p1}
  Contents = {hi}
  Apostrophe = {}
  Capacity = 1
  NULL = NULL
  Offered <- AllActions
  Lengths = {1, 2, 3}
  MaxRequests <- SessionOfOne
SYMMETRY NameSymmetry
INVARIANTS TypeOK InStep LoginVerified SendersVerified NoBrokenPipe IInv
CHECK_DEADLOCK FALSE
