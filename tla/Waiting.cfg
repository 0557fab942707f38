SPECIFICATION FairSpec
CONSTANTS
  c1 = c1
  c2 = c2
  Clients = {c1, c2}
  Usernames = {alice}
  Passwords = {p1}
  Contents = {hi}
  Apostrophe = {}
  Capacity = 1
  NULL = NULL
  Offered <- AllActions
  Lengths = {1, 2, 3}
  MaxRequests <- SessionBesideAnother
PROPERTIES WaitEnds HandlersLeave
CHECK_DEADLOCK FALSE
