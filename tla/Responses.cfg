SPECIFICATION Spec
CONSTANTS
  Handlers = {h1, h2}
  Usernames = {alice, bob}
  Passwords = {p1}
  Salts = {s1}
  Contents = {hi, dont}
  Apostrophe = {dont}
  NULL = NULL
  Actions <- AllActions
  MaxRequests = 4
SYMMETRY NameSymmetry
INVARIANTS TypeOK
PROPERTIES NoSuccessAfterLoss ServiceRefined
