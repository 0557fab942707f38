SPECIFICATION Spec
CONSTANTS
  Handlers = {h1, h2}
  Usernames = {alice, bob}
  Passwords = {p1}
  Salts = {s1}
  Contents = {hi}
  Apostrophe = {}
  NULL = NULL
  Actions <- MessageActions
  MaxRequests = 5
SYMMETRY Symmetry
INVARIANTS TablesConsistent StaleIdsNeverRebound IInv
PROPERTIES ServiceRefined
