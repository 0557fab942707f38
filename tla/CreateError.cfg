SPECIFICATION FairSpec
CONSTANTS
  Handlers = {h1, h2}
  Usernames = {alice, bob}
  Passwords = {p1}
  Salts = {s1}
  Contents = {hi}
  Apostrophe = {}
  NULL = NULL
  Actions <- AccountActions
  MaxRequests = 2
PROPERTIES CreateErrorMeansExists
