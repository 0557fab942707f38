SPECIFICATION FairSpec
CONSTANTS
  Handlers = {h1, h2}
  Usernames = {alice}
  Passwords = {p1, p2}
  Salts = {s1, s2}
  Contents = {hi}
  Apostrophe = {}
  NULL = NULL
  Actions <- WriteAndVerifyActions
  MaxRequests = 4
INVARIANTS RefinementInv
PROPERTIES VerifyMatchesAccount ServiceRefined RequestsEnd
