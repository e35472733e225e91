SPECIFICATION FairSpec
CONSTANTS
  Accounts = {a1, a2}
  Sessions = {s1}
  Handlers = {h1, h2}
  Overlap = TRUE
  None = None
PROPERTY RequestsAnswered
CHECK_DEADLOCK FALSE
