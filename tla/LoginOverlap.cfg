SPECIFICATION Spec
CONSTANTS
  Accounts = {a1, a2}
  Sessions = {s1, s2}
  Handlers = {h1, h2}
  Overlap = TRUE
  None = None
SYMMETRY Interchangeable
INVARIANT OneLoginAtATime
