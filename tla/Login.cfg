SPECIFICATION FairSpecH
CONSTANTS
  Accounts = {a1, a2}
  Sessions = {s1, s2}
  Handlers = {h1}
  Overlap = FALSE
  None = None
INVARIANTS BarIsLifted Cancellable LocksNotCrossed AloneUnlessOutlived
PROPERTIES RequestsAnswered BarFalls
