SPECIFICATION Spec
CONSTANTS
  c1 = c1
  c2 = c2
  m1 = m1
  m2 = m2
  g1 = g1
  on = on
  n1 = n1
  l1 = l1
  l2 = l2
  rich = rich
  plain = plain
  account = account
  Conns = {c1, c2}
  Models = {m1, m2}
  Guards = {g1}
  Modifiers = {on}
  Natives = {n1}
  Logins = {l1, l2}
  Refreshed = {l1}
  Busy = {"codex"}
  Overlap = {"claude"}
  Expanded <- Same
  None = None
  Kinds = {"claude", "codex"}
  Providers = {rich, account}
  Decl <- Declares
  Starts <- StartFiles
  Homes <- AccountHomes
  Workers = {w1, w2}
  Seconds = {1, 2}
SYMMETRY WorkerSymmetry
INVARIANTS TypeOK BackupsHold AppliedInForce
PROPERTIES NativeKept ReapplyStable
