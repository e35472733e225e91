SPECIFICATION Spec
CONSTANTS
  p1 = p1
  p2 = p2
  Providers = {p1, p2}
  KindOf <- CodexOnly
  Conns = {c1}
  Models = {m1}
  Workers = {w1, w2}
  Enforced = {TRUE, FALSE}
  Ops = {"create", "switch", "delete"}
  Offered = {"gateway"}
  Found = {"none"}
  Overlap = TRUE
  Faults = FALSE
  None = None
SYMMETRY RaceSymmetry
INVARIANT NoDanglingActive
