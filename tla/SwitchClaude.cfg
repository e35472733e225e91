SPECIFICATION Spec
CONSTANTS
  p1 = p1
  p2 = p2
  Providers = {p1, p2}
  KindOf <- ClaudeOnly
  Conns = {c1}
  Models = {m1, m2}
  Workers = {w1}
  Enforced = {TRUE, FALSE}
  Ops = {"create", "login", "switch", "update", "model", "delete"}
  Offered = {"gateway", "official"}
  Found = {"none", "gateway", "official"}
  Overlap = FALSE
  Faults = TRUE
  None = None
SYMMETRY SameKindSymmetry
INVARIANTS AppliedMatchesActive NoDanglingActive
