SPECIFICATION Spec
CONSTANTS
  p1 = p1
  p2 = p2
  Providers = {p1, p2}
  KindOf <- CodexOnly
  Conns = {c1}
  Models = {m1}
  Workers = {w1}
  Enforced = {TRUE}
  Ops = {"create", "login", "switch", "delete"}
  Offered = {"gateway", "official"}
  Found = {"none", "gateway", "official"}
  Overlap = FALSE
  Faults = TRUE
  None = None
SYMMETRY SameKindSymmetry
PROPERTY StartNotRefused
