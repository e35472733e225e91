SPECIFICATION Spec
CONSTANTS
  p1 = p1
  p2 = p2
  Providers = {p1, p2}
  KindOf <- CodexOnly
  Conns = {c1, c2}
  Models = {m1, m2, None}
  Workers = {w1}
  Enforced = {TRUE, FALSE}
  Ops = {"create", "login", "switch", "update", "model", "delete"}
  Offered = {"gateway"}
  Found = {"none", "gateway"}
  Overlap = FALSE
  Faults = TRUE
  None = None
SYMMETRY SameKindSymmetry
INVARIANTS TypeOK AppliedMatchesActive PublishedWhole
PROPERTIES ActivationFollowsFiles ImplementsService
