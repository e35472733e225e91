SPECIFICATION Spec
CONSTANTS
  codex = codex
  Uids = {u1, u2, u3}
  Kinds = {codex}
  KindOf <- CodexOnly
  Names = {n1, n2}
  Vals = {v1, v2}
  MaxEdits = 1
  Faults = TRUE
  None = None
SYMMETRY Interchangeable
INVARIANTS ReferencesResolve ActiveApplied RestoreIsFaithful

PROPERTIES ImportKeepsService
