-------------------------- MODULE MCProviderSwitch --------------------------
(* Instances of ProviderSwitch for TLC. *)
EXTENDS SwitchRefinement, TLC

CONSTANTS p1, p2

CodexOnly  == [p \in Providers |-> "codex"]
ClaudeOnly == [p \in Providers |-> "claude"]

\* Providers of one kind, connections, declared models and requests are
\* interchangeable.
SameKindSymmetry ==
  Permutations(Providers) \cup Permutations(Conns) \cup Permutations(Models \ {None})
RaceSymmetry == Permutations(Providers) \cup Permutations(Workers)
=============================================================================
