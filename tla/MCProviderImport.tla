--------------------------- MODULE MCProviderImport ---------------------------
(* Instances of ProviderImport for TLC. *)
EXTENDS ImportRefinement, TLC

CONSTANT codex

CodexOnly == [u \in Uids |-> codex]
Interchangeable == Permutations(Uids) \cup Permutations(Names) \cup Permutations(Vals)
=============================================================================
