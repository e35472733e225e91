--------------------------- MODULE MCOfficialLogin ---------------------------
(* Instances of OfficialLogin for TLC. *)
EXTENDS OfficialLogin, TLC

Interchangeable ==
  Permutations(Accounts) \cup Permutations(Sessions) \cup Permutations(Handlers)
=============================================================================
