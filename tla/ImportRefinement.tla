-------------------------- MODULE ImportRefinement --------------------------
(***************************************************************************)
(* ProviderImport as an implementation of SwitchService.  A tool reads its *)
(* files; it is unsettled after a failure, and from the record that is     *)
(* saved over its active provider to the switch that reloads it.           *)
(***************************************************************************)
EXTENDS ProviderImport

\* The import has changed the active provider of the kind and not yet switched to it.
ReloadDue(k) ==
  /\ active[k] # None /\ active[k] \in Changed
  /\ \/ req.pc \in {"save", "resolve"}
     \/ req.pc = "apply" /\ req.target[k] # None

\* What provider u, being r, says.
Says == [u \in Uids |-> [r \in Row |-> {[uid |-> u, val |-> r.val]}]]

tool == [k \in Kinds |-> IF cut[k] \/ ReloadDue(k) THEN None ELSE files[k]]

Service == INSTANCE SwitchService WITH
  Providers <- Uids, Rows <- Row, NoRow <- Absent, Settings <- Content, Unsettled <- None,
  table <- rows, chosen <- active

\* An import, with the exports beside it and the errors within it, does nothing to
\* the table, the choices and the tools that the user could not do by hand
\* (provider_transfer.go): it adds and edits providers and chooses some of them, a tool is only
\* ever given what the provider chosen for it says, and the tool of a chosen provider that a
\* record was saved over is settled again by nothing but a switch.
ImportKeepsService == Service!Spec
=============================================================================
