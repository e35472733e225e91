-------------------------- MODULE SwitchRefinement --------------------------
(***************************************************************************)
(* ProviderSwitch as an implementation of SwitchService.  A tool reads its *)
(* managed files; it is unsettled while a change of them is under way, or  *)
(* when the last one was cut short or was answered as done without         *)
(* reloading the tool.  The step that chooses a provider is the statement  *)
(* that marks it active (or marks an imported provider active).            *)
(***************************************************************************)
EXTENDS ProviderSwitch

\* The files that decide what a tool does: claude with a gateway in
\* settings.json does not look at the credentials.
ReadBy(k, main) == IF k = "claude" /\ main.form = "gateway" THEN {"main"} ELSE {"main", "cred"}

ReadFrom(k, d) ==
  [f \in Files |-> IF f \in ReadBy(k, d["main"].data) THEN d[f].data ELSE NoFile]

\* What provider p, being r, says: a blank model leaves the tool any, and an
\* edit in place does not add one where there is none.
ModelsOf(r) == IF r.model = None THEN Models \cup {None} ELSE {r.model, None}
Says ==
  [p \in Providers |-> [r \in Row |->
    {[f \in Files |-> IF f \in Targets(p, r) THEN Rendered(p, WithModel(r, m), f) ELSE NoFile] :
       m \in ModelsOf(r)}]]

tool == [k \in Kinds |-> IF Settled(k) THEN ReadFrom(k, disk[k]) ELSE None]

Service == INSTANCE SwitchService WITH
  Rows <- Row, NoRow <- Absent, Settings <- [Files -> Content], Unsettled <- None,
  table <- rows, chosen <- active

\* The whole service, with its handlers, files, failures, crashes and restarts,
\* is a table, a choice and a tool that change together: seen from outside,
\* SwitchProvider (manager.go:71) takes effect in the one statement that marks
\* the provider active.  Between a tool and its provider come only a change under
\* way, one that failed or was interrupted, one answered as done without a reload
\* (server.go:382, server.go:595), and the models of ModelsOf.
ImplementsService == Service!Spec
=============================================================================
