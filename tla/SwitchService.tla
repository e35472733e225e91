---------------------------- MODULE SwitchService ----------------------------
(***************************************************************************)
(* What the service promises whoever uses it: a table of providers, the    *)
(* provider chosen for each tool, and what each tool reads, which changes  *)
(* together with the choice in one step.  The one concession is that a     *)
(* tool may be unsettled: from the first file that a switch replaces, or   *)
(* from the edit of the chosen provider, until a switch is completed.      *)
(* Nothing of how a switch works is in here.  ProviderSwitch implements    *)
(* it, and so does ProviderImport, whose imports are long series of edits  *)
(* and choices.                                                            *)
(***************************************************************************)
CONSTANTS
  Providers, Kinds, KindOf,
  Rows,        \* what a provider may be
  NoRow,       \* a provider that is not in the table
  Settings,    \* what a tool may read
  Says,        \* Says[p][r]: what a tool may read when provider p, being r, is in force
  Unsettled,   \* what an unsettled tool reads is not promised
  None

VARIABLES table, chosen, tool

vars == <<table, chosen, tool>>

\* A settled tool with a chosen provider reads something that provider says now,
\* and the chosen provider is one of the tool's own in the table.
ToolFollowsChoice ==
  \A k \in Kinds : chosen[k] # None =>
    /\ chosen[k] \in Providers /\ KindOf[chosen[k]] = k /\ table[chosen[k]] # NoRow
    /\ tool[k] \in {Unsettled} \cup Says[chosen[k]][table[chosen[k]]]

\* Whatever earlier runs of the program have left.
Init ==
  /\ table \in [Providers -> Rows \cup {NoRow}]
  /\ chosen \in [Kinds -> Providers \cup {None}]
  /\ tool \in [Kinds -> Settings]
  /\ ToolFollowsChoice

\* A new provider is in force nowhere.
Add(p, r) ==
  /\ table[p] = NoRow
  /\ \A k \in Kinds : chosen[k] # p
  /\ table' = [table EXCEPT ![p] = r]
  /\ UNCHANGED <<chosen, tool>>

\* An edit of the chosen provider reaches the tool at once or has yet to.
Edit(p, r) ==
  /\ table[p] # NoRow
  /\ table' = [table EXCEPT ![p] = r]
  /\ \/ chosen[KindOf[p]] # p /\ UNCHANGED tool
     \/ /\ chosen[KindOf[p]] = p
        /\ \E reads \in {Unsettled} \cup Says[p][r] : tool' = [tool EXCEPT ![KindOf[p]] = reads]
  /\ UNCHANGED chosen

\* The tool goes on with what it has.
Dismiss(k) ==
  /\ chosen' = [chosen EXCEPT ![k] = None]
  /\ UNCHANGED <<table, tool>>

\* A provider that leaves the table is chosen no more.
Remove(p) ==
  /\ table' = [table EXCEPT ![p] = NoRow]
  /\ chosen' = [k \in Kinds |-> IF chosen[k] = p THEN None ELSE chosen[k]]
  /\ UNCHANGED tool

\* One failure may unsettle several tools.
Unsettle(K) ==
  /\ tool' = [k \in Kinds |-> IF k \in K THEN Unsettled ELSE tool[k]]
  /\ UNCHANGED <<table, chosen>>

\* A provider of the table is chosen, and the tool reads what it says.
Choose(p) ==
  /\ table[p] # NoRow
  /\ chosen' = [chosen EXCEPT ![KindOf[p]] = p]
  /\ \E reads \in Says[p][table[p]] : tool' = [tool EXCEPT ![KindOf[p]] = reads]
  /\ UNCHANGED table

Next ==
  \/ \E p \in Providers, r \in Rows : Add(p, r) \/ Edit(p, r)
  \/ \E p \in Providers : Remove(p) \/ Choose(p)
  \/ \E k \in Kinds : Dismiss(k)
  \/ \E K \in SUBSET Kinds : Unsettle(K)

Spec == Init /\ [][Next]_vars

=============================================================================
