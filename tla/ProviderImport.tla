---------------------------- MODULE ProviderImport ----------------------------
(***************************************************************************)
(* Export and import of the providers (provider_transfer.go, and the part  *)
(* of backup_transfer.go that a full backup and a cloud sync share).       *)
(*                                                                         *)
(* An export lists the providers, then the active ones, in two statements; *)
(* the sync loop may run it while anything else goes on.  An import lists  *)
(* what the table holds, then saves the records of the file one at a time, *)
(* each over the row it matches, and at last switches to the providers the *)
(* file says are active, or again to the active ones it changed.  The user *)
(* does one thing at a time.                                               *)
(*                                                                         *)
(* A row is known by its uid: the index keeps uids apart, an update keeps  *)
(* the uid of the row, and a new provider draws a new one.  A name stands  *)
(* for name and source, val for what a switch writes into the tool's files *)
(* (module ProviderSwitch has the switch itself).                          *)
(***************************************************************************)
EXTENDS FiniteSets, Naturals

CONSTANTS
  Uids,
  Kinds,
  KindOf,     \* the kind of each provider
  Names,
  Vals,
  MaxEdits,   \* a bound on the user's other requests
  Faults,     \* whether statements and switches fail
  None

ASSUME KindOfType == KindOf \in [Uids -> Kinds]
ASSUME MaxEditsType == MaxEdits \in Nat
ASSUME FaultsType == Faults \in BOOLEAN
ASSUME NoneApart == None \notin Uids \cup Names \cup Vals

VARIABLES
  rows,       \* the providers table
  active,     \* the active_providers table
  files,      \* whose content the tool's files hold
  file,       \* the last export: a downloaded file or the remote one
  listed,     \* the export under way: the providers it has listed
  req,        \* the import under way
  cut,        \* history: kinds with a failure since they were last switched
  edits       \* how many other requests the user has made

vars == <<rows, active, files, file, listed, req, cut, edits>>

Row == [name : Names, val : Vals]
Absent == [name |-> None, val |-> None]
Table == [Uids -> Row \cup {Absent}]
Links == [Kinds -> Uids \cup {None}]
Content == [uid : Uids \cup {None}, val : Vals \cup {None}]
Transfer == [rows : Table, active : Links]

Empty == [u \in Uids |-> Absent]
NoLinks == [k \in Kinds |-> None]
NoFile == [rows |-> Empty, active |-> NoLinks]
Untouched == [uid |-> None, val |-> None]

In(t) == {u \in Uids : t[u] # Absent}

\* from: the file; have, was: the tables as first listed; todo: the records to
\* save; held: the row each uid was resolved to (resolvedUIDToID); target: the
\* provider each kind is still to be switched to (applyTargets).
Import == [pc : {"idle", "save", "resolve", "apply", "done"}, restore : BOOLEAN,
           from : Transfer, have : Table, was : Links, todo : SUBSET Uids,
           held : [Uids -> Uids \cup {None}], target : Links]
Idle == [pc |-> "idle", restore |-> FALSE, from |-> NoFile, have |-> Empty, was |-> NoLinks,
         todo |-> {}, held |-> [u \in Uids |-> None], target |-> NoLinks]

TypeOK ==
  /\ rows \in Table
  /\ active \in Links
  /\ files \in [Kinds -> Content]
  /\ file \in Transfer
  /\ listed \in Table \cup {None}
  /\ req \in Import
  /\ cut \in [Kinds -> BOOLEAN]
  /\ edits \in 0..MaxEdits

\* Links that lead to providers in the table.
Closed(t, links) ==
  \A k \in Kinds : links[k] # None => links[k] \in In(t) /\ KindOf[links[k]] = k

AppliedTo(k, t, links) ==
  IF links[k] = None THEN Untouched ELSE [uid |-> links[k], val |-> t[links[k]].val]

\* Any table, its active providers in place, and the export of any other: of an
\* earlier state of this machine, or of another one that shares the remote.
Init ==
  /\ rows \in Table
  /\ active \in {links \in Links : Closed(rows, links)}
  /\ files = [k \in Kinds |-> AppliedTo(k, rows, active)]
  /\ file \in {f \in Transfer : Closed(f.rows, f.active)}
  /\ listed = None
  /\ req = Idle
  /\ cut = [k \in Kinds |-> FALSE]
  /\ edits = 0

-----------------------------------------------------------------------------
(* The user's other requests. *)

Edits == req = Idle /\ edits < MaxEdits /\ edits' = edits + 1

\* SwitchProvider: the files and the link of the provider's own kind.
SwitchTo(u) ==
  /\ files' = [files EXCEPT ![KindOf[u]] = [uid |-> u, val |-> rows[u].val]]
  /\ active' = [active EXCEPT ![KindOf[u]] = u]
  /\ cut' = [cut EXCEPT ![KindOf[u]] = FALSE]

\* The uid is drawn at random: it is no uid that anything mentions.
Create(u, r) ==
  /\ Edits
  /\ u \notin In(rows) \cup In(file.rows) /\ (listed # None => u \notin In(listed))
  /\ \A k \in Kinds : files[k].uid # u
  /\ rows' = [rows EXCEPT ![u] = r]
  /\ UNCHANGED <<active, files, file, listed, req, cut>>

\* The active provider is hot reloaded.
Edit(u, r) ==
  /\ Edits /\ u \in In(rows)
  /\ rows' = [rows EXCEPT ![u] = r]
  /\ IF active[KindOf[u]] = u
     THEN /\ files' = [files EXCEPT ![KindOf[u]] = [uid |-> u, val |-> r.val]]
          /\ cut' = [cut EXCEPT ![KindOf[u]] = FALSE]
     ELSE UNCHANGED <<files, cut>>
  /\ UNCHANGED <<active, file, listed, req>>

Delete(u) ==
  /\ Edits /\ u \in In(rows)
  /\ rows' = [rows EXCEPT ![u] = Absent]
  /\ active' = [k \in Kinds |-> IF active[k] = u THEN None ELSE active[k]]
  /\ UNCHANGED <<files, file, listed, req, cut>>

Switch(u) ==
  /\ Edits /\ u \in In(rows)
  /\ SwitchTo(u)
  /\ UNCHANGED <<rows, file, listed, req>>

-----------------------------------------------------------------------------
(* exportFullBackupJSON, buildProviderTransferFile *)

ListForExport ==
  /\ listed = None
  /\ listed' = rows
  /\ UNCHANGED <<rows, active, files, file, req, cut, edits>>

\* Mutant: the active providers are written as they are.
Reference_Unlisted(k) == active[k]

\* An active provider that was not listed is left out.
Reference(k) ==
  IF active[k] # None /\ listed[active[k]] # Absent THEN active[k] ELSE None

FinishExport ==
  /\ listed # None
  /\ file' = [rows |-> listed, active |-> [k \in Kinds |-> Reference(k)]]
  /\ listed' = None
  /\ UNCHANGED <<rows, active, files, req, cut, edits>>

-----------------------------------------------------------------------------
(* importProviderTransfer *)

SameKey(u, r, w, t) == KindOf[w] = KindOf[u] /\ t[w].name = r.name

\* validateProviderTransfer
Valid(f) ==
  \A u, w \in In(f.rows) : SameKey(u, f.rows[u], w, f.rows) => u = w

Start(restore) ==
  /\ req = Idle /\ Valid(file)
  /\ req' = [Idle EXCEPT !.pc = "save", !.restore = restore, !.from = file,
                         !.have = rows, !.was = active, !.todo = In(file.rows)]
  /\ UNCHANGED <<rows, active, files, file, listed, cut, edits>>

\* The import ends with an error: what it saved stays, and nothing is reloaded.
Abort ==
  /\ req' = Idle
  /\ cut' = [k \in Kinds |-> TRUE]

\* matchImportedProvider: by uid, else by kind, source and name, both in the
\* table as it was at the start.
Matches(u) ==
  IF u \in In(req.have) THEN {u}
  ELSE {w \in In(req.have) : SameKey(u, req.from.rows[u], w, req.have)}

SaveOver(u, w) ==
  /\ rows' = [rows EXCEPT ![w] = req.from.rows[u]]
  /\ req' = [req EXCEPT !.todo = @ \ {u}, !.held = [@ EXCEPT ![u] = w, ![w] = w]]
  /\ UNCHANGED cut

SaveRecord(u) ==
  /\ req.pc = "save" /\ u \in req.todo
  /\ \/ Matches(u) = {} /\ SaveOver(u, u)
     \/ \E w \in Matches(u) : Matches(u) = {w} /\ SaveOver(u, w)
     \/ Cardinality(Matches(u)) > 1 /\ Abort /\ UNCHANGED rows
     \/ Faults /\ Abort /\ UNCHANGED rows
  /\ UNCHANGED <<active, files, file, listed, edits>>

AllSaved ==
  /\ req.pc = "save" /\ req.todo = {}
  /\ req' = [req EXCEPT !.pc = "resolve"]
  /\ UNCHANGED <<rows, active, files, file, listed, cut, edits>>

Wanted(k) == IF req.restore THEN req.from.active[k] ELSE None
Resolvable(u) == req.held[u] # None \/ u \in In(req.have)
Resolved(u) == IF req.held[u] # None THEN req.held[u] ELSE u

Changed == {req.held[u] : u \in Uids}

\* Mutant: only what the file says is active is switched to.
Target_NoReload(k) == IF Wanted(k) # None THEN Resolved(Wanted(k)) ELSE None

\* Mutant: the reload comes before what the file says.
Target_ReloadFirst(k) ==
  IF req.was[k] \in Changed THEN req.was[k]
  ELSE IF Wanted(k) # None THEN Resolved(Wanted(k)) ELSE None

\* What the file says is active, or the active provider if the import changed it.
Target(k) ==
  IF Wanted(k) # None THEN Resolved(Wanted(k))
  ELSE IF req.was[k] \in Changed THEN req.was[k] ELSE None

Resolve ==
  /\ req.pc = "resolve"
  /\ IF \A k \in Kinds : Wanted(k) # None => Resolvable(Wanted(k))
     THEN /\ req' = [req EXCEPT !.pc = "apply", !.target = [k \in Kinds |-> Target(k)]]
          /\ UNCHANGED cut
     ELSE Abort
  /\ UNCHANGED <<rows, active, files, file, listed, edits>>

\* Mutant: the link is set before the files are written, and stays when that fails.
Apply_LinkFirst(k) ==
  /\ req.pc = "apply" /\ req.target[k] # None
  /\ req' = [req EXCEPT !.target[k] = None]
  /\ \/ SwitchTo(req.target[k])
     \/ /\ Faults /\ cut' = [cut EXCEPT ![k] = TRUE]
        /\ active' = [active EXCEPT ![k] = req.target[k]] /\ UNCHANGED files
  /\ UNCHANGED <<rows, file, listed, edits>>

\* One kind after the other; a switch that fails does not stop the next.
Apply(k) ==
  /\ req.pc = "apply" /\ req.target[k] # None
  /\ req' = [req EXCEPT !.target[k] = None]
  /\ \/ SwitchTo(req.target[k])
     \/ Faults /\ cut' = [cut EXCEPT ![k] = TRUE] /\ UNCHANGED <<active, files>>
  /\ UNCHANGED <<rows, file, listed, edits>>

Applied ==
  /\ req.pc = "apply" /\ req.target = NoLinks
  /\ req' = [req EXCEPT !.pc = "done"]
  /\ UNCHANGED <<rows, active, files, file, listed, cut, edits>>

Finish ==
  /\ req.pc = "done"
  /\ req' = Idle
  /\ UNCHANGED <<rows, active, files, file, listed, cut, edits>>

Next ==
  \/ \E u \in Uids, r \in Row : Create(u, r) \/ Edit(u, r)
  \/ \E u \in Uids : Delete(u) \/ Switch(u) \/ SaveRecord(u)
  \/ ListForExport \/ FinishExport
  \/ \E restore \in BOOLEAN : Start(restore)
  \/ AllSaved \/ Resolve \/ Applied \/ Finish
  \/ \E k \in Kinds : Apply(k)

Spec == Init /\ [][Next]_vars

-----------------------------------------------------------------------------
(* Properties. *)

\* What the program exports can be imported by it as far as the active
\* references go, whatever was created, deleted and switched between the two
\* statements of the export.
ReferencesResolve ==
  req.pc = "resolve" => \A k \in Kinds : Wanted(k) # None => Resolvable(Wanted(k))

\* Unless an import reported an error, the tool's files are what the active
\* provider says, also after the import changed that provider.
ActiveApplied ==
  req = Idle => \A k \in Kinds :
    active[k] # None /\ ~cut[k] => files[k] = [uid |-> active[k], val |-> rows[active[k]].val]

\* Records of the file that have rows of their own.  Two may share one: each is
\* matched against the table as it was when the import began.
RecordsApart == \A u \in In(req.from.rows), w \in Uids :
  req.held[u] = req.held[w] /\ w \in In(req.from.rows) => u = w

\* After an import that restored the active references and reported no error,
\* the tool runs with what the file says of its active provider, if no two
\* records of the file went to one row.
RestoreIsFaithful ==
  req.pc = "done" /\ RecordsApart => \A k \in Kinds :
    Wanted(k) # None /\ ~cut[k] => files[k].val = req.from.rows[Wanted(k)].val
=============================================================================
