------------------------- MODULE ProviderImportProofs -------------------------
(***************************************************************************)
(* What holds of ProviderImport for any providers, kinds and contents.     *)
(*                                                                         *)
(* That an import finds the providers its file calls active rests on two   *)
(* facts: an export, whatever happens between its two statements, names an *)
(* active provider only if it lists it; and an import resolves each record *)
(* it has saved to a row.  The last part shows that ProviderImport         *)
(* implements SwitchService.                                               *)
(***************************************************************************)
EXTENDS ImportRefinement, TLAPS

\* The active references of a file are records of the file.
SelfContained(f) == \A k \in Kinds : f.active[k] # None => f.active[k] \in In(f.rows)

\* A record is still to be saved or has a row.
Progress ==
  req.pc \in {"save", "resolve"} =>
    \A u \in In(req.from.rows) : u \in req.todo \/ req.held[u] # None
NothingLeft == req.pc = "resolve" => req.todo = {}

ImportInv ==
  /\ TypeOK
  /\ SelfContained(file) /\ SelfContained(req.from)
  /\ Progress
  /\ NothingLeft

LEMMA IdleTyped == Idle \in Import /\ NoFile \in Transfer /\ Absent \notin Row
<1>1. Absent \notin Row
  BY NoneApart DEF Absent, Row
<1>2. Empty \in Table /\ NoLinks \in Links
  BY DEF Empty, Table, NoLinks, Links
<1>3. NoFile \in Transfer
  BY <1>2 DEF NoFile, Transfer
<1>4. [u \in Uids |-> None] \in [Uids -> Uids \cup {None}] /\ {} \in SUBSET Uids
  OBVIOUS
<1>5. Idle \in Import
  BY <1>2, <1>3, <1>4 DEF Idle, Import
<1> QED BY <1>1, <1>3, <1>5

LEMMA IdleProgress == SelfContained(Idle.from) /\ Idle.pc = "idle"
  BY DEF Idle, NoFile, NoLinks, SelfContained

\* An import that ends, in whatever way, leaves nothing to show.
LEMMA Ends ==
  ASSUME ImportInv, TypeOK', req' = Idle, file' = file
  PROVE  ImportInv'
  BY IdleProgress DEF ImportInv, Progress, NothingLeft, SelfContained

\* A step that leaves the import and the last export alone.
LEMMA Elsewhere ==
  ASSUME ImportInv, TypeOK', req' = req, file' = file
  PROVE  ImportInv'
  BY DEF ImportInv, Progress, NothingLeft, SelfContained

LEMMA InitInv == Init => ImportInv
<1> SUFFICES ASSUME Init PROVE ImportInv OBVIOUS
<1>1. rows \in Table /\ active \in Links /\ file \in Transfer
  BY DEF Init
<1>2. \A k \in Kinds : AppliedTo(k, rows, active) \in Content
  <2> SUFFICES ASSUME NEW k \in Kinds PROVE AppliedTo(k, rows, active) \in Content OBVIOUS
  <2>1. CASE active[k] = None
    BY <2>1 DEF AppliedTo, Untouched, Content
  <2>2. CASE active[k] # None
    <3>1. active[k] \in Uids
      BY <1>1, <2>2 DEF Links
    <3>2. rows[active[k]].val \in Vals \cup {None}
      BY <1>1, <3>1 DEF Table, Row, Absent
    <3> QED BY <2>2, <3>1, <3>2 DEF AppliedTo, Content
  <2> QED BY <2>1, <2>2
<1>3. files \in [Kinds -> Content] /\ cut \in [Kinds -> BOOLEAN]
  BY <1>2 DEF Init
<1>4. edits \in 0..MaxEdits
  BY MaxEditsType DEF Init
<1>5. TypeOK
  BY <1>1, <1>3, <1>4, IdleTyped DEF Init, TypeOK
<1>6. SelfContained(file)
  BY DEF Init, Closed, SelfContained
<1> QED BY <1>5, <1>6, IdleProgress DEF Init, ImportInv, Progress, NothingLeft

-----------------------------------------------------------------------------
(* The user's other requests. *)

LEMMA SwitchTyped ==
  ASSUME TypeOK, NEW u \in Uids, SwitchTo(u)
  PROVE  files' \in [Kinds -> Content] /\ active' \in Links /\ cut' \in [Kinds -> BOOLEAN]
<1>1. KindOf[u] \in Kinds
  BY KindOfType
<1>2. rows[u].val \in Vals \cup {None}
  BY DEF TypeOK, Table, Row, Absent
<1>3. [uid |-> u, val |-> rows[u].val] \in Content
  BY <1>2 DEF Content
<1> QED BY <1>1, <1>3 DEF SwitchTo, TypeOK, Links

LEMMA EditsTyped == ASSUME TypeOK, Edits PROVE edits' \in 0..MaxEdits
  BY MaxEditsType DEF TypeOK, Edits

LEMMA UserStep ==
  ASSUME ImportInv, NEW u \in Uids,
         Delete(u) \/ Switch(u) \/ \E r \in Row : Create(u, r) \/ Edit(u, r)
  PROVE  ImportInv'
<1> USE DEF ImportInv
<1>1. ASSUME NEW r \in Row, Create(u, r) PROVE ImportInv'
  <2>1. rows' \in Table
    BY <1>1 DEF Create, TypeOK, Table
  <2>2. TypeOK'
    BY <1>1, <2>1, EditsTyped DEF Create, TypeOK
  <2> QED BY <1>1, <2>2, Elsewhere DEF Create
<1>2. ASSUME NEW r \in Row, Edit(u, r) PROVE ImportInv'
  <2>1. rows' \in Table
    BY <1>2 DEF Edit, TypeOK, Table
  <2>2. [uid |-> u, val |-> r.val] \in Content
    BY DEF Row, Content
  <2>3. files' \in [Kinds -> Content] /\ cut' \in [Kinds -> BOOLEAN]
    BY <1>2, <2>2, KindOfType DEF Edit, TypeOK
  <2>4. TypeOK'
    BY <1>2, <2>1, <2>3, EditsTyped DEF Edit, TypeOK
  <2> QED BY <1>2, <2>4, Elsewhere DEF Edit
<1>3. CASE Delete(u)
  <2>1. rows' \in Table /\ active' \in Links
    BY <1>3 DEF Delete, TypeOK, Table, Links
  <2>2. TypeOK'
    BY <1>3, <2>1, EditsTyped DEF Delete, TypeOK
  <2> QED BY <1>3, <2>2, Elsewhere DEF Delete
<1>4. CASE Switch(u)
  <2>1. TypeOK'
    BY <1>4, SwitchTyped, EditsTyped DEF Switch, TypeOK
  <2> QED BY <1>4, <2>1, Elsewhere DEF Switch
<1> QED BY <1>1, <1>2, <1>3, <1>4

-----------------------------------------------------------------------------
(* The export. *)

LEMMA ExportStep == ASSUME ImportInv, ListForExport \/ FinishExport PROVE ImportInv'
<1> USE DEF ImportInv
<1>1. CASE ListForExport
  <2>1. TypeOK'
    BY <1>1 DEF ListForExport, TypeOK
  <2> QED BY <1>1, <2>1, Elsewhere DEF ListForExport
<1>2. CASE FinishExport
  <2>1. listed \in Table /\ active \in Links
    BY <1>2 DEF FinishExport, TypeOK
  <2>2. \A k \in Kinds : /\ Reference(k) \in Uids \cup {None}
                         /\ Reference(k) # None => Reference(k) \in In(listed)
    BY <2>1 DEF Reference, Links, In
  <2>3. /\ file' = [rows |-> listed, active |-> [k \in Kinds |-> Reference(k)]]
        /\ UNCHANGED <<rows, active, files, req, cut, edits>> /\ listed' = None
    BY <1>2 DEF FinishExport
  <2>4. file' \in Transfer
    BY <2>1, <2>2, <2>3 DEF Transfer, Links
  <2>5. SelfContained(file)'
    BY <2>2, <2>3 DEF SelfContained
  <2>6. TypeOK'
    BY <2>3, <2>4 DEF TypeOK
  <2> QED BY <2>3, <2>5, <2>6 DEF Progress, NothingLeft, SelfContained
<1> QED BY <1>1, <1>2

-----------------------------------------------------------------------------
(* The import. *)

LEMMA StartStep == ASSUME ImportInv, NEW restore \in BOOLEAN, Start(restore) PROVE ImportInv'
<1> USE DEF ImportInv
<1> DEFINE r == [Idle EXCEPT !.pc = "save", !.restore = restore, !.from = file,
                             !.have = rows, !.was = active, !.todo = In(file.rows)]
<1>1. req' = r /\ UNCHANGED <<rows, active, files, file, listed, cut, edits>>
  BY DEF Start
<1>2. r \in Import
  BY IdleTyped DEF TypeOK, Import, In
<1>3. TypeOK'
  BY <1>1, <1>2 DEF TypeOK
<1>4. r.pc = "save" /\ r.from = file /\ r.todo = In(file.rows)
  BY IdleTyped DEF Import
<1> QED BY <1>1, <1>3, <1>4 DEF Progress, NothingLeft, SelfContained

\* An aborted import.
LEMMA AbortStep ==
  ASSUME ImportInv, Abort, rows' \in Table, UNCHANGED <<active, files, file, listed, edits>>
  PROVE  ImportInv'
<1>1. req' = Idle /\ cut' \in [Kinds -> BOOLEAN]
  BY DEF Abort
<1>2. TypeOK'
  BY <1>1, IdleTyped DEF ImportInv, TypeOK
<1> QED BY <1>1, <1>2, Ends

LEMMA SaveOverStep ==
  ASSUME ImportInv, NEW u \in Uids, NEW w \in Uids, req.pc = "save", u \in req.todo,
         SaveOver(u, w), UNCHANGED <<active, files, file, listed, edits>>
  PROVE  ImportInv'
<1> USE DEF ImportInv
<1>1. req \in Import /\ req.from \in Transfer
  BY DEF TypeOK, Import
<1>2. /\ rows' = [rows EXCEPT ![w] = req.from.rows[u]]
      /\ req' = [req EXCEPT !.todo = req.todo \ {u}, !.held = [req.held EXCEPT ![u] = w, ![w] = w]]
      /\ cut' = cut
  BY DEF SaveOver
<1>3. rows' \in Table
  BY <1>1, <1>2 DEF TypeOK, Transfer, Table
<1>4. [req.held EXCEPT ![u] = w, ![w] = w] \in [Uids -> Uids \cup {None}]
  BY <1>1 DEF Import
<1>5. req' \in Import
  BY <1>1, <1>2, <1>4 DEF Import
<1>6. TypeOK'
  BY <1>2, <1>3, <1>5 DEF TypeOK
<1>7. /\ req'.from = req.from /\ req'.pc = "save" /\ req'.todo = req.todo \ {u}
      /\ req'.held = [req.held EXCEPT ![u] = w, ![w] = w]
  BY <1>1, <1>2 DEF Import
<1>8. u # None /\ w # None
  BY NoneApart
<1>9. \A v \in Uids : req.held[v] # None \/ v = u => req'.held[v] # None
  BY <1>1, <1>7, <1>8 DEF Import
<1>10. Progress'
  BY <1>7, <1>9 DEF Progress, In
<1> QED BY <1>6, <1>7, <1>10 DEF NothingLeft, SelfContained

LEMMA SaveStep == ASSUME ImportInv, NEW u \in Uids, SaveRecord(u) PROVE ImportInv'
<1>1. rows \in Table
  BY DEF ImportInv, TypeOK
<1>2. req.pc = "save" /\ u \in req.todo /\ UNCHANGED <<active, files, file, listed, edits>>
  BY DEF SaveRecord
<1>3. CASE SaveOver(u, u)
  BY <1>2, <1>3, SaveOverStep
<1>4. ASSUME NEW w \in Matches(u), SaveOver(u, w) PROVE ImportInv'
  <2>1. w \in Uids
    BY DEF Matches, In
  <2> QED BY <1>2, <1>4, <2>1, SaveOverStep
<1>5. CASE Abort /\ UNCHANGED rows
  BY <1>1, <1>2, <1>5, AbortStep
<1> QED BY <1>3, <1>4, <1>5 DEF SaveRecord

LEMMA AllSavedStep == ASSUME ImportInv, AllSaved PROVE ImportInv'
<1> USE DEF ImportInv
<1>1. req \in Import /\ req.pc = "save" /\ req.todo = {} /\ req' = [req EXCEPT !.pc = "resolve"]
  BY DEF AllSaved, TypeOK
<1>2. /\ req' \in Import /\ req'.from = req.from /\ req'.held = req.held
      /\ req'.todo = {} /\ req'.pc = "resolve"
  BY <1>1 DEF Import
<1>3. TypeOK'
  BY <1>2 DEF AllSaved, TypeOK
<1> QED BY <1>1, <1>2, <1>3 DEF AllSaved, Progress, NothingLeft, SelfContained

\* The steps after the references are resolved.
LEMMA LaterStep ==
  ASSUME ImportInv, TypeOK', file' = file, req'.from = req.from, req'.pc \in {"apply", "done"}
  PROVE  ImportInv'
  BY DEF ImportInv, Progress, NothingLeft, SelfContained

LEMMA ResolveStep == ASSUME ImportInv, Resolve PROVE ImportInv'
<1> USE DEF ImportInv
<1>1. req \in Import /\ rows \in Table
  BY DEF TypeOK
<1>2. CASE Abort
  BY <1>1, <1>2, AbortStep DEF Resolve
<1>3. CASE /\ req' = [req EXCEPT !.pc = "apply", !.target = [k \in Kinds |-> Target(k)]]
           /\ cut' = cut
  <2>1. \A k \in Kinds : Wanted(k) \in Uids \cup {None} /\ req.was[k] \in Uids \cup {None}
    BY <1>1 DEF Wanted, Import, Transfer, Links
  <2>2. \A u \in Uids : Resolved(u) \in Uids \cup {None}
    BY <1>1 DEF Resolved, Import
  <2>3. \A k \in Kinds : Target(k) \in Uids \cup {None}
    BY <2>1, <2>2 DEF Target
  <2>4. [k \in Kinds |-> Target(k)] \in Links
    BY <2>3 DEF Links
  <2>5. req' \in Import /\ req'.from = req.from /\ req'.pc = "apply"
    BY <1>1, <1>3, <2>4 DEF Import
  <2>6. TypeOK'
    BY <1>3, <2>5 DEF Resolve, TypeOK
  <2> QED BY <2>5, <2>6, LaterStep DEF Resolve
<1> QED BY <1>2, <1>3 DEF Resolve

LEMMA ApplyStep == ASSUME ImportInv, NEW k \in Kinds, Apply(k) PROVE ImportInv'
<1> USE DEF ImportInv
<1>1. req \in Import /\ req.target[k] \in Uids /\ req.pc = "apply"
  BY DEF Apply, TypeOK, Import, Links
<1>2. req' = [req EXCEPT !.target[k] = None] /\ UNCHANGED <<rows, file, listed, edits>>
  BY DEF Apply
<1>3. req.target \in Links /\ [req.target EXCEPT ![k] = None] \in Links
  BY <1>1 DEF Import, Links
<1>4. req' \in Import /\ req'.from = req.from /\ req'.pc = "apply"
  BY <1>1, <1>2, <1>3 DEF Import
<1>5. files' \in [Kinds -> Content] /\ active' \in Links /\ cut' \in [Kinds -> BOOLEAN]
  <2>1. CASE SwitchTo(req.target[k])
    BY <1>1, <2>1, SwitchTyped
  <2>2. CASE cut' = [cut EXCEPT ![k] = TRUE] /\ UNCHANGED <<active, files>>
    BY <2>2 DEF TypeOK
  <2> QED BY <2>1, <2>2 DEF Apply
<1>6. TypeOK'
  BY <1>2, <1>4, <1>5 DEF TypeOK
<1> QED BY <1>2, <1>4, <1>6, LaterStep

LEMMA LastSteps == ASSUME ImportInv, Applied \/ Finish PROVE ImportInv'
<1> USE DEF ImportInv
<1>1. CASE Applied
  <2>1. req' \in Import /\ req'.from = req.from /\ req'.pc = "done"
    BY <1>1 DEF Applied, TypeOK, Import
  <2>2. TypeOK'
    BY <1>1, <2>1 DEF Applied, TypeOK
  <2> QED BY <1>1, <2>1, <2>2, LaterStep DEF Applied
<1>2. CASE Finish
  <2>1. TypeOK'
    BY <1>2, IdleTyped DEF Finish, TypeOK
  <2> QED BY <1>2, <2>1, Ends DEF Finish
<1> QED BY <1>1, <1>2

LEMMA NextInv == ImportInv /\ [Next]_vars => ImportInv'
<1> SUFFICES ASSUME ImportInv, [Next]_vars PROVE ImportInv' OBVIOUS
<1>1. ASSUME NEW u \in Uids, NEW r \in Row, Create(u, r) \/ Edit(u, r) PROVE ImportInv'
  BY <1>1, UserStep
<1>2. ASSUME NEW u \in Uids, Delete(u) \/ Switch(u) \/ SaveRecord(u) PROVE ImportInv'
  BY <1>2, UserStep, SaveStep
<1>3. CASE ListForExport \/ FinishExport
  BY <1>3, ExportStep
<1>4. ASSUME NEW restore \in BOOLEAN, Start(restore) PROVE ImportInv'
  BY <1>4, StartStep
<1>5. CASE AllSaved \/ Resolve \/ Applied \/ Finish
  BY <1>5, AllSavedStep, ResolveStep, LastSteps
<1>6. ASSUME NEW k \in Kinds, Apply(k) PROVE ImportInv'
  BY <1>6, ApplyStep
<1>7. CASE UNCHANGED vars
  BY <1>7 DEF vars, ImportInv, TypeOK, Progress, NothingLeft, SelfContained
<1> QED BY <1>1, <1>2, <1>3, <1>4, <1>5, <1>6, <1>7 DEF Next

-----------------------------------------------------------------------------
(* After an import the tool's files are what the rows say, and what the file
   said.  Records are resolved once for all (Resolution), so a row that was
   saved over stays marked as changed (Unswitched) and what the file calls
   active is still resolved to the same row when it is switched to. *)

\* Links lead to providers of their kind.
Kinded(links) == \A k \in Kinds : links[k] # None => KindOf[links[k]] = k

\* The tool has what its active provider says, or a failure was reported.
InPlace(k) ==
  active[k] # None /\ ~cut[k] => files[k] = [uid |-> active[k], val |-> rows[active[k]].val]

\* A record is resolved to a row of its kind, and to its own if the table had that,
\* once for all.
Resolution ==
  /\ \A u \in Uids : req.held[u] # None => KindOf[req.held[u]] = KindOf[u]
  /\ \A u \in In(req.have) : req.held[u] \in {None, u}
  /\ \A u \in req.todo : u \notin In(req.have) => req.held[u] = None
  /\ req.todo \subseteq In(req.from.rows)
  /\ req.pc \in {"resolve", "apply", "done"} => req.todo = {}

\* A row that a record was saved over holds it, unless another record has the
\* same row.
Saved ==
  \A u \in In(req.from.rows) \ req.todo :
    /\ req.held[u] # None
    /\ \/ rows[req.held[u]] = req.from.rows[u]
       \/ \E w \in In(req.from.rows) : w # u /\ req.held[w] = req.held[u]

\* Until the references are resolved only changed providers are not in place,
Unswitched ==
  req.pc \in {"save", "resolve"} =>
    active = req.was /\ \A k \in Kinds : active[k] \notin Changed => InPlace(k)

\* and then those that are still to be switched to.
Switching ==
  req.pc \in {"apply", "done"} =>
    \A k \in Kinds : IF req.target[k] = None THEN InPlace(k) ELSE KindOf[req.target[k]] = k

Settled == req.pc = "idle" => \A k \in Kinds : InPlace(k)

\* What the file calls active is switched to.
Delivering ==
  req.pc \in {"apply", "done"} =>
    \A k \in Kinds : Wanted(k) # None =>
      IF req.target[k] # None THEN req.target[k] = req.held[Wanted(k)]
      ELSE cut[k] \/ files[k].val = rows[req.held[Wanted(k)]].val

AllSwitched == req.pc = "done" => req.target = NoLinks

ApplyInv ==
  /\ Kinded(active) /\ Kinded(file.active) /\ Kinded(req.from.active)
  /\ Resolution /\ Saved
  /\ Unswitched /\ Switching /\ Settled /\ Delivering /\ AllSwitched
\* An import that is not there.
LEMMA NoImport ==
  /\ Kinded(Idle.from.active) /\ In(Idle.from.rows) = {} /\ Idle.todo = {} /\ Idle.pc = "idle"
  /\ \A u \in Uids : Idle.held[u] = None
  BY DEF Idle, NoFile, NoLinks, Empty, In, Kinded

LEMMA Rests ==
  ASSUME ApplyInv, req' = Idle, Kinded(active'), Kinded(file'.active),
         \A k \in Kinds : InPlace(k)'
  PROVE  ApplyInv'
<1>1. Resolution'
  BY NoImport DEF Resolution, In
<1>2. Saved'
  BY NoImport DEF Saved
<1> QED BY <1>1, <1>2, NoImport
  DEF ApplyInv, Unswitched, Switching, Settled, Delivering, AllSwitched

LEMMA InitApply == Init => ApplyInv
<1> SUFFICES ASSUME Init PROVE ApplyInv OBVIOUS
<1>1. Kinded(active) /\ Kinded(file.active) /\ req = Idle
  BY DEF Init, Closed, Kinded
<1>2. \A k \in Kinds : InPlace(k)
  BY DEF Init, AppliedTo, InPlace
<1>3. Resolution
  BY <1>1, NoImport DEF Resolution, In
<1>4. Saved
  BY <1>1, NoImport DEF Saved
<1> QED BY <1>1, <1>2, <1>3, <1>4, NoImport
  DEF ApplyInv, Unswitched, Switching, Settled, Delivering, AllSwitched

\* A switch puts the provider of a kind in place and leaves the others alone.
LEMMA SwitchApply ==
  ASSUME TypeOK, Kinded(active), NEW u \in Uids, SwitchTo(u), rows' = rows
  PROVE  /\ Kinded(active') /\ InPlace(KindOf[u])'
         /\ \A k \in Kinds : InPlace(k) => InPlace(k)'
         /\ files'[KindOf[u]].val = rows[u].val
         /\ \A k \in Kinds \ {KindOf[u]} :
              active'[k] = active[k] /\ files'[k] = files[k] /\ cut'[k] = cut[k]
<1>1. KindOf[u] \in Kinds
  BY KindOfType
<1>2. /\ files'[KindOf[u]] = [uid |-> u, val |-> rows[u].val] /\ active'[KindOf[u]] = u
      /\ \A k \in Kinds \ {KindOf[u]} :
           active'[k] = active[k] /\ files'[k] = files[k] /\ cut'[k] = cut[k]
  BY <1>1 DEF SwitchTo, TypeOK, Links
<1>3. Kinded(active')
  BY <1>2 DEF Kinded
<1>4. InPlace(KindOf[u])'
  BY <1>2 DEF InPlace
<1>5. \A k \in Kinds : InPlace(k) => InPlace(k)'
  <2> SUFFICES ASSUME NEW k \in Kinds, InPlace(k) PROVE InPlace(k)' OBVIOUS
  <2>1. CASE k = KindOf[u]
    BY <1>4, <2>1
  <2>2. CASE k # KindOf[u]
    BY <1>2, <2>2 DEF InPlace
  <2> QED BY <2>1, <2>2
<1> QED BY <1>2, <1>3, <1>4, <1>5

LEMMA UserApply ==
  ASSUME ImportInv, ApplyInv, NEW u \in Uids,
         Delete(u) \/ Switch(u) \/ \E r \in Row : Create(u, r) \/ Edit(u, r)
  PROVE  ApplyInv'
<1>1. /\ req = Idle /\ req' = Idle /\ file' = file /\ TypeOK
      /\ \A k \in Kinds : InPlace(k)
  BY NoImport DEF ImportInv, ApplyInv, Settled, Delete, Switch, Create, Edit, Edits
<1>2. rows \in Table /\ active \in Links /\ Kinded(active) /\ Kinded(file.active) /\ u # None
  BY <1>1, NoneApart DEF TypeOK, ApplyInv
<1>3. ASSUME NEW r \in Row, Create(u, r) PROVE ApplyInv'
  <2>1. /\ UNCHANGED <<active, files, cut>> /\ \A k \in Kinds : files[k].uid # u
        /\ \A v \in Uids \ {u} : rows'[v] = rows[v]
    BY <1>2, <1>3 DEF Create, Table
  <2>2. \A k \in Kinds : InPlace(k)'
    <3> SUFFICES ASSUME NEW k \in Kinds, active[k] # None, ~cut[k]
                 PROVE  files[k] = [uid |-> active[k], val |-> rows'[active[k]].val]
      BY <2>1 DEF InPlace
    <3>1. files[k] = [uid |-> active[k], val |-> rows[active[k]].val]
      BY <1>1 DEF InPlace
    <3>2. active[k] # u /\ active[k] \in Uids
      BY <1>2, <2>1, <3>1 DEF Links
    <3> QED BY <2>1, <3>1, <3>2
  <2> QED BY <1>1, <1>2, <2>1, <2>2, Rests
<1>4. ASSUME NEW r \in Row, Edit(u, r) PROVE ApplyInv'
  <2>1. active' = active /\ rows'[u] = r /\ \A v \in Uids \ {u} : rows'[v] = rows[v]
    BY <1>2, <1>4 DEF Edit, Table
  <2>2. \A k \in Kinds : InPlace(k)'
    <3> SUFFICES ASSUME NEW k \in Kinds, active[k] # None, ~cut'[k]
                 PROVE  files'[k] = [uid |-> active[k], val |-> rows'[active[k]].val]
      BY <2>1 DEF InPlace
    <3>1. active[k] \in Uids /\ KindOf[active[k]] = k
      BY <1>2 DEF Links, Kinded
    <3>2. CASE active[k] = u
      BY <1>1, <1>4, <2>1, <3>1, <3>2 DEF Edit, TypeOK
    <3>3. CASE active[k] # u
      <4>1. files'[k] = files[k] /\ cut'[k] = cut[k]
        BY <1>1, <1>4, <3>1, <3>3 DEF Edit, TypeOK
      <4> QED BY <1>1, <2>1, <3>1, <3>3, <4>1 DEF InPlace
    <3> QED BY <3>2, <3>3
  <2> QED BY <1>1, <1>2, <2>1, <2>2, Rests
<1>5. CASE Delete(u)
  <2>1. /\ UNCHANGED <<files, cut>>
        /\ active' = [k \in Kinds |-> IF active[k] = u THEN None ELSE active[k]]
        /\ \A v \in Uids \ {u} : rows'[v] = rows[v]
    BY <1>2, <1>5 DEF Delete, Table
  <2>2. Kinded(active')
    BY <1>2, <2>1 DEF Kinded
  <2>3. \A k \in Kinds : InPlace(k)'
    BY <1>1, <1>2, <2>1 DEF InPlace, Links
  <2> QED BY <1>1, <1>2, <2>2, <2>3, Rests
<1>6. CASE Switch(u)
  <2>1. SwitchTo(u) /\ rows' = rows
    BY <1>6 DEF Switch
  <2> QED BY <1>1, <1>2, <2>1, SwitchApply, Rests
<1> QED BY <1>3, <1>4, <1>5, <1>6

LEMMA ExportApply == ASSUME ImportInv, ApplyInv, ListForExport \/ FinishExport PROVE ApplyInv'
<1>1. UNCHANGED <<rows, active, files, req, cut>>
  BY DEF ListForExport, FinishExport
<1>2. Kinded(file'.active)
  BY DEF ListForExport, FinishExport, Reference, Kinded, ApplyInv
<1> QED BY <1>1, <1>2
  DEF ApplyInv, Resolution, Saved, Unswitched, Switching, Settled, Delivering, AllSwitched,
      InPlace, Wanted, Changed

LEMMA StartApply ==
  ASSUME ImportInv, ApplyInv, NEW restore \in BOOLEAN, Start(restore) PROVE ApplyInv'
<1> DEFINE r == [Idle EXCEPT !.pc = "save", !.restore = restore, !.from = file,
                             !.have = rows, !.was = active, !.todo = In(file.rows)]
<1>1. req = Idle /\ req' = r /\ UNCHANGED <<rows, active, files, file, cut>>
  BY DEF Start
<1>2. /\ r.pc = "save" /\ r.from = file /\ r.todo = In(file.rows) /\ r.was = active
      /\ \A u \in Uids : r.held[u] = None
  BY DEF Idle
<1>3. \A k \in Kinds : InPlace(k)'
  BY <1>1, NoImport DEF ApplyInv, Settled, InPlace
<1> HIDE DEF r
<1>4. Resolution'
  BY <1>1, <1>2 DEF Resolution, In
<1> QED BY <1>1, <1>2, <1>3, <1>4
  DEF ApplyInv, Saved, Unswitched, Switching, Settled, Delivering, AllSwitched

LEMMA AbortApply ==
  ASSUME ImportInv, ApplyInv, Abort, UNCHANGED <<active, file>>
  PROVE  ApplyInv'
<1>1. req' = Idle /\ \A k \in Kinds : cut'[k]
  BY DEF Abort
<1>2. \A k \in Kinds : InPlace(k)'
  BY <1>1 DEF InPlace
<1> QED BY <1>1, <1>2, Rests DEF ApplyInv

LEMMA SaveOverApply ==
  ASSUME ImportInv, ApplyInv, NEW u \in Uids, NEW w \in Uids,
         req.pc = "save", u \in req.todo, SaveOver(u, w),
         UNCHANGED <<active, files, file, listed, edits>>,
         KindOf[w] = KindOf[u],
         IF u \in In(req.have) THEN w = u ELSE w \in In(req.have) \cup {u}
  PROVE  ApplyInv'
<1>1. /\ req \in Import /\ rows \in Table /\ req.held \in [Uids -> Uids \cup {None}]
      /\ u # None /\ w # None /\ active \in Links
  BY NoneApart DEF ImportInv, TypeOK, Import
<1>2. /\ rows' = [rows EXCEPT ![w] = req.from.rows[u]] /\ cut' = cut
      /\ req' = [req EXCEPT !.todo = req.todo \ {u}, !.held = [req.held EXCEPT ![u] = w, ![w] = w]]
  BY DEF SaveOver
<1>3. /\ req'.pc = "save" /\ req'.from = req.from /\ req'.have = req.have /\ req'.was = req.was
      /\ req'.todo = req.todo \ {u} /\ req'.held = [req.held EXCEPT ![u] = w, ![w] = w]
  BY <1>1, <1>2 DEF Import
<1>4. /\ req'.held[u] = w /\ req'.held[w] = w
      /\ \A v \in Uids \ {u, w} : req'.held[v] = req.held[v]
  BY <1>1, <1>3
<1>5. Resolution
  BY DEF ApplyInv
<1>6. \A v \in Uids : req.held[v] # None => req'.held[v] = req.held[v]
  <2>1. req.held[u] \in {None, w}
    BY <1>5 DEF Resolution
  <2>2. req.held[w] \in {None, w}
    BY <1>5, <2>1 DEF Resolution
  <2> QED BY <1>4, <2>1, <2>2
<1>7. Resolution'
  <2>1. \A v \in Uids : req'.held[v] # None => KindOf[req'.held[v]] = KindOf[v]
    BY <1>4, <1>5 DEF Resolution
  <2>2. \A v \in In(req.have) : req'.held[v] \in {None, v}
    BY <1>4, <1>5 DEF Resolution, In
  <2>3. \A v \in req'.todo : v \notin In(req.have) => req'.held[v] = None
    BY <1>3, <1>4, <1>5 DEF Resolution, In
  <2> QED BY <1>3, <1>5, <2>1, <2>2, <2>3 DEF Resolution
<1>8. Saved'
  <2> SUFFICES ASSUME NEW v \in In(req.from.rows) \ req'.todo
               PROVE  /\ req'.held[v] # None
                      /\ \/ rows'[req'.held[v]] = req.from.rows[v]
                         \/ \E x \in In(req.from.rows) : x # v /\ req'.held[x] = req'.held[v]
    BY <1>3 DEF Saved
  <2>0. \A x \in In(req.from.rows) : x \in Uids
    BY DEF In
  <2>1. CASE v = u
    BY <1>1, <1>2, <1>4, <2>1 DEF Table
  <2>2. CASE v # u
    <3>1. v \in In(req.from.rows) \ req.todo
      BY <1>3, <2>2
    <3>2. req.held[v] # None /\ req'.held[v] = req.held[v]
      BY <1>6, <2>0, <3>1 DEF ApplyInv, Saved
    <3>3. CASE req.held[v] = w
      <4>1. u \in In(req.from.rows)
        BY <1>5 DEF Resolution
      <4> QED BY <1>1, <1>4, <2>2, <3>2, <3>3, <4>1
    <3>4. CASE req.held[v] # w
      <4>1. rows'[req.held[v]] = rows[req.held[v]]
        BY <1>1, <1>2, <2>0, <3>1, <3>2, <3>4 DEF Table
      <4>2. CASE rows[req.held[v]] = req.from.rows[v]
        BY <3>2, <4>1, <4>2
      <4>3. ASSUME NEW x \in In(req.from.rows), x # v, req.held[x] = req.held[v]
            PROVE  req'.held[x] = req'.held[v]
        BY <1>6, <2>0, <3>2, <4>3
      <4> QED BY <3>1, <3>2, <4>2, <4>3 DEF ApplyInv, Saved
    <3> QED BY <3>3, <3>4
  <2> QED BY <2>1, <2>2
<1>9. Unswitched'
  <2>1. active' = req'.was
    BY <1>3 DEF ApplyInv, Unswitched
  <2>2. ASSUME NEW k \in Kinds, active[k] \notin Changed' PROVE InPlace(k)'
    <3>1. CASE active[k] = None
      BY <3>1 DEF InPlace
    <3>2. CASE active[k] # None
      <4>1. active[k] \notin Changed
        BY <1>6, <2>2, <3>2 DEF Changed
      <4>2. active[k] # w /\ active[k] \in Uids
        BY <1>1, <1>4, <2>2, <3>2 DEF Changed, Links
      <4>3. InPlace(k) /\ rows'[active[k]] = rows[active[k]]
        BY <1>1, <1>2, <4>1, <4>2 DEF ApplyInv, Unswitched, Table
      <4> QED BY <1>2, <4>3 DEF InPlace
    <3> QED BY <3>1, <3>2
  <2> QED BY <1>3, <2>1, <2>2 DEF Unswitched
<1> QED BY <1>3, <1>7, <1>8, <1>9
  DEF ApplyInv, Switching, Settled, Delivering, AllSwitched

LEMMA SaveApply == ASSUME ImportInv, ApplyInv, NEW u \in Uids, SaveRecord(u) PROVE ApplyInv'
<1>1. req.pc = "save" /\ u \in req.todo /\ UNCHANGED <<active, files, file, listed, edits>>
  BY DEF SaveRecord
<1>2. CASE Matches(u) = {} /\ SaveOver(u, u)
  <2>1. u \notin In(req.have)
    BY <1>2 DEF Matches
  <2> QED BY <1>1, <1>2, <2>1, SaveOverApply
<1>3. ASSUME NEW w \in Matches(u), SaveOver(u, w) PROVE ApplyInv'
  <2>1. CASE u \in In(req.have)
    <3>1. w = u
      BY <2>1 DEF Matches
    <3> QED BY <1>1, <1>3, <2>1, <3>1, SaveOverApply
  <2>2. CASE u \notin In(req.have)
    <3>1. w \in In(req.have) /\ KindOf[w] = KindOf[u] /\ w \in Uids
      BY <2>2 DEF Matches, SameKey, In
    <3> QED BY <1>1, <1>3, <2>2, <3>1, SaveOverApply
  <2> QED BY <2>1, <2>2
<1>4. CASE Abort
  BY <1>1, <1>4, AbortApply
<1> QED BY <1>2, <1>3, <1>4 DEF SaveRecord

LEMMA AllSavedApply == ASSUME ImportInv, ApplyInv, AllSaved PROVE ApplyInv'
<1>1. req \in Import /\ req.pc = "save" /\ req.todo = {} /\ req' = [req EXCEPT !.pc = "resolve"]
      /\ UNCHANGED <<rows, active, files, file, listed, cut, edits>>
  BY DEF AllSaved, ImportInv, TypeOK
<1>2. /\ req'.pc = "resolve" /\ req'.from = req.from /\ req'.have = req.have /\ req'.was = req.was
      /\ req'.todo = req.todo /\ req'.held = req.held
  BY <1>1 DEF Import
<1>3. Resolution' /\ Saved'
  BY <1>1, <1>2 DEF ApplyInv, Resolution, Saved
<1>4. Unswitched'
  BY <1>1, <1>2 DEF ApplyInv, Unswitched, Changed, InPlace
<1> QED BY <1>1, <1>2, <1>3, <1>4 DEF ApplyInv, Switching, Settled, Delivering, AllSwitched

LEMMA ResolveApply == ASSUME ImportInv, ApplyInv, Resolve PROVE ApplyInv'
<1>1. req \in Import /\ req.pc = "resolve"
      /\ UNCHANGED <<rows, active, files, file, listed, edits>>
  BY DEF Resolve, ImportInv, TypeOK
<1>2. CASE Abort
  BY <1>1, <1>2, AbortApply
<1>3. CASE /\ req' = [req EXCEPT !.pc = "apply", !.target = [k \in Kinds |-> Target(k)]]
           /\ UNCHANGED cut
  <2>1. /\ req'.pc = "apply" /\ req'.from = req.from /\ req'.have = req.have
        /\ req'.restore = req.restore /\ req'.todo = req.todo /\ req'.held = req.held
        /\ req'.target = [k \in Kinds |-> Target(k)]
    BY <1>1, <1>3 DEF Import
  <2>2. Resolution' /\ Saved'
    BY <1>1, <2>1 DEF ApplyInv, Resolution, Saved
  <2>3. \A k \in Kinds : Wanted(k) # None =>
          /\ Wanted(k) \in Uids /\ KindOf[Wanted(k)] = k
          /\ req.held[Wanted(k)] # None /\ Target(k) = req.held[Wanted(k)]
    <3> SUFFICES ASSUME NEW k \in Kinds, Wanted(k) # None
                 PROVE  /\ Wanted(k) \in Uids /\ KindOf[Wanted(k)] = k
                        /\ req.held[Wanted(k)] # None /\ Target(k) = req.held[Wanted(k)]
      OBVIOUS
    <3>1. Wanted(k) \in In(req.from.rows) /\ Wanted(k) = req.from.active[k]
      BY DEF Wanted, ImportInv, SelfContained
    <3>2. req.held[Wanted(k)] # None
      BY <1>1, <3>1 DEF ImportInv, Progress, NothingLeft
    <3> QED BY <3>1, <3>2 DEF Target, Resolved, In, ApplyInv, Kinded
  <2>4. Switching'
    <3> SUFFICES ASSUME NEW k \in Kinds
                 PROVE  IF Target(k) = None THEN InPlace(k)' ELSE KindOf[Target(k)] = k
      BY <2>1 DEF Switching
    <3>1. active = req.was /\ (active[k] \notin Changed => InPlace(k))
      BY <1>1 DEF ApplyInv, Unswitched
    <3>2. CASE Wanted(k) # None
      BY <2>3, <3>2 DEF ApplyInv, Resolution
    <3>3. CASE Wanted(k) = None /\ req.was[k] \in Changed
      <4>1. Target(k) = active[k]
        BY <3>1, <3>3 DEF Target
      <4>2. active[k] # None => KindOf[active[k]] = k
        BY DEF ApplyInv, Kinded
      <4>3. active[k] = None => InPlace(k)'
        BY <1>1 DEF InPlace
      <4> QED BY <4>1, <4>2, <4>3
    <3>4. CASE Wanted(k) = None /\ req.was[k] \notin Changed
      <4>1. Target(k) = None /\ InPlace(k)
        BY <3>1, <3>4 DEF Target
      <4> QED BY <1>1, <1>3, <4>1 DEF InPlace
    <3> QED BY <3>2, <3>3, <3>4
  <2>5. Delivering'
    <3> SUFFICES ASSUME NEW k \in Kinds, Wanted(k) # None
                 PROVE  req'.target[k] # None /\ req'.target[k] = req.held[Wanted(k)]
      BY <2>1 DEF Delivering, Wanted
    <3> QED BY <2>1, <2>3
  <2> QED BY <1>1, <2>1, <2>2, <2>4, <2>5 DEF ApplyInv, Unswitched, Settled, AllSwitched
<1> QED BY <1>2, <1>3 DEF Resolve

LEMMA ApplyApply == ASSUME ImportInv, ApplyInv, NEW k \in Kinds, Apply(k) PROVE ApplyInv'
<1> DEFINE u == req.target[k]
<1>1. /\ req \in Import /\ req.pc = "apply" /\ u # None /\ u \in Uids /\ TypeOK
      /\ UNCHANGED <<rows, file, listed, edits>>
  BY DEF Apply, ImportInv, TypeOK, Import, Links
<1>2. KindOf[u] = k /\ Kinded(active)
  BY <1>1 DEF ApplyInv, Switching
<1>3. /\ req'.pc = "apply" /\ req'.from = req.from /\ req'.have = req.have
      /\ req'.restore = req.restore /\ req'.todo = req.todo /\ req'.held = req.held
      /\ req'.target = [req.target EXCEPT ![k] = None]
  BY <1>1 DEF Apply, Import
<1>4. /\ req'.target[k] = None
      /\ \A l \in Kinds \ {k} : req'.target[l] = req.target[l]
  BY <1>1, <1>3 DEF Import, Links
<1>5. Resolution' /\ Saved'
  BY <1>1, <1>3 DEF ApplyInv, Resolution, Saved
<1>6. /\ Kinded(active') /\ InPlace(k)' /\ \A l \in Kinds : InPlace(l) => InPlace(l)'
      /\ cut'[k] \/ files'[k].val = rows[u].val
      /\ \A l \in Kinds \ {k} : files'[l] = files[l] /\ cut'[l] = cut[l]
  <2>1. CASE SwitchTo(u)
    BY <1>1, <1>2, <2>1, SwitchApply
  <2>2. CASE cut' = [cut EXCEPT ![k] = TRUE] /\ UNCHANGED <<active, files>>
    BY <1>1, <1>2, <2>2 DEF InPlace, TypeOK
  <2> QED BY <2>1, <2>2 DEF Apply
<1>7. Switching'
  BY <1>1, <1>3, <1>4, <1>6 DEF ApplyInv, Switching
<1>8. Delivering'
  <2> SUFFICES ASSUME NEW l \in Kinds, Wanted(l) # None
               PROVE  IF req'.target[l] # None THEN req'.target[l] = req.held[Wanted(l)]
                      ELSE cut'[l] \/ files'[l].val = rows[req.held[Wanted(l)]].val
    BY <1>1, <1>3 DEF Delivering, Wanted
  <2>1. IF req.target[l] # None THEN req.target[l] = req.held[Wanted(l)]
        ELSE cut[l] \/ files[l].val = rows[req.held[Wanted(l)]].val
    BY <1>1 DEF ApplyInv, Delivering
  <2>2. CASE l = k
    BY <1>1, <1>4, <1>6, <2>1, <2>2
  <2>3. CASE l # k
    BY <1>4, <1>6, <2>1, <2>3
  <2> QED BY <2>2, <2>3
<1> QED BY <1>1, <1>3, <1>5, <1>6, <1>7, <1>8 DEF ApplyInv, Unswitched, Settled, AllSwitched

LEMMA LastApply == ASSUME ImportInv, ApplyInv, Applied \/ Finish PROVE ApplyInv'
<1>1. CASE Applied
  <2>1. /\ req \in Import /\ req.pc = "apply" /\ req.target = NoLinks
        /\ UNCHANGED <<rows, active, files, file, listed, cut, edits>>
    BY <1>1 DEF Applied, ImportInv, TypeOK
  <2>2. /\ req'.pc = "done" /\ req'.from = req.from /\ req'.have = req.have
        /\ req'.restore = req.restore /\ req'.todo = req.todo /\ req'.held = req.held
        /\ req'.target = req.target
    BY <1>1, <2>1 DEF Applied, Import
  <2>3. Resolution' /\ Saved'
    BY <2>1, <2>2 DEF ApplyInv, Resolution, Saved
  <2>4. Switching' /\ Delivering'
    BY <2>1, <2>2 DEF ApplyInv, Switching, Delivering, InPlace, Wanted
  <2> QED BY <2>1, <2>2, <2>3, <2>4 DEF ApplyInv, Unswitched, Settled, AllSwitched
<1>2. CASE Finish
  <2>1. /\ req.pc = "done" /\ req' = Idle
        /\ UNCHANGED <<rows, active, files, file, listed, cut, edits>>
    BY <1>2 DEF Finish
  <2>2. \A k \in Kinds : InPlace(k)'
    BY <2>1 DEF ApplyInv, Switching, AllSwitched, NoLinks, InPlace
  <2> QED BY <2>1, <2>2, Rests DEF ApplyInv
<1> QED BY <1>1, <1>2

LEMMA NextApply == ImportInv /\ ApplyInv /\ [Next]_vars => ApplyInv'
<1> SUFFICES ASSUME ImportInv, ApplyInv, [Next]_vars PROVE ApplyInv' OBVIOUS
<1>1. ASSUME NEW u \in Uids, NEW r \in Row, Create(u, r) \/ Edit(u, r) PROVE ApplyInv'
  BY <1>1, UserApply
<1>2. ASSUME NEW u \in Uids, Delete(u) \/ Switch(u) \/ SaveRecord(u) PROVE ApplyInv'
  BY <1>2, UserApply, SaveApply
<1>3. CASE ListForExport \/ FinishExport
  BY <1>3, ExportApply
<1>4. ASSUME NEW restore \in BOOLEAN, Start(restore) PROVE ApplyInv'
  BY <1>4, StartApply
<1>5. CASE AllSaved \/ Resolve \/ Applied \/ Finish
  BY <1>5, AllSavedApply, ResolveApply, LastApply
<1>6. ASSUME NEW k \in Kinds, Apply(k) PROVE ApplyInv'
  BY <1>6, ApplyApply
<1>7. CASE UNCHANGED vars
  BY <1>7 DEF vars, ApplyInv, Resolution, Saved, Unswitched, Switching, Settled, Delivering,
              AllSwitched, InPlace, Wanted, Changed
<1> QED BY <1>1, <1>2, <1>3, <1>4, <1>5, <1>6, <1>7 DEF Next

-----------------------------------------------------------------------------
(* ProviderImport implements SwitchService.  Nothing but the user takes rows
   out of the table, and the user waits for the import, so the rows an import
   has found, saved over and is about to switch to are there (LinkInv). *)

LinkInv ==
  /\ \A k \in Kinds : active[k] # None => active[k] \in In(rows)
  /\ In(req.have) \subseteq In(rows)
  /\ \A u \in Uids : req.held[u] # None => req.held[u] \in In(rows)
  /\ \A k \in Kinds : req.target[k] # None => req.target[k] \in In(rows)

LEMMA NoImportLinks ==
  /\ In(Idle.have) = {} /\ \A u \in Uids : Idle.held[u] = None
  /\ \A k \in Kinds : Idle.target[k] = None
  BY DEF Idle, NoLinks, Empty, In

LEMMA RestsLinked ==
  ASSUME req' = Idle, \A k \in Kinds : active'[k] # None => active'[k] \in In(rows')
  PROVE  LinkInv'
  BY NoImportLinks DEF LinkInv

LEMMA InitLinks == Init => LinkInv
  BY NoImportLinks DEF Init, Closed, LinkInv

LEMMA UserLinks ==
  ASSUME ImportInv, LinkInv, NEW u \in Uids,
         Delete(u) \/ Switch(u) \/ \E r \in Row : Create(u, r) \/ Edit(u, r)
  PROVE  LinkInv'
<1>1. /\ req' = Idle /\ rows \in Table /\ active \in Links /\ u # None /\ Absent \notin Row
  BY NoneApart, IdleTyped DEF ImportInv, TypeOK, Delete, Switch, Create, Edit, Edits
<1>2. ASSUME NEW r \in Row, rows' = [rows EXCEPT ![u] = r], active' = active PROVE LinkInv'
  BY <1>1, <1>2, RestsLinked DEF LinkInv, In, Table
<1>3. CASE Delete(u)
  BY <1>1, <1>3, RestsLinked DEF Delete, LinkInv, In, Table, Links
<1>4. CASE Switch(u)
  BY <1>1, <1>4, RestsLinked DEF Switch, SwitchTo, LinkInv, In, Links
<1> QED BY <1>2, <1>3, <1>4 DEF Create, Edit

\* A record is saved over a row: the table loses nothing.
LEMMA SaveOverLinks ==
  ASSUME ImportInv, ApplyInv, LinkInv, NEW u \in Uids, NEW w \in Uids, req.pc = "save",
         u \in req.todo, SaveOver(u, w), active' = active
  PROVE  LinkInv'
<1>1. /\ req \in Import /\ rows \in Table /\ req.held \in [Uids -> Uids \cup {None}]
      /\ Absent \notin Row
  BY IdleTyped DEF ImportInv, TypeOK, Import
<1>2. /\ rows' = [rows EXCEPT ![w] = req.from.rows[u]]
      /\ req'.have = req.have /\ req'.target = req.target
      /\ req'.held = [req.held EXCEPT ![u] = w, ![w] = w]
  BY <1>1 DEF SaveOver, Import
<1>3. req.from.rows[u] # Absent
  BY DEF ApplyInv, Resolution, In
<1>4. In(rows) \cup {w} \subseteq In(rows')
  BY <1>1, <1>2, <1>3 DEF In, Table
<1>5. \A v \in Uids : req'.held[v] \in {req.held[v], w}
  BY <1>1, <1>2
<1> QED BY <1>2, <1>4, <1>5 DEF LinkInv

LEMMA SaveLinks ==
  ASSUME ImportInv, ApplyInv, LinkInv, NEW u \in Uids, SaveRecord(u)
  PROVE  LinkInv'
<1>1. CASE Abort /\ UNCHANGED rows
  BY <1>1, RestsLinked DEF SaveRecord, Abort, LinkInv
<1>2. ASSUME NEW w \in Uids, SaveOver(u, w) PROVE LinkInv'
  BY <1>2, SaveOverLinks DEF SaveRecord
<1>3. Matches(u) \subseteq Uids
  BY DEF Matches, In
<1> QED BY <1>1, <1>2, <1>3 DEF SaveRecord

LEMMA ResolveLinks == ASSUME ImportInv, ApplyInv, LinkInv, Resolve PROVE LinkInv'
<1>1. req \in Import /\ UNCHANGED <<rows, active>> /\ active = req.was /\ active \in Links
  BY DEF Resolve, ImportInv, TypeOK, ApplyInv, Unswitched
<1>2. CASE req' = Idle
  BY <1>1, <1>2, RestsLinked DEF LinkInv
<1>3. CASE /\ \A k \in Kinds : Wanted(k) # None => Resolvable(Wanted(k))
           /\ req' = [req EXCEPT !.pc = "apply", !.target = [k \in Kinds |-> Target(k)]]
  <2>1. /\ req'.have = req.have /\ req'.held = req.held
        /\ req'.target = [k \in Kinds |-> Target(k)]
    BY <1>1, <1>3 DEF Import
  <2>2. ASSUME NEW k \in Kinds, Target(k) # None PROVE Target(k) \in In(rows)
    <3>1. Wanted(k) # None => Wanted(k) \in Uids
      BY <1>1 DEF Wanted, Import, Transfer, Links
    <3>2. CASE Wanted(k) # None
      BY <1>3, <2>2, <3>1, <3>2 DEF Target, Resolved, Resolvable, LinkInv
    <3>3. CASE Wanted(k) = None
      BY <1>1, <2>2, <3>3 DEF Target, LinkInv
    <3> QED BY <3>2, <3>3
  <2> QED BY <1>1, <2>1, <2>2 DEF LinkInv
<1> QED BY <1>2, <1>3 DEF Resolve, Abort

LEMMA ApplyLinks == ASSUME ImportInv, ApplyInv, LinkInv, NEW k \in Kinds, Apply(k) PROVE LinkInv'
<1>1. /\ req \in Import /\ req.target \in Links /\ active \in Links /\ req.target[k] # None
      /\ rows' = rows /\ req' = [req EXCEPT !.target = [req.target EXCEPT ![k] = None]]
  BY DEF Apply, ImportInv, TypeOK, Import
<1>2. /\ req'.have = req.have /\ req'.held = req.held
      /\ req'.target = [req.target EXCEPT ![k] = None]
  BY <1>1 DEF Import
<1>3. \A l \in Kinds : active'[l] = active[l] \/ active'[l] = req.target[k]
  BY <1>1 DEF Apply, SwitchTo, Links
<1> QED BY <1>1, <1>2, <1>3 DEF LinkInv, Links

LEMMA NextLinks == ImportInv /\ ApplyInv /\ LinkInv /\ [Next]_vars => LinkInv'
<1> SUFFICES ASSUME ImportInv, ApplyInv, LinkInv, [Next]_vars PROVE LinkInv' OBVIOUS
<1>1. ASSUME NEW u \in Uids, NEW r \in Row, Create(u, r) \/ Edit(u, r) PROVE LinkInv'
  BY <1>1, UserLinks
<1>2. ASSUME NEW u \in Uids, Delete(u) \/ Switch(u) \/ SaveRecord(u) PROVE LinkInv'
  BY <1>2, UserLinks, SaveLinks
<1>3. CASE ListForExport \/ FinishExport \/ UNCHANGED vars
  BY <1>3 DEF ListForExport, FinishExport, vars, LinkInv
<1>4. ASSUME NEW restore \in BOOLEAN, Start(restore) PROVE LinkInv'
  <2>1. /\ req' = [Idle EXCEPT !.pc = "save", !.restore = restore, !.from = file,
                            !.have = rows, !.was = active, !.todo = In(file.rows)]
        /\ UNCHANGED <<rows, active>>
    BY <1>4 DEF Start
  <2>2. req'.have = rows /\ req'.held = Idle.held /\ req'.target = Idle.target
    BY <2>1 DEF Idle
  <2> QED BY <2>1, <2>2, NoImportLinks DEF LinkInv
<1>5. CASE AllSaved \/ Applied
  <2>1. req'.have = req.have /\ req'.held = req.held /\ req'.target = req.target
    BY <1>5 DEF AllSaved, Applied, ImportInv, TypeOK, Import
  <2> QED BY <1>5, <2>1 DEF AllSaved, Applied, LinkInv
<1>6. CASE Finish
  BY <1>6, RestsLinked DEF Finish, LinkInv
<1>7. ASSUME NEW k \in Kinds, Apply(k) PROVE LinkInv'
  BY <1>7, ApplyLinks
<1> QED BY <1>1, <1>2, <1>3, <1>4, <1>5, <1>6, <1>7, ResolveLinks DEF Next

-----------------------------------------------------------------------------
(* The steps, as steps of SwitchService. *)

LEMMA NothingDue == ASSUME req = Idle, NEW k \in Kinds PROVE ~ReloadDue(k)
  BY NoImportLinks, NoImport DEF ReloadDue

\* A step that no tool notices.
LEMMA Unnoticed ==
  ASSUME UNCHANGED <<rows, active, files, cut>>, \A k \in Kinds : ReloadDue(k)' <=> ReloadDue(k)
  PROVE  UNCHANGED Service!vars
<1>1. tool' = tool BY DEF tool
<1> QED BY <1>1 DEF Service!vars

\* A failure that was reported, of one kind or of all.
LEMMA ReportedService ==
  ASSUME TypeOK, NEW K \in SUBSET Kinds, UNCHANGED <<rows, active, files>>,
         cut' = [k \in Kinds |-> k \in K \/ cut[k]],
         \A k \in Kinds \ K : ReloadDue(k)' <=> ReloadDue(k)
  PROVE  Service!Next
<1>1. tool' = [k \in Kinds |-> IF k \in K THEN None ELSE tool[k]]
  <2>1. \A k \in Kinds : tool'[k] = IF k \in K THEN None ELSE tool[k]
    BY DEF tool
  <2> QED BY <2>1 DEF tool
<1>2. Service!Unsettle(K) BY <1>1 DEF Service!Unsettle
<1> QED BY <1>2 DEF Service!Next

\* A switch that succeeds is a choice.
LEMMA ChosenService ==
  ASSUME TypeOK, NEW u \in Uids, u \in In(rows), SwitchTo(u), rows' = rows, ~ReloadDue(KindOf[u])',
         \A k \in Kinds \ {KindOf[u]} : ReloadDue(k)' <=> ReloadDue(k)
  PROVE  Service!Next
<1> DEFINE j == KindOf[u]
<1>1. /\ j \in Kinds /\ rows[u] \in Row
  BY KindOfType DEF TypeOK, Table, In
<1>2. /\ files'[j] = [uid |-> u, val |-> rows[u].val] /\ ~cut'[j]
      /\ \A k \in Kinds \ {j} : files'[k] = files[k] /\ cut'[k] = cut[k]
      /\ active' = [active EXCEPT ![j] = u]
  BY <1>1 DEF SwitchTo, TypeOK
<1>3. files'[j] \in Says[u][rows[u]] BY <1>1, <1>2 DEF Says
<1>4. tool' = [tool EXCEPT ![j] = files'[j]]
  <2>1. \A k \in Kinds : tool'[k] = IF k = j THEN files'[j] ELSE tool[k]
    BY <1>1, <1>2 DEF tool
  <2> QED BY <1>1, <2>1 DEF tool
<1>5. Service!Choose(u) BY <1>2, <1>3, <1>4 DEF Service!Choose, In
<1> QED BY <1>5 DEF Service!Next

LEMMA UserService ==
  ASSUME ImportInv, ApplyInv, LinkInv, NEW u \in Uids,
         Delete(u) \/ Switch(u) \/ \E r \in Row : Create(u, r) \/ Edit(u, r)
  PROVE  Service!Next
<1>1. /\ req = Idle /\ req' = Idle /\ TypeOK /\ rows \in Table /\ active \in Links
  BY DEF ImportInv, TypeOK, Delete, Switch, Create, Edit, Edits
<1>2. \A k \in Kinds : ~ReloadDue(k) /\ ~ReloadDue(k)'
  BY <1>1, NothingDue, NoImport DEF ReloadDue
<1>3. ASSUME NEW r \in Row, Create(u, r) PROVE Service!Next
  <2>1. tool' = tool BY <1>2, <1>3 DEF Create, tool
  <2>2. \A k \in Kinds : active[k] # u BY <1>3, NoneApart DEF Create, LinkInv
  <2>3. Service!Add(u, r) BY <1>3, <2>1, <2>2 DEF Service!Add, Create, In
  <2> QED BY <2>3 DEF Service!Next
<1>4. ASSUME NEW r \in Row, Edit(u, r) PROVE Service!Next
  <2> DEFINE j == KindOf[u]
                 reads == [uid |-> u, val |-> r.val]
  <2>1. j \in Kinds /\ reads \in Says[u][r] BY KindOfType DEF Says
  <2>2. CASE active[j] = u
    <3>1. \A k \in Kinds : tool'[k] = IF k = j THEN reads ELSE tool[k]
      BY <1>1, <1>2, <1>4, <2>1, <2>2 DEF Edit, tool, TypeOK
    <3>2. tool' = [tool EXCEPT ![j] = reads] BY <2>1, <3>1 DEF tool
    <3>3. Service!Edit(u, r) BY <1>4, <2>1, <2>2, <3>2 DEF Service!Edit, Edit, In
    <3> QED BY <3>3 DEF Service!Next
  <2>3. CASE active[j] # u
    <3>1. tool' = tool BY <1>2, <1>4, <2>3 DEF Edit, tool
    <3>2. Service!Edit(u, r) BY <1>4, <2>3, <3>1 DEF Service!Edit, Edit, In
    <3> QED BY <3>2 DEF Service!Next
  <2> QED BY <2>2, <2>3
<1>5. CASE Delete(u)
  <2>1. tool' = tool BY <1>2, <1>5 DEF Delete, tool
  <2>2. Service!Remove(u) BY <1>5, <2>1 DEF Service!Remove, Delete
  <2> QED BY <2>2 DEF Service!Next
<1>6. CASE Switch(u)
  BY <1>1, <1>2, <1>6, ChosenService, KindOfType DEF Switch
<1> QED BY <1>3, <1>4, <1>5, <1>6

\* A record is saved: a new provider, or an edit that unsettles the tool it is chosen for.
LEMMA SaveOverService ==
  ASSUME ImportInv, ApplyInv, LinkInv, NEW u \in Uids, NEW w \in Uids, req.pc = "save",
         u \in req.todo, SaveOver(u, w), UNCHANGED <<active, files>>, KindOf[w] = KindOf[u],
         IF u \in In(req.have) THEN w = u ELSE w \in In(req.have) \cup {u}
  PROVE  Service!Next
<1> DEFINE j == KindOf[w]
           r == req.from.rows[u]
<1>1. /\ req \in Import /\ rows \in Table /\ active \in Links /\ w # None /\ j \in Kinds
      /\ req.held \in [Uids -> Uids \cup {None}]
  BY NoneApart, KindOfType DEF ImportInv, TypeOK, Import
<1>2. r \in Row
  BY <1>1 DEF ApplyInv, Resolution, In, Import, Transfer, Table
<1>3. /\ rows' = [rows EXCEPT ![w] = r] /\ cut' = cut /\ req'.pc = "save"
      /\ req'.held = [req.held EXCEPT ![u] = w, ![w] = w]
  BY <1>1 DEF SaveOver, Import
<1> HIDE DEF r
<1>4. req.held[u] \in {None, w} /\ req.held[w] \in {None, w}
  BY DEF ApplyInv, Resolution
<1>5. ASSUME NEW k \in Kinds, active[k] # None
      PROVE  active[k] \in Changed' <=> active[k] \in Changed \/ active[k] = w
  <2>1. \A v \in Uids : req'.held[v] = IF v \in {u, w} THEN w ELSE req.held[v]
    BY <1>1, <1>3
  <2> QED BY <1>4, <1>5, <2>1 DEF Changed
<1>6. \A k \in Kinds : ReloadDue(k)' <=> ReloadDue(k) \/ active[k] = w
  BY <1>1, <1>3, <1>5 DEF ReloadDue
<1>7. \A k \in Kinds : active[k] = w => k = j
  BY <1>1 DEF ApplyInv, Kinded
<1>8. CASE active[j] # w
  <2>1. \A k \in Kinds : active[k] # w BY <1>7, <1>8
  <2>2. tool' = tool BY <1>3, <1>6, <2>1 DEF tool
  <2>3. CASE rows[w] = Absent
    <3>1. Service!Add(w, r) BY <1>3, <2>1, <2>2, <2>3 DEF Service!Add
    <3> QED BY <1>2, <3>1 DEF Service!Next
  <2>4. CASE rows[w] # Absent
    <3>1. Service!Edit(w, r) BY <1>3, <1>8, <2>2, <2>4 DEF Service!Edit
    <3> QED BY <1>2, <3>1 DEF Service!Next
  <2> QED BY <2>3, <2>4
<1>9. CASE active[j] = w
  <2>1. \A k \in Kinds : tool'[k] = IF k = j THEN None ELSE tool[k]
    BY <1>3, <1>6, <1>7, <1>9 DEF tool
  <2>2. tool' = [tool EXCEPT ![j] = None] BY <1>1, <2>1 DEF tool
  <2>3. rows[w] # Absent BY <1>1, <1>9 DEF LinkInv, In
  <2>4. Service!Edit(w, r) BY <1>3, <1>9, <2>2, <2>3 DEF Service!Edit
  <2> QED BY <1>2, <2>4 DEF Service!Next
<1> QED BY <1>8, <1>9

LEMMA AbortService ==
  ASSUME TypeOK, Abort, UNCHANGED <<rows, active, files>>
  PROVE  Service!Next
<1>1. cut' = [k \in Kinds |-> k \in Kinds \/ cut[k]] BY DEF Abort
<1> QED BY <1>1, ReportedService

LEMMA SaveService ==
  ASSUME ImportInv, ApplyInv, LinkInv, NEW u \in Uids, SaveRecord(u)
  PROVE  Service!Next
<1>1. /\ req.pc = "save" /\ u \in req.todo /\ UNCHANGED <<active, files>> /\ TypeOK
  BY DEF SaveRecord, ImportInv
<1>2. CASE Matches(u) = {} /\ SaveOver(u, u)
  <2>1. u \notin In(req.have) BY <1>2 DEF Matches
  <2> QED BY <1>1, <1>2, <2>1, SaveOverService
<1>3. ASSUME NEW w \in Matches(u), SaveOver(u, w) PROVE Service!Next
  <2>1. CASE u \in In(req.have)
    <3>1. w = u BY <2>1 DEF Matches
    <3> QED BY <1>1, <1>3, <2>1, <3>1, SaveOverService
  <2>2. CASE u \notin In(req.have)
    <3>1. w \in In(req.have) /\ KindOf[w] = KindOf[u] /\ w \in Uids
      BY <2>2 DEF Matches, SameKey, In
    <3> QED BY <1>1, <1>3, <2>2, <3>1, SaveOverService
  <2> QED BY <2>1, <2>2
<1>4. CASE Abort /\ UNCHANGED rows
  BY <1>1, <1>4, AbortService
<1> QED BY <1>2, <1>3, <1>4 DEF SaveRecord

\* What is to be reloaded is what the import changed: every tool it has unsettled is
\* among its targets, and no other becomes unsettled by their list.
LEMMA ResolveService ==
  ASSUME ImportInv, ApplyInv, Resolve
  PROVE  Service!Next \/ UNCHANGED Service!vars
<1>1. /\ req \in Import /\ req.pc = "resolve" /\ UNCHANGED <<rows, active, files>> /\ TypeOK
      /\ active = req.was
  BY DEF Resolve, ImportInv, TypeOK, ApplyInv, Unswitched
<1>2. CASE Abort BY <1>1, <1>2, AbortService
<1>3. CASE /\ req' = [req EXCEPT !.pc = "apply", !.target = [k \in Kinds |-> Target(k)]]
           /\ UNCHANGED cut
  <2>1. /\ req'.pc = "apply" /\ req'.held = req.held /\ req'.target = [k \in Kinds |-> Target(k)]
    BY <1>1, <1>3 DEF Import
  <2>2. Changed' = Changed BY <2>1 DEF Changed
  <2>3. ASSUME NEW k \in Kinds, active[k] # None, active[k] \in Changed PROVE Target(k) # None
    <3>1. CASE Wanted(k) # None BY <3>1 DEF Target, Resolved
    <3>2. CASE Wanted(k) = None BY <1>1, <2>3, <3>2 DEF Target
    <3> QED BY <3>1, <3>2
  <2>4. \A k \in Kinds : ReloadDue(k)' <=> ReloadDue(k)
    BY <1>1, <2>1, <2>2, <2>3 DEF ReloadDue
  <2> QED BY <1>1, <1>3, <2>4, Unnoticed
<1> QED BY <1>2, <1>3 DEF Resolve

LEMMA ApplyService ==
  ASSUME ImportInv, ApplyInv, LinkInv, NEW k \in Kinds, Apply(k)
  PROVE  Service!Next
<1> DEFINE u == req.target[k]
<1>1. /\ req \in Import /\ req.pc = "apply" /\ u # None /\ u \in Uids /\ TypeOK /\ rows' = rows
  BY DEF Apply, ImportInv, TypeOK, Import, Links
<1>2. KindOf[u] = k /\ u \in In(rows)
  BY <1>1 DEF ApplyInv, Switching, LinkInv
<1>3. /\ req'.pc = "apply" /\ req'.held = req.held
      /\ req'.target = [req.target EXCEPT ![k] = None]
  BY <1>1 DEF Apply, Import
<1>4. /\ req'.target[k] = None
      /\ \A l \in Kinds \ {k} : req'.target[l] = req.target[l]
  BY <1>1, <1>3 DEF Import, Links
<1>5. ~ReloadDue(k)' BY <1>3, <1>4 DEF ReloadDue
<1>6. ASSUME NEW l \in Kinds \ {k}, active'[l] = active[l] PROVE ReloadDue(l)' <=> ReloadDue(l)
  <2>1. Changed' = Changed BY <1>3 DEF Changed
  <2> QED BY <1>1, <1>3, <1>4, <1>6, <2>1 DEF ReloadDue
<1> HIDE DEF u
<1>7. CASE SwitchTo(u)
  <2>1. \A l \in Kinds \ {k} : active'[l] = active[l]
    BY <1>1, <1>2, <1>7 DEF SwitchTo, TypeOK, Links
  <2> QED BY <1>1, <1>2, <1>5, <1>6, <1>7, <2>1, ChosenService
<1>8. CASE cut' = [cut EXCEPT ![k] = TRUE] /\ UNCHANGED <<active, files>>
  <2>1. cut' = [l \in Kinds |-> l \in {k} \/ cut[l]] BY <1>1, <1>8, Zenon DEF TypeOK
  <2> QED BY <1>1, <1>6, <1>8, <2>1, ReportedService
<1> QED BY <1>7, <1>8 DEF Apply, u

LEMMA QuietService ==
  ASSUME ImportInv, ApplyInv,
         \/ ListForExport \/ FinishExport \/ AllSaved \/ Applied \/ Finish \/ UNCHANGED vars
         \/ \E restore \in BOOLEAN : Start(restore)
  PROVE  UNCHANGED Service!vars
<1>1. UNCHANGED <<rows, active, files, cut>> /\ req \in Import
  BY DEF ListForExport, FinishExport, AllSaved, Applied, Finish, Start, vars, ImportInv, TypeOK
<1>2. CASE req' = req
  BY <1>1, <1>2, Unnoticed DEF ReloadDue, Changed
<1>3. CASE AllSaved
  <2>1. req.pc = "save" /\ req'.pc = "resolve" /\ req'.held = req.held
    BY <1>1, <1>3 DEF AllSaved, Import
  <2> QED BY <1>1, <2>1, Unnoticed DEF ReloadDue, Changed
<1>4. CASE Applied
  <2>1. req.pc = "apply" /\ req'.pc = "done" /\ req.target = NoLinks
    BY <1>1, <1>4 DEF Applied, Import
  <2> QED BY <1>1, <2>1, Unnoticed DEF ReloadDue, NoLinks
<1>5. CASE Finish
  BY <1>1, <1>5, NoImport, Unnoticed DEF Finish, ReloadDue
<1>6. ASSUME NEW restore \in BOOLEAN, Start(restore) PROVE UNCHANGED Service!vars
  <2>1. req = Idle BY <1>6 DEF Start
  <2>2. \A v \in Uids : req'.held[v] = None
    BY <1>6, NoImport DEF Start, Idle
  <2>3. \A k \in Kinds : ~ReloadDue(k) /\ ~ReloadDue(k)'
    BY <2>1, <2>2, NothingDue DEF ReloadDue, Changed
  <2> QED BY <1>1, <2>3, Unnoticed
<1> QED BY <1>2, <1>3, <1>4, <1>5, <1>6 DEF ListForExport, FinishExport, vars

LEMMA InitService == Init => Service!Init
<1> SUFFICES ASSUME Init PROVE Service!Init OBVIOUS
<1>1. TypeOK /\ req = Idle /\ \A k \in Kinds : ~cut[k] /\ files[k] = AppliedTo(k, rows, active)
  BY InitInv DEF ImportInv, Init
<1>2. \A k \in Kinds : tool[k] = files[k] BY <1>1, NothingDue DEF tool
<1>3. tool \in [Kinds -> Content] BY <1>1, <1>2 DEF tool, TypeOK
<1>4. ASSUME NEW k \in Kinds, active[k] # None
      PROVE  /\ active[k] \in Uids /\ KindOf[active[k]] = k /\ rows[active[k]] # Absent
             /\ tool[k] \in Says[active[k]][rows[active[k]]]
  <2>1. active[k] \in In(rows) /\ KindOf[active[k]] = k BY <1>4 DEF Init, Closed
  <2>2. active[k] \in Uids /\ rows[active[k]] \in Row /\ rows[active[k]] # Absent
    BY <1>1, <2>1 DEF In, TypeOK, Table
  <2> QED BY <1>1, <1>2, <1>4, <2>1, <2>2 DEF Says, AppliedTo
<1> QED BY <1>1, <1>3, <1>4 DEF TypeOK, Table, Links, Service!Init, Service!ToolFollowsChoice

LEMMA ImportStep ==
  ImportInv /\ ApplyInv /\ LinkInv /\ [Next]_vars => [Service!Next]_Service!vars
<1> SUFFICES ASSUME ImportInv, ApplyInv, LinkInv, [Next]_vars
             PROVE  Service!Next \/ UNCHANGED Service!vars
  OBVIOUS
<1>1. ASSUME NEW u \in Uids, NEW r \in Row, Create(u, r) \/ Edit(u, r) PROVE Service!Next
  BY <1>1, UserService
<1>2. ASSUME NEW u \in Uids, Delete(u) \/ Switch(u) \/ SaveRecord(u) PROVE Service!Next
  BY <1>2, UserService, SaveService
<1> QED BY <1>1, <1>2, ResolveService, ApplyService, QuietService DEF Next

-----------------------------------------------------------------------------
(* The theorems. *)

\* Tables, files and the import have their types, for any providers and kinds.
THEOREM ImportTypeCorrect == Spec => []TypeOK
<1>1. ImportInv => TypeOK
  BY DEF ImportInv
<1> QED BY InitInv, NextInv, <1>1, PTL DEF Spec

\* An import of what the program exported never meets an active reference it
\* cannot resolve, whatever ran between the statements of the export.
THEOREM ReferencesAlwaysResolve == Spec => []ReferencesResolve
<1>1. ImportInv => ReferencesResolve
  <2> SUFFICES ASSUME ImportInv, req.pc = "resolve", NEW k \in Kinds, Wanted(k) # None
               PROVE  Resolvable(Wanted(k))
    BY DEF ReferencesResolve
  <2>1. Wanted(k) \in In(req.from.rows)
    BY DEF Wanted, ImportInv, SelfContained
  <2>2. req.held[Wanted(k)] # None
    BY <2>1 DEF ImportInv, Progress, NothingLeft
  <2> QED BY <2>2 DEF Resolvable
<1> QED BY InitInv, NextInv, <1>1, PTL DEF Spec

\* For any providers, kinds and contents, with any failures of statements and
\* switches: when no import is under way, a tool whose last change was not
\* reported to have failed runs with what its active provider says.
THEOREM ActiveAlwaysApplied == Spec => []ActiveApplied
<1>1. ApplyInv => ActiveApplied
  BY NoImport DEF ApplyInv, Settled, InPlace, ActiveApplied
<1> QED BY <1>1, InitInv, NextInv, InitApply, NextApply, PTL DEF Spec

\* An import that restored the active references and ends without an error has
\* switched each tool to what its file says, if its records have rows of their own.
THEOREM RestoreAlwaysFaithful == Spec => []RestoreIsFaithful
<1>1. ImportInv /\ ApplyInv => RestoreIsFaithful
  <2> SUFFICES ASSUME ImportInv, ApplyInv, req.pc = "done", RecordsApart,
                      NEW k \in Kinds, Wanted(k) # None, ~cut[k]
               PROVE  files[k].val = req.from.rows[Wanted(k)].val
    BY DEF RestoreIsFaithful
  <2>1. Wanted(k) \in In(req.from.rows) \ req.todo
    BY DEF Wanted, ImportInv, SelfContained, ApplyInv, Resolution
  <2>2. rows[req.held[Wanted(k)]] = req.from.rows[Wanted(k)]
    BY <2>1 DEF ApplyInv, Saved, RecordsApart, In
  <2>3. req.target[k] = None
    BY DEF ApplyInv, AllSwitched, NoLinks
  <2> QED BY <2>2, <2>3 DEF ApplyInv, Delivering
<1> QED BY <1>1, InitInv, NextInv, InitApply, NextApply, PTL DEF Spec
\* ProviderImport implements SwitchService, for any providers, kinds, tables and files and
\* with any failures: an import is a series of additions, edits and choices such as a
\* user makes (provider_transfer.go), whose switches SwitchImplementsService is about.
THEOREM ImportImplementsService == Spec => ImportKeepsService
<1> QED BY InitInv, NextInv, InitApply, NextApply, InitLinks, NextLinks, InitService, ImportStep,
           PTL DEF Spec, ImportKeepsService, Service!Spec
=============================================================================
