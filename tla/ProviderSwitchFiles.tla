------------------------- MODULE ProviderSwitchFiles -------------------------
(***************************************************************************)
(* When the clients leave a kind alone while a request on it is served, the *)
(* tool's files say what the database says.  The invariant that carries the *)
(* proof follows a request through the switch: which files are in place at  *)
(* each label, what the temporary file holds in each phase, and that the    *)
(* row it read is still the row.                                            *)
(***************************************************************************)
EXTENDS ProviderSwitchProofs

\* The labels of a switch between the first read and the activation.
SwitchPcs == {"backup", "private", "stat", "activate"} \cup WritePcs
Kind(w) == KindOf[req[w].id]

\* One request per kind, and none while the process is not up.
Exclusive ==
  /\ boot.pc # "up" => \A w \in Workers : req[w] = Idle
  /\ \A v, w \in Workers : v # w /\ req[v].pc # "idle" /\ req[w].pc # "idle" => Kind(v) # Kind(w)

\* A switch carries the row as it is, but for the model: once the content of
\* the main file is worked out, that content's.
WorkedOut(q) == q.pc = "activate" \/ (q.pc = "main" /\ q.phase # "open")
SameRow(r, s) ==
  /\ r.source = s.source /\ r.url = s.url /\ r.key = s.key
  /\ s.model # None => r.model \in {s.model, None}
Carries(q, r) ==
  /\ SameRow(q.row, r)
  /\ ~WorkedOut(q) /\ r.model # None => q.row.model = r.model

\* The files d of a kind are what a switch to p with row r leaves.
InPlace(d, p, r) == \A f \in Targets(p, r) : SaysSame(d[f].data, Rendered(p, r, f))

\* Request q, on files d of its kind, has come as far as its label says.
Writing(q, d) ==
  /\ q.pc \in WritePcs /\ q.phase = "write" => d[FileAt(q.pc)].tmp = Blank
  /\ q.pc \in WritePcs /\ q.phase = "rename" =>
       d[FileAt(q.pc)].tmp = Rendered(q.id, q.row, FileAt(q.pc))
  /\ q.pc \in {"main", "activate"} /\ "cred" \in Targets(q.id, q.row) =>
       d["cred"].data = Rendered(q.id, q.row, "cred")
  /\ q.pc = "activate" => d["main"].data = Rendered(q.id, q.row, "main")

\* Request q, with a the active provider of its kind and r the row of its
\* provider: a switch carries the row as it is, and a provider whose row is
\* about to be deleted is no longer active.
Served(q, d, a, r) ==
  /\ q.pc = "delRow" => a # q.id
  /\ q.pc \in SwitchPcs => r # Absent /\ Carries(q, r)
  /\ Writing(q, d)
ServedInv ==
  \A w \in Workers : req[w].pc # "idle" =>
    Served(req[w], disk[Kind(w)], active[Kind(w)], rows[req[w].id])

\* Where a request's descriptor on file f of kind k points.
Fd(q, k, f) ==
  IF q.pc \in WritePcs /\ q.phase = "write" /\ k = KindOf[q.id] /\ f = FileAt(q.pc)
  THEN "tmp" ELSE "closed"
Descriptors ==
  \A w \in Workers, k \in Kinds, f \in Files : disk[k][f].fd[w] = Fd(req[w], k, f)

\* A published file is whole, only a main file names a model, and a gateway's
\* file holds the fields of its place.
Shape(k, f, c) ==
  /\ c.form \notin {"blank", "torn"}
  /\ f # "main" => c.model = None
  /\ c.form = "gateway" =>
       /\ c.acct = None
       /\ f = "cred" => c.url = None
       /\ f = "main" /\ k = "codex" => c.key = None

\* Kind k, with a its active provider, r the row of that, d its files and c
\* the state of its last change.
Recorded(k, a, r, d, c) ==
  /\ a # None => KindOf[a] = k /\ r # Absent
  /\ a # None /\ c = "none" => InPlace(d, a, r)
  /\ \A f \in Files : Shape(k, f, d[f].data)
RecordedInv ==
  \A k \in Kinds : Recorded(k, active[k], rows[active[k]], disk[k], change[k])

\* A change under way is some request's.
Changing(q, a) == q.pc \in SwitchPcs \/ (q.pc \in {"reload", "get"} /\ a = q.id)
ChangesOwned ==
  \A k \in Kinds : change[k] = "open" =>
    \E w \in Workers : req[w].pc # "idle" /\ Kind(w) = k /\ Changing(req[w], active[k])

Marked ==
  boot.pc = "mark" => Exists(boot.id) /\ InPlace(disk[boot.kind], boot.id, rows[boot.id])

FilesInv ==
  /\ Exclusive /\ ServedInv /\ Descriptors /\ RecordedInv
  /\ ChangesOwned /\ Marked

-----------------------------------------------------------------------------
(* One request's step, seen from its own kind. *)

\* The step of w leaves the other kinds, and the other requests, alone.
LocalStep(w) ==
  /\ boot.pc = "up" /\ boot' = boot
  /\ req[w].pc # "idle"
  /\ req'[w] = Idle \/ req'[w].id = req[w].id
  /\ \A v \in Workers \ {w} : req'[v] = req[v]
  /\ \A p \in Providers : KindOf[p] # Kind(w) => rows'[p] = rows[p]
  /\ \A k \in Kinds \ {Kind(w)} :
       active'[k] = active[k] /\ disk'[k] = disk[k] /\ change'[k] = change[k]

\* What the step of w must establish in its own kind.
OwnKind(w) ==
  /\ req'[w].pc # "idle" =>
       Served(req'[w], disk'[Kind(w)], active'[Kind(w)], rows'[req[w].id])
  /\ \A f \in Files :
       /\ disk'[Kind(w)][f].fd[w] = Fd(req'[w], Kind(w), f)
       /\ \A v \in Workers \ {w} : disk'[Kind(w)][f].fd[v] = disk[Kind(w)][f].fd[v]
  /\ Recorded(Kind(w), active'[Kind(w)], rows'[active'[Kind(w)]], disk'[Kind(w)], change'[Kind(w)])
  /\ change'[Kind(w)] = "open" => req'[w].pc # "idle" /\ Changing(req'[w], active'[Kind(w)])

LEMMA BusyRequest ==
  ASSUME TypeInv, NEW w \in Workers, req[w].pc # "idle"
  PROVE  req[w] \in RequestType /\ req[w].id \in Providers /\ Kind(w) \in Kinds
  BY KindOfType DEF TypeInv, RequestsOK, Kind

LEMMA LocalFrame ==
  ASSUME TypeInv, FilesInv, NEW w \in Workers, LocalStep(w), OwnKind(w)
  PROVE  FilesInv'
<1>a. \A v \in Workers : req[v].pc # "idle" => req[v].id \in Providers /\ Kind(v) \in Kinds
  BY BusyRequest
<1>b. \A v \in Workers \ {w} : req[v].pc # "idle" => Kind(v) # Kind(w)
  BY DEF FilesInv, Exclusive, LocalStep
<1>c. Idle.pc = "idle"
  BY DEF Idle
<1>d. req'[w].pc # "idle" => req'[w].id = req[w].id
  BY <1>c DEF LocalStep
<1>1. Exclusive'
  BY <1>b, <1>d DEF Exclusive, LocalStep, FilesInv, Kind
<1>3. ServedInv'
  <2> SUFFICES ASSUME NEW v \in Workers, req'[v].pc # "idle"
               PROVE  Served(req'[v], disk'[KindOf[req'[v].id]], active'[KindOf[req'[v].id]],
                             rows'[req'[v].id])
    BY DEF ServedInv, Kind
  <2>1. CASE v = w
    BY <1>d, <2>1 DEF OwnKind, Kind
  <2>2. CASE v # w
    <3>1. req'[v] = req[v] /\ Kind(v) # Kind(w) /\ Kind(v) \in Kinds /\ req[v].id \in Providers
      BY <1>a, <1>b, <2>2 DEF LocalStep
    <3>2. Served(req[v], disk[Kind(v)], active[Kind(v)], rows[req[v].id])
      BY <3>1 DEF FilesInv, ServedInv
    <3>3. /\ disk'[Kind(v)] = disk[Kind(v)] /\ active'[Kind(v)] = active[Kind(v)]
          /\ rows'[req[v].id] = rows[req[v].id]
      BY <3>1 DEF LocalStep, Kind
    <3> QED BY <3>1, <3>2, <3>3 DEF Kind
  <2> QED BY <2>1, <2>2
<1>4. Descriptors'
  <2> SUFFICES ASSUME NEW v \in Workers, NEW k \in Kinds, NEW f \in Files
               PROVE  disk'[k][f].fd[v] = Fd(req'[v], k, f)
    BY DEF Descriptors
  <2>1. disk[k][f].fd[v] = Fd(req[v], k, f)
    BY DEF FilesInv, Descriptors
  <2>2. CASE k # Kind(w)
    <3>1. disk'[k][f].fd[v] = disk[k][f].fd[v]
      BY <2>2 DEF LocalStep
    <3>2. Fd(req'[w], k, f) = Fd(req[w], k, f)
      BY <1>d, <2>2 DEF Fd, Kind, WritePcs
    <3> QED BY <2>1, <3>1, <3>2 DEF LocalStep
  <2>3. CASE k = Kind(w)
    BY <2>1, <2>3 DEF OwnKind, LocalStep
  <2> QED BY <2>2, <2>3
<1>5. RecordedInv'
  <2> SUFFICES ASSUME NEW k \in Kinds
               PROVE  Recorded(k, active'[k], rows'[active'[k]], disk'[k], change'[k])
    BY DEF RecordedInv
  <2>1. CASE k = Kind(w)
    BY <2>1 DEF OwnKind
  <2>2. CASE k # Kind(w)
    <3>1. Recorded(k, active[k], rows[active[k]], disk[k], change[k])
      BY DEF FilesInv, RecordedInv
    <3>2. active'[k] = active[k] /\ disk'[k] = disk[k] /\ change'[k] = change[k]
      BY <2>2 DEF LocalStep
    <3>3. CASE active[k] = None
      BY <3>1, <3>2, <3>3 DEF Recorded
    <3>4. CASE active[k] # None
      <4>1. rows'[active[k]] = rows[active[k]]
        BY <2>2, <3>1, <3>4 DEF Recorded, LocalStep, TypeInv, TypeOK
      <4> QED BY <3>1, <3>2, <4>1
    <3> QED BY <3>3, <3>4
  <2> QED BY <2>1, <2>2
<1>6. ChangesOwned'
  <2> SUFFICES ASSUME NEW k \in Kinds, change'[k] = "open"
               PROVE  \E v \in Workers : /\ req'[v].pc # "idle" /\ KindOf[req'[v].id] = k
                                         /\ Changing(req'[v], active'[k])
    BY DEF ChangesOwned, Kind
  <2>1. CASE k = Kind(w)
    BY <1>d, <2>1 DEF OwnKind, Kind
  <2>2. CASE k # Kind(w)
    <3>1. active'[k] = active[k] /\ change[k] = "open"
      BY <2>2 DEF LocalStep
    <3>2. PICK v \in Workers : req[v].pc # "idle" /\ Kind(v) = k /\ Changing(req[v], active[k])
      BY <3>1 DEF FilesInv, ChangesOwned
    <3>3. req'[v] = req[v]
      BY <2>2, <3>2 DEF LocalStep
    <3> QED BY <3>1, <3>2, <3>3 DEF Kind
  <2> QED BY <2>1, <2>2
<1>7. Marked'
  BY DEF Marked, LocalStep
<1> QED BY <1>1, <1>3, <1>4, <1>5, <1>6, <1>7 DEF FilesInv

\* What the invariant says of a request being served and of its kind.
LEMMA OwnFacts ==
  ASSUME TypeInv, FilesInv, NEW w \in Workers, req[w].pc # "idle"
  PROVE  /\ Served(req[w], disk[Kind(w)], active[Kind(w)], rows[req[w].id])
         /\ Recorded(Kind(w), active[Kind(w)], rows[active[Kind(w)]], disk[Kind(w)], change[Kind(w)])
         /\ \A v \in Workers, f \in Files : disk[Kind(w)][f].fd[v] = Fd(req[v], Kind(w), f)
         /\ change[Kind(w)] = "open" => Changing(req[w], active[Kind(w)])
<1>1. Kind(w) \in Kinds
  BY BusyRequest
<1>2. ASSUME change[Kind(w)] = "open" PROVE Changing(req[w], active[Kind(w)])
  <2>1. PICK v \in Workers : req[v].pc # "idle" /\ Kind(v) = Kind(w) /\ Changing(req[v], active[Kind(w)])
    BY <1>1, <1>2 DEF FilesInv, ChangesOwned
  <2>2. v = w
    BY <2>1 DEF FilesInv, Exclusive
  <2> QED BY <2>1, <2>2
<1> QED BY <1>1, <1>2 DEF FilesInv, ServedInv, RecordedInv, Descriptors

LEMMA IdleFd == \A k, f : Fd(Idle, k, f) = "closed"
  BY DEF Fd, Idle, WritePcs

\* A step that touches neither rows nor files nor the active providers.
LEMMA QuietStep ==
  ASSUME TypeInv, FilesInv, NEW w \in Workers, NEW q, boot.pc = "up", req[w].pc # "idle",
         UNCHANGED <<rows, active, disk, boot>>, req' = [req EXCEPT ![w] = q],
         q = Idle \/ q.id = req[w].id,
         req[w].pc \notin WritePcs, q.pc \notin WritePcs \/ q.phase = "open",
         q.pc # "idle" => Served(q, disk[Kind(w)], active[Kind(w)], rows[req[w].id]),
         \A k \in Kinds \ {Kind(w)} : change'[k] = change[k],
         change'[Kind(w)] \in {change[Kind(w)], "cut", "missed"},
         change'[Kind(w)] = "open" => q.pc # "idle" /\ Changing(q, active[Kind(w)])
  PROVE  FilesInv'
<1>1. req'[w] = q /\ \A v \in Workers \ {w} : req'[v] = req[v]
  BY DEF TypeInv, RequestsOK
<1>2. LocalStep(w)
  BY <1>1 DEF LocalStep
<1>3. \A f \in Files : disk[Kind(w)][f].fd[w] = "closed"
  BY OwnFacts DEF Fd
<1>4. \A f \in Files : Fd(q, Kind(w), f) = "closed"
  BY DEF Fd
<1>5. Recorded(Kind(w), active[Kind(w)], rows[active[Kind(w)]], disk[Kind(w)], change'[Kind(w)])
  BY OwnFacts DEF Recorded
<1>6. OwnKind(w)
  BY <1>1, <1>3, <1>4, <1>5 DEF OwnKind
<1> QED BY <1>2, <1>6, LocalFrame

-----------------------------------------------------------------------------
(* The steps of a switch. *)

LEMMA FinishQuiet ==
  ASSUME TypeInv, FilesInv, NEW w \in Workers, boot.pc = "up", req[w].pc # "idle",
         UNCHANGED <<rows, active, disk, boot>>, Finish(w), req[w].pc \notin WritePcs,
         \A k \in Kinds \ {Kind(w)} : change'[k] = change[k],
         change'[Kind(w)] \in {change[Kind(w)], "cut", "missed"}, change'[Kind(w)] # "open"
  PROVE  FilesInv'
<1>1. Idle.pc = "idle" /\ "idle" \notin WritePcs
  BY DEF Idle, WritePcs
<1>2. req' = [req EXCEPT ![w] = Idle]
  BY DEF Finish
<1> DEFINE q == Idle
<1> HIDE DEF q
<1>3. q = Idle
  BY DEF q
<1> QED BY <1>1, <1>2, <1>3, QuietStep

LEMMA GetProviderFiles ==
  ASSUME TypeInv, FilesInv, NEW w \in Workers, GetProvider(w)
  PROVE  FilesInv'
<1>1. /\ boot.pc = "up" /\ req[w].pc = "get" /\ UNCHANGED <<rows, active, disk, boot, change>>
  BY DEF GetProvider, At
<1>2. req[w] \in RequestType /\ req[w].id \in Providers
  BY <1>1, BusyRequest
<1>3. CASE Exists(req[w].id)
  <2> DEFINE q == [req[w] EXCEPT !.pc = "backup", !.row = rows[req[w].id]]
  <2>1. req' = [req EXCEPT ![w] = q]
    BY <1>2, <1>3 DEF GetProvider, TypeInv, RequestsOK
  <2>2. q.pc = "backup" /\ q.id = req[w].id /\ q.row = rows[req[w].id]
    BY <1>2 DEF RequestType
  <2>4. Served(q, disk[Kind(w)], active[Kind(w)], rows[req[w].id])
    BY <1>3, <2>2 DEF Served, Writing, WritePcs, Carries, SameRow, Exists
  <2>5. Changing(q, active[Kind(w)])
    BY <2>2 DEF Changing, SwitchPcs
  <2> HIDE DEF q
  <2> QED BY <1>1, <2>1, <2>2, <2>4, <2>5, QuietStep DEF WritePcs
<1>4. CASE ~Exists(req[w].id)
  <2>1. change[Kind(w)] # "open"
    <3> SUFFICES ASSUME change[Kind(w)] = "open" PROVE FALSE
      OBVIOUS
    <3>1. active[Kind(w)] = req[w].id
      BY <1>1, OwnFacts DEF Changing, SwitchPcs, WritePcs
    <3>2. req[w].id # None
      BY <1>2, NoneIsNothing
    <3> QED BY <1>1, <1>4, <3>1, <3>2, OwnFacts DEF Recorded, Exists
  <2>2. Finish(w)
    BY <1>4 DEF GetProvider
  <2> QED BY <1>1, <2>1, <2>2, FinishQuiet DEF WritePcs
<1> QED BY <1>3, <1>4

LEMMA BackupFiles ==
  ASSUME TypeInv, FilesInv, NEW w \in Workers, BackupProviderFiles(w)
  PROVE  FilesInv'
<1>1. /\ boot.pc = "up" /\ req[w].pc = "backup" /\ UNCHANGED <<rows, active, disk, boot, change>>
  BY DEF BackupProviderFiles, At
<1>2. req[w] \in RequestType /\ req[w].id \in Providers /\ req[w].row \in Row
  BY <1>1, BusyRequest DEF TypeInv, RequestsOK, RowPcs
<1> DEFINE q == [req[w] EXCEPT !.pc = ApplyStart(req[w].id, req[w].row), !.phase = "open"]
<1>3. req' = [req EXCEPT ![w] = q]
  BY <1>2 DEF BackupProviderFiles, Goto, TypeInv, RequestsOK
<1>4. /\ q.pc = ApplyStart(req[w].id, req[w].row) /\ q.phase = "open"
      /\ q.id = req[w].id /\ q.row = req[w].row
  BY <1>2 DEF RequestType
<1>5. /\ q.pc \in {"private", "main", "cred"}
      /\ q.pc = "main" => "cred" \notin Targets(q.id, q.row)
  BY <1>2, <1>4 DEF ApplyStart, Targets, Row, Sources
<1>6. Served(req[w], disk[Kind(w)], active[Kind(w)], rows[req[w].id])
  BY <1>1, OwnFacts
<1>7. Served(q, disk[Kind(w)], active[Kind(w)], rows[req[w].id])
  BY <1>1, <1>4, <1>5, <1>6 DEF Served, Writing, SwitchPcs, WritePcs, Carries, WorkedOut
<1>8. Changing(q, active[Kind(w)])
  BY <1>5 DEF Changing, SwitchPcs, WritePcs
<1> HIDE DEF q
<1> QED BY <1>1, <1>3, <1>4, <1>5, <1>7, <1>8, QuietStep DEF WritePcs

LEMMA PrepareFiles ==
  ASSUME TypeInv, FilesInv, NEW w \in Workers, PrepareOfficial(w)
  PROVE  FilesInv'
<1>1. /\ boot.pc = "up" /\ req[w].pc = "private" /\ UNCHANGED <<rows, active, disk, boot, change>>
  BY DEF PrepareOfficial, At
<1>2. req[w] \in RequestType /\ req[w].id \in Providers /\ req[w].row \in Row
  BY <1>1, BusyRequest DEF TypeInv, RequestsOK, RowPcs
<1> DEFINE m == Merged(req[w].row.model, home[req[w].id].model)
           q == [req[w] EXCEPT !.pc = "stat", !.row = WithModel(req[w].row, m)]
<1>3. req' = [req EXCEPT ![w] = q]
  BY <1>2 DEF PrepareOfficial, TypeInv, RequestsOK
<1>4. /\ q.pc = "stat" /\ q.id = req[w].id
      /\ q.row.source = req[w].row.source /\ q.row.url = req[w].row.url
      /\ q.row.key = req[w].row.key /\ q.row.model = m
  BY <1>2 DEF RequestType, WithModel, Row
<1>5. Served(req[w], disk[Kind(w)], active[Kind(w)], rows[req[w].id])
  BY <1>1, OwnFacts
<1>6. Carries(req[w], rows[req[w].id]) /\ ~WorkedOut(req[w]) /\ rows[req[w].id] # Absent
  BY <1>1, <1>5 DEF Served, SwitchPcs, WorkedOut
<1>7. Carries(q, rows[req[w].id])
  BY <1>4, <1>6 DEF Carries, SameRow, Merged
<1>8. Served(q, disk[Kind(w)], active[Kind(w)], rows[req[w].id])
  BY <1>4, <1>6, <1>7 DEF Served, Writing, WritePcs
<1>9. Changing(q, active[Kind(w)])
  BY <1>4 DEF Changing, SwitchPcs
<1> HIDE DEF q
<1> QED BY <1>1, <1>3, <1>4, <1>8, <1>9, QuietStep DEF WritePcs

LEMMA CheckLoginFiles ==
  ASSUME TypeInv, FilesInv, NEW w \in Workers, CheckLogin(w)
  PROVE  FilesInv'
<1>1. /\ boot.pc = "up" /\ req[w].pc = "stat" /\ UNCHANGED <<rows, active, disk, boot, change>>
  BY DEF CheckLogin, At
<1>2. req[w] \in RequestType /\ req[w].id \in Providers
  BY <1>1, BusyRequest
<1>3. PICK pc \in {"aux", "cred"} : Goto(w, pc)
  BY DEF CheckLogin
<1> DEFINE q == [req[w] EXCEPT !.pc = pc, !.phase = "open"]
<1>4. req' = [req EXCEPT ![w] = q]
  BY <1>2, <1>3 DEF Goto, TypeInv, RequestsOK
<1>5. q.pc = pc /\ q.phase = "open" /\ q.id = req[w].id /\ q.row = req[w].row
  BY <1>2 DEF RequestType
<1>6. Served(req[w], disk[Kind(w)], active[Kind(w)], rows[req[w].id])
  BY <1>1, OwnFacts
<1>7. Served(q, disk[Kind(w)], active[Kind(w)], rows[req[w].id])
  BY <1>1, <1>5, <1>6 DEF Served, Writing, SwitchPcs, WritePcs, Carries, WorkedOut
<1>8. Changing(q, active[Kind(w)])
  BY <1>5 DEF Changing, SwitchPcs, WritePcs
<1> HIDE DEF q
<1> QED BY <1>1, <1>4, <1>5, <1>7, <1>8, QuietStep DEF WritePcs
-----------------------------------------------------------------------------
(* The file steps. *)

LEMMA InPlaceData ==
  ASSUME NEW d, NEW e, NEW p \in Providers, NEW r, \A f \in Files : e[f].data = d[f].data,
         InPlace(d, p, r)
  PROVE  InPlace(e, p, r)
<1>1. Targets(p, r) \subseteq Files
  BY DEF Targets, Files
<1> QED BY <1>1 DEF InPlace

\* The request w, at a write label, turns the path it works on into path and
\* goes on as q.
LEMMA PathStep ==
  ASSUME TypeInv, FilesInv, NEW w \in Workers, NEW path, NEW q, NEW d,
         boot.pc = "up", req[w].pc \in WritePcs,
         UNCHANGED <<rows, active, boot>>, PutPath(w, path), d = disk'[Kind(w)],
         req' = [req EXCEPT ![w] = q], q.id = req[w].id, q.pc \in SwitchPcs,
         \A v \in Workers \ {w} : path.fd[v] = Path(w).fd[v],
         path.fd[w] = Fd(q, Kind(w), FileAt(req[w].pc)),
         q.pc \in WritePcs /\ q.phase = "write" => FileAt(q.pc) = FileAt(req[w].pc),
         Served(q, d, active[Kind(w)], rows[req[w].id]),
         Shape(Kind(w), FileAt(req[w].pc), path.data),
         \A k \in Kinds \ {Kind(w)} : change'[k] = change[k],
         \/ path.data = Path(w).data /\ change'[Kind(w)] = change[Kind(w)]
         \/ change'[Kind(w)] = "open"
  PROVE  FilesInv'
<1> DEFINE k == Kind(w)  f == FileAt(req[w].pc)
<1>a. req[w].pc # "idle" /\ q.pc # "idle"
  BY DEF WritePcs, SwitchPcs
<1>1. k \in Kinds /\ f \in Files /\ req[w].id \in Providers
  BY <1>a, BusyRequest, WorkerPath DEF TypeInv, TypeOK, DiskOK
<1>2. disk \in [Kinds -> [Files -> PathType]]
  BY DEF TypeInv, TypeOK
<1>3. /\ disk'[k][f] = path
      /\ \A g \in Files \ {f} : disk'[k][g] = disk[k][g]
      /\ \A j \in Kinds \ {k} : disk'[j] = disk[j]
  BY <1>1, <1>2 DEF PutPath, Kind
<1>4. req'[w] = q /\ \A v \in Workers \ {w} : req'[v] = req[v]
  BY DEF TypeInv, RequestsOK
<1>5. LocalStep(w)
  BY <1>a, <1>3, <1>4 DEF LocalStep
<1>6. ASSUME NEW g \in Files
      PROVE  /\ disk'[k][g].fd[w] = Fd(q, k, g)
             /\ \A v \in Workers \ {w} : disk'[k][g].fd[v] = disk[k][g].fd[v]
  <2>1. CASE g = f
    BY <1>3, <2>1 DEF Path, Kind
  <2>2. CASE g # f
    <3>1. disk[k][g].fd[w] = "closed"
      BY <1>a, <2>2, OwnFacts DEF Fd
    <3>2. Fd(q, k, g) = "closed"
      BY <2>2 DEF Fd
    <3> QED BY <1>3, <2>2, <3>1, <3>2
  <2> QED BY <2>1, <2>2
<1>7. Recorded(k, active[k], rows[active[k]], disk[k], change[k])
  BY <1>a, OwnFacts
<1>8. \A g \in Files : Shape(k, g, disk'[k][g].data)
  BY <1>3, <1>7 DEF Recorded
<1>9. ASSUME active[k] # None, change'[k] = "none"
      PROVE  InPlace(disk'[k], active[k], rows[active[k]])
  <2>1. path.data = Path(w).data /\ change[k] = "none"
    BY <1>9
  <2>2. \A g \in Files : disk'[k][g].data = disk[k][g].data
    BY <1>3, <2>1 DEF Path, Kind
  <2>3. active[k] \in Providers
    BY <1>1, <1>9 DEF TypeInv, TypeOK
  <2> QED BY <1>7, <1>9, <2>1, <2>2, <2>3, InPlaceData DEF Recorded
<1>10. Recorded(k, active[k], rows[active[k]], disk'[k], change'[k])
  BY <1>7, <1>8, <1>9 DEF Recorded
<1>11. Changing(q, active[k])
  BY DEF Changing
<1>12. OwnKind(w)
  BY <1>a, <1>4, <1>6, <1>10, <1>11 DEF OwnKind
<1> QED BY <1>5, <1>12, LocalFrame

\* What a request at a write label knows.
LEMMA WriterFacts ==
  ASSUME TypeInv, FilesInv, NEW w \in Workers, req[w].pc \in WritePcs
  PROVE  /\ req[w] \in RequestType /\ req[w].id \in Providers /\ req[w].row \in Row
         /\ Kind(w) \in Kinds /\ FileAt(req[w].pc) \in Files
         /\ disk \in [Kinds -> [Files -> PathType]]
         /\ Path(w) = disk[Kind(w)][FileAt(req[w].pc)] /\ Path(w) \in PathType
         /\ rows[req[w].id] # Absent /\ Carries(req[w], rows[req[w].id])
         /\ Writing(req[w], disk[Kind(w)])
         /\ Path(w).fd[w] = IF req[w].phase = "write" THEN "tmp" ELSE "closed"
         /\ \A v \in Workers \ {w} : Path(w).fd[v] = "closed"
         /\ Recorded(Kind(w), active[Kind(w)], rows[active[Kind(w)]], disk[Kind(w)], change[Kind(w)])
<1>1. req[w].pc # "idle"
  BY DEF WritePcs
<1>2. /\ req[w] \in RequestType /\ req[w].id \in Providers /\ req[w].row \in Row
      /\ Kind(w) \in Kinds /\ FileAt(req[w].pc) \in Files /\ Path(w) \in PathType
      /\ disk \in [Kinds -> [Files -> PathType]]
  BY <1>1, BusyRequest, WorkerPath DEF TypeInv, TypeOK, DiskOK
<1>3. Served(req[w], disk[Kind(w)], active[Kind(w)], rows[req[w].id])
  BY <1>1, OwnFacts
<1>4. \A v \in Workers : Path(w).fd[v] = Fd(req[v], Kind(w), FileAt(req[w].pc))
  BY <1>1, <1>2, OwnFacts DEF Path, Kind
<1>5. \A v \in Workers \ {w} : Fd(req[v], Kind(w), FileAt(req[w].pc)) = "closed"
  BY <1>1 DEF Fd, FilesInv, Exclusive, Kind, WritePcs
<1>6. Fd(req[w], Kind(w), FileAt(req[w].pc)) = IF req[w].phase = "write" THEN "tmp" ELSE "closed"
  BY DEF Fd, Kind
<1>7. Recorded(Kind(w), active[Kind(w)], rows[active[Kind(w)]], disk[Kind(w)], change[Kind(w)])
  BY <1>1, OwnFacts
<1> QED BY <1>2, <1>3, <1>4, <1>5, <1>6, <1>7 DEF Served, SwitchPcs, Path, Kind

\* The contents of the other files do not depend on the model.
LEMMA RenderedModel ==
  ASSUME NEW p, NEW r \in Row, NEW m
  PROVE  /\ Rendered(p, WithModel(r, m), "cred") = Rendered(p, r, "cred")
         /\ Targets(p, WithModel(r, m)) = Targets(p, r)
  BY DEF Rendered, Targets, WithModel, Row

LEMMA OpenFileFiles ==
  ASSUME TypeInv, FilesInv, NEW w \in Workers, OpenFile(w)
  PROVE  FilesInv'
<1>1. /\ boot.pc = "up" /\ req[w].pc \in WritePcs /\ req[w].phase = "open"
      /\ UNCHANGED <<rows, active, boot, change>>
      /\ PutPath(w, OpenTmp(Path(w), w, Blank))
  BY DEF OpenFile
<1>2. PICK m \in IF req[w].pc = "main" /\ req[w].row.source = "gateway"
                 THEN EditedModels(w) ELSE {req[w].row.model} :
        req' = [req EXCEPT ![w].phase = "write", ![w].row = WithModel(req[w].row, m)]
  BY DEF OpenFile
<1> DEFINE k == Kind(w)  f == FileAt(req[w].pc)  path == OpenTmp(Path(w), w, Blank)
           q == [req[w] EXCEPT !.phase = "write", !.row = WithModel(req[w].row, m)]
<1>a. /\ req[w] \in RequestType /\ req[w].row \in Row /\ k \in Kinds /\ f \in Files
      /\ Path(w) = disk[k][f] /\ Path(w) \in PathType
      /\ disk \in [Kinds -> [Files -> PathType]]
  BY <1>1, WriterFacts
<1>3. req' = [req EXCEPT ![w] = q]
  BY <1>2, <1>a DEF TypeInv, RequestsOK
<1>4. /\ q.pc = req[w].pc /\ q.phase = "write" /\ q.id = req[w].id
      /\ q.row = WithModel(req[w].row, m)
  BY <1>a DEF RequestType
<1>5. Carries(req[w], rows[req[w].id]) /\ ~WorkedOut(req[w]) /\ rows[req[w].id] # Absent
  BY <1>1, WriterFacts DEF WorkedOut, WritePcs
<1>6. /\ req[w].pc # "main" => m = req[w].row.model
      /\ rows[req[w].id].model # None => m \in {rows[req[w].id].model, None}
  <2>1. CASE req[w].pc = "main" /\ req[w].row.source = "gateway"
    <3>1. req[w].row.model # None => EditedModels(w) \subseteq {req[w].row.model, None}
      BY DEF EditedModels, Merged
    <3> QED BY <1>2, <1>5, <2>1, <3>1 DEF Carries
  <2>2. CASE ~(req[w].pc = "main" /\ req[w].row.source = "gateway")
    BY <1>2, <1>5, <2>2 DEF Carries
  <2> QED BY <2>1, <2>2
<1>7. Carries(q, rows[req[w].id])
  BY <1>4, <1>5, <1>6, <1>a DEF Carries, SameRow, WorkedOut, WithModel, Row
<1>8. path.tmp = Blank /\ path.data = Path(w).data /\ path.fd[w] = "tmp"
      /\ \A v \in Workers \ {w} : path.fd[v] = Path(w).fd[v]
  BY <1>a DEF OpenTmp, PathType
<1>9. disk'[k][f] = path /\ \A g \in Files \ {f} : disk'[k][g] = disk[k][g]
  BY <1>1, <1>a DEF PutPath, Kind
<1>10. Writing(req[w], disk[k])
  BY <1>1, WriterFacts
<1>11. \A g \in Files : disk'[k][g].data = disk[k][g].data
  BY <1>8, <1>9, <1>a
<1> HIDE DEF path
<1>12. Writing(q, disk'[k])
  BY <1>1, <1>4, <1>8, <1>9, <1>10, <1>11, <1>a, RenderedModel DEF Writing, WritePcs, Files
<1>13. Served(q, disk'[k], active[k], rows[req[w].id])
  BY <1>1, <1>4, <1>5, <1>7, <1>12 DEF Served, WritePcs
<1>14. Shape(k, f, path.data)
  BY <1>1, <1>8, <1>a, WriterFacts DEF Recorded
<1>15. Fd(q, k, f) = "tmp" /\ q.pc \in SwitchPcs
  BY <1>1, <1>4 DEF Fd, Kind, SwitchPcs
<1> HIDE DEF q
<1> QED BY <1>1, <1>3, <1>4, <1>8, <1>13, <1>14, <1>15, PathStep DEF path
LEMMA WriteFileFiles ==
  ASSUME TypeInv, FilesInv, NEW w \in Workers, WriteFile(w)
  PROVE  FilesInv'
<1>1. /\ boot.pc = "up" /\ req[w].pc \in WritePcs /\ req[w].phase = "write"
      /\ UNCHANGED <<rows, active, boot, change>>
      /\ req' = [req EXCEPT ![w].phase = "rename"]
  BY DEF WriteFile
<1> DEFINE k == Kind(w)  f == FileAt(req[w].pc)  c == Rendered(req[w].id, req[w].row, f)
           q == [req[w] EXCEPT !.phase = "rename"]
<1>a. /\ req[w] \in RequestType /\ req[w].row \in Row /\ k \in Kinds /\ f \in Files
      /\ Path(w) = disk[k][f] /\ Path(w) \in PathType
      /\ disk \in [Kinds -> [Files -> PathType]]
      /\ Writing(req[w], disk[k]) /\ Path(w).fd[w] = "tmp"
  BY <1>1, WriterFacts
<1>2. PICK path \in WriteTmp(Path(w), w, c, Torn) : PutPath(w, path)
  BY <1>1 DEF WriteFile
<1>3. path = [Path(w) EXCEPT !.tmp = c, !.fd[w] = "closed"]
  <2>1. Path(w).tmp = Blank
    BY <1>1, <1>a DEF Writing
  <2>2. Blank = [Torn EXCEPT !.form = "blank"]
    BY DEF Blank, Torn, Unwritten
  <2>3. Overwrite(Path(w).tmp, c, Torn) = {c}
    BY <2>1, <2>2 DEF Overwrite
  <2> QED BY <1>2, <1>a, <2>3 DEF WriteTmp
<1>4. /\ path.tmp = c /\ path.data = Path(w).data /\ path.fd[w] = "closed"
      /\ \A v \in Workers \ {w} : path.fd[v] = Path(w).fd[v]
  BY <1>3, <1>a DEF PathType
<1>5. disk'[k][f] = path /\ \A g \in Files \ {f} : disk'[k][g] = disk[k][g]
  BY <1>2, <1>a DEF PutPath, Kind
<1>6. \A g \in Files : disk'[k][g].data = disk[k][g].data
  BY <1>4, <1>5, <1>a
<1>7. req' = [req EXCEPT ![w] = q]
  BY <1>1, <1>a DEF TypeInv, RequestsOK
<1>8. q.pc = req[w].pc /\ q.phase = "rename" /\ q.id = req[w].id /\ q.row = req[w].row
  BY <1>a DEF RequestType
<1>9. Writing(q, disk'[k])
  BY <1>1, <1>4, <1>5, <1>6, <1>8, <1>a DEF Writing, Files
<1>10. Served(q, disk'[k], active[k], rows[req[w].id])
  BY <1>1, <1>8, <1>9, WriterFacts DEF Served, WritePcs, Carries, WorkedOut
<1>11. Shape(k, f, path.data)
  BY <1>1, <1>4, <1>a, WriterFacts DEF Recorded
<1>12. Fd(q, k, f) = "closed" /\ q.pc \in SwitchPcs
  BY <1>1, <1>8 DEF Fd, SwitchPcs
<1> HIDE DEF q
<1> QED BY <1>1, <1>2, <1>4, <1>7, <1>8, <1>10, <1>11, <1>12, PathStep

LEMMA RenderedShape ==
  ASSUME NEW p \in Providers, NEW r \in Row, NEW f \in Files
  PROVE  Shape(KindOf[p], f, Rendered(p, r, f))
  BY DEF Shape, Rendered, Files, Row, Sources

LEMMA RenameFileFiles ==
  ASSUME TypeInv, FilesInv, NEW w \in Workers, RenameFile(w)
  PROVE  FilesInv'
<1> DEFINE k == Kind(w)  f == FileAt(req[w].pc)  path == RenameTmp(Path(w), NoFile)
<1>1. /\ boot.pc = "up" /\ req[w].pc \in WritePcs /\ req[w].phase = "rename"
      /\ UNCHANGED <<rows, active, boot>> /\ PutPath(w, path)
      /\ change' = [change EXCEPT ![k] = "open"]
  BY DEF RenameFile, Kind
<1>2. PICK pc \in NextFile(req[w].pc, req[w].row) : Goto(w, pc)
  BY DEF RenameFile
<1> DEFINE q == [req[w] EXCEPT !.pc = pc, !.phase = "open"]
<1>a. /\ req[w] \in RequestType /\ req[w].row \in Row /\ req[w].id \in Providers
      /\ k \in Kinds /\ f \in Files
      /\ Path(w) = disk[k][f] /\ Path(w) \in PathType
      /\ disk \in [Kinds -> [Files -> PathType]]
      /\ Writing(req[w], disk[k])
      /\ \A v \in Workers : Path(w).fd[v] = "closed"
  BY <1>1, WriterFacts
<1>3. Path(w).tmp = Rendered(req[w].id, req[w].row, f)
  BY <1>1, <1>a DEF Writing
<1>4. path.data = Path(w).tmp /\ \A v \in Workers : path.fd[v] = "closed"
  BY <1>a DEF RenameTmp, AfterRename, PathType
<1>5. disk'[k][f] = path /\ \A g \in Files \ {f} : disk'[k][g] = disk[k][g]
  BY <1>1, <1>a DEF PutPath, Kind
<1>6. req' = [req EXCEPT ![w] = q]
  BY <1>2, <1>a DEF Goto, TypeInv, RequestsOK
<1>7. q.pc = pc /\ q.phase = "open" /\ q.id = req[w].id /\ q.row = req[w].row
  BY <1>a DEF RequestType
<1>8. /\ pc \in {"cred", "cred2", "main", "activate"}
      /\ pc = "main" => f = "cred"
      /\ pc = "activate" => f = "main" /\ req[w].pc = "main"
      /\ pc # "activate" => req[w].pc # "main"
  BY <1>1, <1>2 DEF NextFile, FileAt, WritePcs
<1> HIDE DEF path
<1>9. Writing(q, disk'[k])
  <2>1. q.pc = "main" => disk'[k]["cred"].data = Rendered(q.id, q.row, "cred")
    BY <1>3, <1>4, <1>5, <1>7, <1>8
  <2>2. CASE q.pc = "activate"
    <3>1. disk'[k]["cred"] = disk[k]["cred"] /\ disk'[k]["main"].data = Rendered(q.id, q.row, "main")
      BY <1>3, <1>4, <1>5, <1>7, <1>8, <2>2 DEF Files
    <3>2. "cred" \in Targets(q.id, q.row) => disk[k]["cred"].data = Rendered(q.id, q.row, "cred")
      BY <1>7, <1>8, <1>a, <2>2 DEF Writing
    <3> QED BY <2>2, <3>1, <3>2 DEF Writing, WritePcs
  <2>3. CASE q.pc # "activate"
    BY <1>7, <2>1, <2>3 DEF Writing
  <2> QED BY <2>2, <2>3
<1>10. Served(q, disk'[k], active[k], rows[req[w].id])
  <2>1. rows[req[w].id] # Absent /\ Carries(req[w], rows[req[w].id])
    BY <1>1, WriterFacts
  <2>2. ~WorkedOut(q) => ~WorkedOut(req[w])
    BY <1>1, <1>7, <1>8 DEF WorkedOut, WritePcs
  <2>3. Carries(q, rows[req[w].id])
    BY <1>7, <2>1, <2>2 DEF Carries
  <2> QED BY <1>7, <1>8, <1>9, <2>1, <2>3 DEF Served
<1>11. Shape(k, f, path.data)
  BY <1>3, <1>4, <1>a, RenderedShape DEF Kind
<1>12. Fd(q, k, f) = "closed" /\ q.pc \in SwitchPcs
  BY <1>7, <1>8 DEF Fd, SwitchPcs, WritePcs
<1>13. change'[k] = "open" /\ \A j \in Kinds \ {k} : change'[j] = change[j]
  BY <1>1, <1>a DEF TypeInv, TypeOK
<1> HIDE DEF q
<1>14. path.fd[w] = Fd(q, k, f) /\ \A v \in Workers \ {w} : path.fd[v] = Path(w).fd[v]
  BY <1>4, <1>12, <1>a
<1>15. ~(q.pc \in WritePcs /\ q.phase = "write") /\ q.id = req[w].id
  BY <1>7
<1> QED BY <1>1, <1>6, <1>10, <1>11, <1>12, <1>13, <1>14, <1>15, PathStep
-----------------------------------------------------------------------------
(* Activation, the log entry and the failures. *)

\* What was written from the row read says what the row says now.
LEMMA RenderedSame ==
  ASSUME NEW p \in Providers, NEW r, NEW s, SameRow(r, s), NEW f \in Files
  PROVE  SaysSame(Rendered(p, r, f), Rendered(p, s, f)) /\ Targets(p, r) = Targets(p, s)
  BY DEF SameRow, SaysSame, Rendered, Targets

\* A switch about to activate has every file in place.
LEMMA ReadyToActivate ==
  ASSUME TypeInv, FilesInv, NEW w \in Workers, req[w].pc = "activate"
  PROVE  InPlace(disk[Kind(w)], req[w].id, rows[req[w].id]) /\ rows[req[w].id] # Absent
<1> DEFINE k == Kind(w)  id == req[w].id
<1>1. id \in Providers /\ Served(req[w], disk[k], active[k], rows[id])
  BY BusyRequest, OwnFacts
<1>2. SameRow(req[w].row, rows[id]) /\ rows[id] # Absent
  BY <1>1 DEF Served, SwitchPcs, Carries
<1>3. ASSUME NEW f \in Targets(id, rows[id])
      PROVE  SaysSame(disk[k][f].data, Rendered(id, rows[id], f))
  <2>1. f \in Targets(id, req[w].row) /\ f \in {"main", "cred"}
    BY <1>1, <1>2, <1>3, RenderedSame DEF Targets, Files
  <2>2. disk[k][f].data = Rendered(id, req[w].row, f)
    BY <1>1, <2>1 DEF Served, Writing
  <2> QED BY <1>1, <1>2, <2>1, <2>2, RenderedSame DEF Files
<1> QED BY <1>2, <1>3 DEF InPlace

LEMMA SetActiveFiles ==
  ASSUME TypeInv, FilesInv, NEW w \in Workers, NEW fk, SetActiveProvider(w, fk)
  PROVE  FilesInv'
<1> DEFINE k == Kind(w)  id == req[w].id
           q == [req[w] EXCEPT !.pc = "log", !.phase = "open"]
<1>1. /\ boot.pc = "up" /\ req[w].pc = "activate" /\ UNCHANGED <<rows, disk, boot>>
      /\ active' = [active EXCEPT ![k] = id] /\ change' = [change EXCEPT ![k] = "none"]
  BY DEF SetActiveProvider, At, Kind
<1>2. req[w].pc # "idle" /\ req[w] \in RequestType /\ id \in Providers /\ k \in Kinds
  BY <1>1, BusyRequest
<1>3. req' = [req EXCEPT ![w] = q]
  BY <1>2 DEF SetActiveProvider, Goto, TypeInv, RequestsOK
<1>4. q.pc = "log" /\ q.id = id /\ q.row = req[w].row
  BY <1>2 DEF RequestType
<1>5. req'[w] = q /\ \A v \in Workers \ {w} : req'[v] = req[v]
  BY <1>3 DEF TypeInv, RequestsOK
<1>6. /\ active'[k] = id /\ change'[k] = "none"
      /\ \A j \in Kinds \ {k} : active'[j] = active[j] /\ change'[j] = change[j]
  BY <1>1, <1>2 DEF TypeInv, TypeOK
<1> HIDE DEF q
<1>7. LocalStep(w)
  BY <1>1, <1>2, <1>4, <1>5, <1>6 DEF LocalStep
<1>8. Served(req[w], disk[k], active[k], rows[id])
  BY <1>2, OwnFacts
<1>9. Served(q, disk[k], id, rows[id])
  BY <1>1, <1>4, <1>8 DEF Served, Writing, SwitchPcs, WritePcs
<1>10. InPlace(disk[k], id, rows[id])
  BY <1>1, ReadyToActivate
<1>11. Recorded(k, id, rows[id], disk[k], "none")
  BY <1>1, <1>2, <1>8, <1>10, OwnFacts DEF Recorded, Served, SwitchPcs, Kind
<1>12. \A f \in Files : disk[k][f].fd[w] = "closed" /\ Fd(q, k, f) = "closed"
  BY <1>1, <1>2, <1>4, OwnFacts DEF Fd, WritePcs
<1>13. OwnKind(w)
  BY <1>1, <1>5, <1>6, <1>9, <1>11, <1>12 DEF OwnKind
<1> QED BY <1>7, <1>13, LocalFrame

\* At these labels no change of the kind is under way.
LEMMA NotOpen ==
  ASSUME TypeInv, FilesInv, NEW w \in Workers,
         req[w].pc \in {"log", "read", "save", "readModel", "saveModel", "delLink", "delRow"},
         req[w].pc = "save" => active[Kind(w)] # req[w].id
  PROVE  change[Kind(w)] # "open"
  BY OwnFacts DEF Changing, SwitchPcs, WritePcs

LEMMA AddSwitchLogFiles ==
  ASSUME TypeInv, FilesInv, NEW w \in Workers, AddSwitchLog(w)
  PROVE  FilesInv'
<1>1. /\ boot.pc = "up" /\ req[w].pc = "log" /\ UNCHANGED <<rows, active, disk, boot, change>>
      /\ Finish(w)
  BY DEF AddSwitchLog, At
<1> QED BY <1>1, NotOpen, FinishQuiet DEF WritePcs

LEMMA EndedOne ==
  ASSUME TypeInv, NEW k \in Kinds, NEW how \in {"cut", "missed"}, Ended({k}, how)
  PROVE  /\ \A j \in Kinds \ {k} : change'[j] = change[j]
         /\ change'[k] \in {change[k], how} /\ change'[k] # "open"
  BY DEF Ended, TypeInv, TypeOK

LEMMA RequestFailsFiles ==
  ASSUME TypeInv, FilesInv, NEW w \in Workers, RequestFails(w)
  PROVE  FilesInv'
<1>1. /\ boot.pc = "up" /\ UNCHANGED <<rows, active, disk, boot>> /\ Finish(w)
      /\ req[w].pc # "idle" /\ req[w].pc \notin WritePcs /\ CutShort({Kind(w)})
  BY DEF RequestFails, Kind, WritePcs
<1>2. Kind(w) \in Kinds
  BY <1>1, BusyRequest
<1> QED BY <1>1, <1>2, EndedOne, FinishQuiet DEF CutShort

LEMMA SwitchFailsFiles ==
  ASSUME TypeInv, FilesInv, NEW w \in Workers, NEW fk, SwitchFails(w, fk)
  PROVE  FilesInv'
<1> DEFINE k == Kind(w)
<1>1. /\ boot.pc = "up" /\ UNCHANGED <<rows, active, boot>> /\ Finish(w)
      /\ req[w].pc # "idle" /\ CutShort({k})
      /\ disk' = [j \in Kinds |-> [f \in Files |-> CloseFd(disk[j][f], w)]]
  BY DEF SwitchFails, Kind, WritePcs
<1>2. k \in Kinds /\ disk \in [Kinds -> [Files -> PathType]]
  BY <1>1, BusyRequest DEF TypeInv, TypeOK
<1>3. req'[w] = Idle /\ \A v \in Workers \ {w} : req'[v] = req[v]
  BY <1>1 DEF Finish, TypeInv, RequestsOK
<1>4. ASSUME NEW j \in Kinds, NEW f \in Files
      PROVE  /\ disk'[j][f].data = disk[j][f].data /\ disk'[j][f].fd[w] = "closed"
             /\ \A v \in Workers \ {w} : disk'[j][f].fd[v] = disk[j][f].fd[v]
  BY <1>1, <1>2 DEF CloseFd, PathType
<1>5. ASSUME NEW j \in Kinds \ {k} PROVE disk'[j] = disk[j]
  <2>1. ASSUME NEW f \in Files PROVE CloseFd(disk[j][f], w) = disk[j][f]
    <3>1. disk[j][f].fd[w] = "closed"
      BY <1>5 DEF FilesInv, Descriptors, Fd, Kind
    <3> QED BY <1>2, <3>1 DEF CloseFd, PathType
  <2> QED BY <1>1, <1>2, <2>1
<1>6. /\ \A j \in Kinds \ {k} : change'[j] = change[j]
      /\ change'[k] \in {change[k], "cut"} /\ change'[k] # "open"
  BY <1>1, <1>2, EndedOne DEF CutShort
<1>7. LocalStep(w)
  BY <1>1, <1>3, <1>5, <1>6 DEF LocalStep
<1>8. Recorded(k, active[k], rows[active[k]], disk[k], change[k])
  BY <1>1, OwnFacts
<1>9. active[k] # None /\ change'[k] = "none" => InPlace(disk'[k], active[k], rows[active[k]])
  <2> SUFFICES ASSUME active[k] # None, change'[k] = "none"
               PROVE  InPlace(disk'[k], active[k], rows[active[k]])
    OBVIOUS
  <2>1. active[k] \in Providers
    BY <1>2 DEF TypeInv, TypeOK
  <2>2. InPlace(disk[k], active[k], rows[active[k]])
    BY <1>6, <1>8 DEF Recorded
  <2>3. \A f \in Files : disk'[k][f].data = disk[k][f].data
    BY <1>2, <1>4
  <2> QED BY <2>1, <2>2, <2>3, InPlaceData
<1>10. Recorded(k, active[k], rows[active[k]], disk'[k], change'[k])
  BY <1>2, <1>4, <1>8, <1>9 DEF Recorded
<1>11. Idle.pc = "idle"
  BY DEF Idle
<1>12. OwnKind(w)
  BY <1>1, <1>2, <1>3, <1>4, <1>6, <1>10, <1>11, IdleFd DEF OwnKind
<1> QED BY <1>7, <1>12, LocalFrame

LEMMA SwitchStepFiles ==
  ASSUME TypeInv, FilesInv, NEW w \in Workers, SwitchStep(w)
  PROVE  FilesInv'
  BY GetProviderFiles, BackupFiles, PrepareFiles, CheckLoginFiles, OpenFileFiles, WriteFileFiles,
     RenameFileFiles, SetActiveFiles, AddSwitchLogFiles, SwitchFailsFiles, RequestFailsFiles
  DEF SwitchStep

-----------------------------------------------------------------------------
(* Edits and deletions. *)

\* The read that an edit, or a probe that saves a model, begins with.
LEMMA ReadFiles ==
  ASSUME TypeInv, FilesInv, NEW w \in Workers, UpdateRead(w) \/ ProbeReadModel(w)
  PROVE  FilesInv'
<1> DEFINE next == IF req[w].pc = "read" THEN "save" ELSE "saveModel"
<1>1. /\ boot.pc = "up" /\ req[w].pc \in {"read", "readModel"}
      /\ UNCHANGED <<rows, active, disk, boot, change>>
      /\ req' = IF Exists(req[w].id)
                THEN [req EXCEPT ![w].pc = next, ![w].row = rows[req[w].id]]
                ELSE [req EXCEPT ![w] = Idle]
  BY DEF UpdateRead, ProbeReadModel, Finish, At
<1>2. req[w] \in RequestType /\ req[w].id \in Providers /\ change[Kind(w)] # "open"
  BY <1>1, BusyRequest, NotOpen
<1>3. CASE Exists(req[w].id)
  <2> DEFINE q == [req[w] EXCEPT !.pc = next, !.row = rows[req[w].id]]
  <2>1. req' = [req EXCEPT ![w] = q]
    BY <1>1, <1>2, <1>3 DEF TypeInv, RequestsOK
  <2>2. q.pc \in {"save", "saveModel"} /\ q.id = req[w].id
    BY <1>2 DEF RequestType
  <2>4. Served(q, disk[Kind(w)], active[Kind(w)], rows[req[w].id])
    BY <2>2 DEF Served, Writing, WritePcs, SwitchPcs
  <2> HIDE DEF q
  <2> QED BY <1>1, <1>2, <2>1, <2>2, <2>4, QuietStep DEF WritePcs
<1>4. CASE ~Exists(req[w].id)
  BY <1>1, <1>2, <1>4, FinishQuiet DEF Finish, WritePcs
<1> QED BY <1>3, <1>4

LEMMA HotReloadFiles ==
  ASSUME TypeInv, FilesInv, NEW w \in Workers, HotReload(w)
  PROVE  FilesInv'
<1>1. /\ boot.pc = "up" /\ req[w].pc = "reload" /\ UNCHANGED <<rows, active, disk, boot, change>>
  BY DEF HotReload, At
<1>2. req[w] \in RequestType /\ req[w].id \in Providers
  BY <1>1, BusyRequest
<1>3. CASE active[Kind(w)] = req[w].id
  <2> DEFINE q == [req[w] EXCEPT !.pc = "get", !.phase = "open"]
  <2>1. req' = [req EXCEPT ![w] = q]
    BY <1>2, <1>3 DEF HotReload, Goto, Kind, TypeInv, RequestsOK
  <2>2. q.pc = "get" /\ q.id = req[w].id
    BY <1>2 DEF RequestType
  <2>3. Served(q, disk[Kind(w)], active[Kind(w)], rows[req[w].id])
    BY <2>2 DEF Served, Writing, WritePcs, SwitchPcs
  <2>4. Changing(q, active[Kind(w)])
    BY <1>3, <2>2 DEF Changing
  <2> HIDE DEF q
  <2> QED BY <1>1, <2>1, <2>2, <2>3, <2>4, QuietStep DEF WritePcs
<1>4. CASE active[Kind(w)] # req[w].id
  <2>1. change[Kind(w)] # "open"
    BY <1>1, <1>4, OwnFacts DEF Changing, SwitchPcs, WritePcs
  <2>2. Finish(w)
    BY <1>4 DEF HotReload, Kind
  <2> QED BY <1>1, <2>1, <2>2, FinishQuiet DEF WritePcs
<1> QED BY <1>3, <1>4

\* A step that writes rows or active providers of its own kind, no files.
LEMMA TableStep ==
  ASSUME TypeInv, FilesInv, NEW w \in Workers, NEW q, boot.pc = "up", req[w].pc # "idle",
         UNCHANGED <<disk, boot>>, req' = [req EXCEPT ![w] = q],
         q = Idle \/ q.id = req[w].id,
         req[w].pc \notin WritePcs, q.pc \notin WritePcs,
         \A p \in Providers \ {req[w].id} : rows'[p] = rows[p],
         \A k \in Kinds \ {Kind(w)} : active'[k] = active[k] /\ change'[k] = change[k],
         q.pc # "idle" => Served(q, disk[Kind(w)], active'[Kind(w)], rows'[req[w].id]),
         Recorded(Kind(w), active'[Kind(w)], rows'[active'[Kind(w)]], disk[Kind(w)], change'[Kind(w)]),
         change'[Kind(w)] = "open" => q.pc # "idle" /\ Changing(q, active'[Kind(w)])
  PROVE  FilesInv'
<1>1. req'[w] = q /\ \A v \in Workers \ {w} : req'[v] = req[v]
  BY DEF TypeInv, RequestsOK
<1>2. LocalStep(w)
  BY <1>1 DEF LocalStep, Kind
<1>3. \A f \in Files : disk[Kind(w)][f].fd[w] = "closed" /\ Fd(q, Kind(w), f) = "closed"
  BY OwnFacts DEF Fd
<1>4. OwnKind(w)
  BY <1>1, <1>3 DEF OwnKind
<1> QED BY <1>2, <1>4, LocalFrame

LEMMA UpdateSaveFiles ==
  ASSUME TypeInv, FilesInv, NEW w \in Workers, UpdateSave(w)
  PROVE  FilesInv'
<1> DEFINE k == Kind(w)  id == req[w].id
           q == [req[w] EXCEPT !.pc = "reload", !.row = Absent]
<1>1. /\ boot.pc = "up" /\ req[w].pc = "save" /\ UNCHANGED <<active, disk, boot>>
      /\ change' = IF active[k] = id THEN [change EXCEPT ![k] = "open"] ELSE change
  BY DEF UpdateSave, At, Kind
<1>2. /\ req[w] \in RequestType /\ id \in Providers /\ k \in Kinds /\ req[w].row \in Row
  BY <1>1, BusyRequest DEF TypeInv, RequestsOK, RowPcs
<1>3. PICK r \in FormRows(req[w].row) : rows' = Updated(id, r)
  BY DEF UpdateSave
<1>4. r \in Row /\ r # Absent
  BY <1>2, <1>3, RowExists DEF FormRows, Row
<1>5. req' = [req EXCEPT ![w] = q]
  BY <1>2 DEF UpdateSave, TypeInv, RequestsOK
<1>6. q.pc = "reload" /\ q.id = id
  BY <1>2 DEF RequestType
<1>7. /\ \A p \in Providers \ {id} : rows'[p] = rows[p]
      /\ rows'[id] = IF Exists(id) THEN r ELSE Absent
  BY <1>2, <1>3 DEF Updated, Exists, TypeInv, TypeOK
<1>8. Served(q, disk[k], active[k], rows'[id])
  BY <1>6 DEF Served, Writing, WritePcs, SwitchPcs
<1>9. Recorded(k, active[k], rows[active[k]], disk[k], change[k])
  BY <1>1, OwnFacts
<1>10. active[k] # None => active[k] \in Providers
  BY <1>2 DEF TypeInv, TypeOK
<1>11. /\ active[k] = id => change'[k] = "open"
       /\ active[k] # id => change'[k] = change[k] /\ change[k] # "open"
       /\ \A j \in Kinds \ {k} : change'[j] = change[j]
  BY <1>1, <1>2, NotOpen DEF TypeInv, TypeOK
<1>12. Recorded(k, active[k], rows'[active[k]], disk[k], change'[k])
  BY <1>4, <1>7, <1>9, <1>10, <1>11 DEF Recorded, Exists
<1>13. change'[k] = "open" => Changing(q, active[k])
  BY <1>6, <1>11 DEF Changing
<1> HIDE DEF q
<1> QED BY <1>1, <1>4, <1>5, <1>6, <1>7, <1>8, <1>11, <1>12, <1>13, TableStep DEF WritePcs

LEMMA DeleteLinkFiles ==
  ASSUME TypeInv, FilesInv, NEW w \in Workers, DeleteLink(w)
  PROVE  FilesInv'
<1> DEFINE k == Kind(w)  id == req[w].id
           q == [req[w] EXCEPT !.pc = "delRow", !.phase = "open"]
<1>1. /\ boot.pc = "up" /\ req[w].pc = "delLink" /\ UNCHANGED <<rows, disk, boot, change>>
      /\ active' = [j \in Kinds |-> IF active[j] = id THEN None ELSE active[j]]
  BY DEF DeleteLink, At
<1>2. /\ req[w] \in RequestType /\ id \in Providers /\ k \in Kinds /\ id # None
      /\ change[k] # "open"
  BY <1>1, BusyRequest, NotOpen, NoneIsNothing
<1>3. req' = [req EXCEPT ![w] = q]
  BY <1>2 DEF DeleteLink, Goto, TypeInv, RequestsOK
<1>4. q.pc = "delRow" /\ q.id = id
  BY <1>2 DEF RequestType
<1>5. ASSUME NEW j \in Kinds \ {k} PROVE active'[j] = active[j]
  <2>1. active[j] # id
    BY <1>2, <1>5 DEF FilesInv, RecordedInv, Recorded, Kind
  <2> QED BY <1>1, <2>1
<1>6. active'[k] # id /\ (active'[k] # None => active'[k] = active[k])
  BY <1>1, <1>2
<1>7. Recorded(k, active'[k], rows[active'[k]], disk[k], change[k])
  <2>1. Recorded(k, active[k], rows[active[k]], disk[k], change[k])
    BY <1>1, OwnFacts
  <2> QED BY <1>6, <2>1 DEF Recorded
<1>8. Served(q, disk[k], active'[k], rows[id])
  BY <1>4, <1>6 DEF Served, Writing, WritePcs, SwitchPcs
<1> HIDE DEF q
<1> QED BY <1>1, <1>2, <1>3, <1>4, <1>5, <1>7, <1>8, TableStep DEF WritePcs

LEMMA DeleteRowFiles ==
  ASSUME TypeInv, FilesInv, NEW w \in Workers, NEW fk, DeleteRow(w, fk)
  PROVE  FilesInv'
<1> DEFINE k == Kind(w)  id == req[w].id  q == Idle
<1>1. /\ boot.pc = "up" /\ req[w].pc = "delRow" /\ UNCHANGED <<disk, boot, change>>
      /\ rows' = [rows EXCEPT ![id] = Absent] /\ active' = CascadeActive(id, fk)
      /\ req' = [req EXCEPT ![w] = q]
  BY DEF DeleteRow, At, Finish
<1>2. id \in Providers /\ k \in Kinds /\ id # None /\ change[k] # "open" /\ active[k] # id
  BY <1>1, BusyRequest, NotOpen, NoneIsNothing, OwnFacts DEF Served
<1>3. q = Idle /\ q.pc = "idle"
  BY DEF Idle
<1>4. ASSUME NEW j \in Kinds PROVE active'[j] = active[j]
  <2>1. active[j] # id
    BY <1>2 DEF FilesInv, RecordedInv, Recorded, Kind
  <2> QED BY <1>1, <2>1 DEF CascadeActive
<1>5. rows'[id] = Absent /\ \A p \in Providers \ {id} : rows'[p] = rows[p]
  BY <1>1, <1>2 DEF TypeInv, TypeOK
<1>6. active[k] # None => rows'[active[k]] = rows[active[k]]
  BY <1>2, <1>5 DEF TypeInv, TypeOK
<1>7. Recorded(k, active[k], rows[active[k]], disk[k], change[k])
  BY <1>1, OwnFacts
<1>8. Recorded(k, active'[k], rows'[active'[k]], disk[k], change[k])
  BY <1>2, <1>4, <1>6, <1>7 DEF Recorded
<1> HIDE DEF q
<1> QED BY <1>1, <1>2, <1>3, <1>4, <1>5, <1>8, TableStep DEF WritePcs

\* The one request that may leave the row of the active provider and the files apart and
\* report success: the change counts as missed.
LEMMA ProbeSaveFiles ==
  ASSUME TypeInv, FilesInv, NEW w \in Workers, ProbeSaveModel(w)
  PROVE  FilesInv'
<1> DEFINE k == Kind(w)  id == req[w].id  q == Idle
<1>1. /\ boot.pc = "up" /\ req[w].pc = "saveModel" /\ UNCHANGED <<active, disk, boot>>
      /\ change' = IF active[k] = id THEN [change EXCEPT ![k] = "missed"] ELSE change
      /\ req' = [req EXCEPT ![w] = q]
  BY DEF ProbeSaveModel, Finish, At, Kind
<1>2. id \in Providers /\ k \in Kinds /\ req[w].row \in Row /\ change[k] # "open"
  BY <1>1, BusyRequest, NotOpen DEF TypeInv, RequestsOK, RowPcs
<1>3. PICK m \in Models : rows' = Updated(id, WithModel(req[w].row, m))
  BY DEF ProbeSaveModel
<1>4. WithModel(req[w].row, m) \in Row /\ WithModel(req[w].row, m) # Absent
  BY <1>2, WithModelRow, RowExists
<1>5. q = Idle /\ q.pc = "idle"
  BY DEF Idle
<1>6. /\ \A p \in Providers \ {id} : rows'[p] = rows[p]
      /\ rows[id] # Absent => rows'[id] # Absent
  BY <1>2, <1>3, <1>4 DEF Updated, Exists, TypeInv, TypeOK
<1>7. /\ active[k] = id => change'[k] = "missed"
      /\ active[k] # id => change'[k] = change[k]
      /\ \A j \in Kinds \ {k} : change'[j] = change[j]
  BY <1>1, <1>2 DEF TypeInv, TypeOK
<1>8. Recorded(k, active[k], rows[active[k]], disk[k], change[k])
  BY <1>1, OwnFacts
<1>9. active[k] # None => active[k] \in Providers
  BY <1>2 DEF TypeInv, TypeOK
<1>10. Recorded(k, active[k], rows'[active[k]], disk[k], change'[k])
  BY <1>6, <1>7, <1>8, <1>9 DEF Recorded
<1> HIDE DEF q
<1> QED BY <1>1, <1>2, <1>5, <1>6, <1>7, <1>10, TableStep DEF WritePcs

LEMMA ReloadMissedFiles ==
  ASSUME TypeInv, FilesInv, NEW w \in Workers, ReloadMissed(w)
  PROVE  FilesInv'
<1>1. /\ boot.pc = "up" /\ UNCHANGED <<rows, active, disk, boot>> /\ Finish(w)
      /\ req[w].pc = "reload" /\ Ended({Kind(w)}, "missed")
  BY DEF ReloadMissed, Kind, At
<1>2. Kind(w) \in Kinds
  BY <1>1, BusyRequest
<1> QED BY <1>1, <1>2, EndedOne, FinishQuiet DEF WritePcs

LEMMA EditStepFiles ==
  ASSUME TypeInv, FilesInv, NEW w \in Workers, EditStep(w)
  PROVE  FilesInv'
  BY ReadFiles, UpdateSaveFiles, HotReloadFiles, ReloadMissedFiles, ProbeSaveFiles,
     DeleteLinkFiles, DeleteRowFiles DEF EditStep
-----------------------------------------------------------------------------
(* Requests arriving, the start-up and the crash. *)

LEMMA ReceiveFiles ==
  ASSUME Overlap = FALSE, TypeInv, FilesInv, NEW w \in Workers, NEW op, NEW p \in Providers,
         NEW pc \in {"get", "read", "readModel", "delLink"}, Receive(w, op, p, pc)
  PROVE  FilesInv'
<1> DEFINE q == [Idle EXCEPT !.pc = pc, !.id = p]
<1>1. /\ boot.pc = "up" /\ req[w] = Idle /\ UNCHANGED <<rows, active, disk, boot, change>>
      /\ req' = [req EXCEPT ![w] = q]
      /\ \A v \in Workers : req[v].pc # "idle" => Kind(v) # KindOf[p]
  BY DEF Receive, Kind
<1>2. q.pc = pc /\ q.id = p /\ Idle.pc = "idle"
  BY DEF Idle
<1>3. req'[w] = q /\ \A v \in Workers \ {w} : req'[v] = req[v]
  BY <1>1 DEF TypeInv, RequestsOK
<1> HIDE DEF q
<1>4. Exclusive'
  BY <1>1, <1>2, <1>3 DEF FilesInv, Exclusive, Kind
<1>5. RecordedInv' /\ Marked'
  BY <1>1 DEF FilesInv, RecordedInv, Marked, Exists
<1>6. \A d, a, r : Served(q, d, a, r)
  BY <1>2 DEF Served, Writing, WritePcs, SwitchPcs
<1>7. ServedInv'
  BY <1>1, <1>3, <1>6 DEF FilesInv, ServedInv, Kind
<1>8. \A k, f : Fd(q, k, f) = "closed"
  BY <1>2 DEF Fd, WritePcs
<1>9. Descriptors'
  BY <1>1, <1>3, <1>8, IdleFd DEF FilesInv, Descriptors
<1>10. ChangesOwned'
  BY <1>1, <1>2, <1>3 DEF FilesInv, ChangesOwned, Kind
<1> QED BY <1>4, <1>5, <1>7, <1>9, <1>10 DEF FilesInv

LEMMA CreateFiles ==
  ASSUME TypeInv, FilesInv, NEW p \in Providers, CreateProvider(p)
  PROVE  FilesInv'
<1>1. /\ boot.pc = "up" /\ Free(p) /\ UNCHANGED <<active, disk, req, boot, change>>
  BY DEF CreateProvider
<1>2. PICK source \in Offered, c \in Conns, m \in Models :
        rows' = [rows EXCEPT ![p] = NewRow(source, c, m)]
  BY DEF CreateProvider
<1>4. rows'[p] = NewRow(source, c, m) /\ \A q \in Providers \ {p} : rows'[q] = rows[q]
  BY <1>2 DEF TypeInv, TypeOK
<1>6. ServedInv'
  <2> SUFFICES ASSUME NEW w \in Workers, req[w].pc # "idle"
               PROVE  Served(req[w], disk[Kind(w)], active[Kind(w)], rows'[req[w].id])
    BY <1>1 DEF ServedInv, Kind
  <2>1. req[w].id \in Providers \ {p}
    BY <1>1, BusyRequest DEF Free
  <2> QED BY <1>4, <2>1 DEF FilesInv, ServedInv
<1>7. RecordedInv'
  <2> SUFFICES ASSUME NEW k \in Kinds
               PROVE  Recorded(k, active[k], rows'[active[k]], disk[k], change[k])
    BY <1>1 DEF RecordedInv
  <2>1. active[k] # None => active[k] \in Providers \ {p}
    BY <1>1 DEF Free, TypeInv, TypeOK
  <2>2. active[k] # None => rows'[active[k]] = rows[active[k]]
    BY <1>4, <2>1
  <2> QED BY <2>2 DEF FilesInv, RecordedInv, Recorded
<1>8. Exclusive' /\ Descriptors' /\ ChangesOwned' /\ Marked'
  BY <1>1 DEF FilesInv, Exclusive, Descriptors, ChangesOwned, Marked, Kind
<1> QED BY <1>6, <1>7, <1>8 DEF FilesInv

\* A step that changes neither requests nor tables nor files.
LEMMA StillFiles ==
  ASSUME FilesInv, UNCHANGED <<rows, active, disk, req, change>>,
         boot'.pc # "mark" \/ boot' = boot, boot'.pc # "up" => boot.pc # "up" \/ boot' = boot
  PROVE  FilesInv'
  BY DEF FilesInv, Exclusive, ServedInv, Descriptors, RecordedInv, ChangesOwned,
         Marked, Kind, Exists

LEMMA ClientsFiles ==
  ASSUME Overlap = FALSE, TypeInv, FilesInv, Clients
  PROVE  FilesInv'
<1>1. ASSUME NEW p \in Providers, LoginCompletes(p)
      PROVE  FilesInv'
  BY <1>1, StillFiles DEF LoginCompletes
<1> QED BY <1>1, CreateFiles, ReceiveFiles
        DEF Clients, ReceiveSwitch, ReceiveUpdate, ReceiveModel, ReceiveDelete

LEMMA ImportSaveFiles ==
  ASSUME TypeInv, FilesInv, NEW p \in Providers, ImportSave(p)
  PROVE  FilesInv'
<1> DEFINE k == boot.kind  r == ImportedRow(k)
<1>1. /\ boot.pc = "scan" /\ Importable(k) /\ KindOf[p] = k /\ Free(p)
      /\ rows' = [rows EXCEPT ![p] = r]
      /\ boot' = [boot EXCEPT !.pc = "mark", !.id = p]
      /\ UNCHANGED <<active, disk, req, change>>
  BY DEF ImportSave
<1>2. k \in Kinds /\ \A w \in Workers : req[w] = Idle
  BY <1>1 DEF FilesInv, Exclusive, TypeInv, TypeOK
<1>3. rows'[p] = r /\ \A q \in Providers \ {p} : rows'[q] = rows[q]
  BY <1>1 DEF TypeInv, TypeOK
<1>4. boot'.pc = "mark" /\ boot'.kind = k /\ boot'.id = p
  BY <1>1 DEF TypeInv, TypeOK
<1>5. \A f \in Files : Shape(k, f, disk[k][f].data)
  BY <1>2 DEF FilesInv, RecordedInv, Recorded
<1>6. r \in Row
  BY <1>2 DEF ImportedRow, Row, Sources, TypeInv, TypeOK, PathType, Content, Files
<1>7. r # Absent
  BY <1>6, RowExists
<1>8. InPlace(disk[k], p, r)
  <2> SUFFICES ASSUME NEW f \in Targets(p, r)
               PROVE  SaysSame(disk[k][f].data, Rendered(p, r, f))
    BY DEF InPlace
  <2>1. r.source = "gateway"
    BY DEF ImportedRow
  <2>2. CASE f = "main"
    BY <1>1, <1>2, <1>5, <2>1, <2>2
       DEF SaysSame, Rendered, ImportedRow, Importable, Shape, Files, Kinds
  <2>3. CASE f = "cred" /\ k = "codex"
    BY <1>1, <1>5, <2>1, <2>3
       DEF SaysSame, Rendered, ImportedRow, Importable, Shape, Files
  <2> QED BY <1>1, <1>2, <2>1, <2>2, <2>3 DEF Targets, Kinds
<1>10. RecordedInv'
  <2> SUFFICES ASSUME NEW j \in Kinds
               PROVE  Recorded(j, active[j], rows'[active[j]], disk[j], change[j])
    BY <1>1 DEF RecordedInv
  <2>1. active[j] # None => active[j] \in Providers \ {p}
    BY <1>1 DEF Free, TypeInv, TypeOK
  <2>2. active[j] # None => rows'[active[j]] = rows[active[j]]
    BY <1>3, <2>1
  <2> QED BY <2>2 DEF FilesInv, RecordedInv, Recorded
<1>11. Marked'
  BY <1>1, <1>3, <1>4, <1>7, <1>8 DEF Marked, Exists
<1>12. Idle.pc = "idle"
  BY DEF Idle
<1>13. Exclusive' /\ ServedInv' /\ Descriptors' /\ ChangesOwned'
  BY <1>1, <1>2, <1>12 DEF FilesInv, Exclusive, ServedInv, Descriptors, ChangesOwned, Kind
<1> QED BY <1>10, <1>11, <1>13 DEF FilesInv

LEMMA ImportSetActiveFiles ==
  ASSUME TypeInv, FilesInv, ImportSetActive
  PROVE  FilesInv'
<1> DEFINE k == boot.kind  id == boot.id
<1>1. /\ boot.pc = "mark" /\ active' = [active EXCEPT ![k] = id]
      /\ change' = [change EXCEPT ![k] = "none"] /\ boot' = AfterImport(k)
      /\ UNCHANGED <<rows, disk, req>>
  BY DEF ImportSetActive
<1>2. /\ k \in Kinds /\ id \in Providers /\ KindOf[id] = k /\ rows[id] # Absent
      /\ InPlace(disk[k], id, rows[id]) /\ \A w \in Workers : req[w] = Idle
  BY <1>1 DEF FilesInv, Marked, Exists, Exclusive, TypeInv, TypeOK, BootOK
<1>3. /\ active'[k] = id /\ change'[k] = "none"
      /\ \A j \in Kinds \ {k} : active'[j] = active[j] /\ change'[j] = change[j]
  BY <1>1, <1>2 DEF TypeInv, TypeOK
<1>4. boot'.pc # "mark"
  BY <1>1 DEF AfterImport
<1>5. RecordedInv'
  <2> SUFFICES ASSUME NEW j \in Kinds
               PROVE  Recorded(j, active'[j], rows[active'[j]], disk[j], change'[j])
    BY <1>1 DEF RecordedInv
  <2>1. Recorded(j, active[j], rows[active[j]], disk[j], change[j])
    BY DEF FilesInv, RecordedInv
  <2> QED BY <1>2, <1>3, <2>1 DEF Recorded
<1>6. Idle.pc = "idle"
  BY DEF Idle
<1>7. ChangesOwned'
  <2> SUFFICES ASSUME NEW j \in Kinds PROVE change'[j] # "open"
    BY DEF ChangesOwned
  <2>1. change[j] # "open"
    BY <1>2, <1>6 DEF FilesInv, ChangesOwned
  <2> QED BY <1>3, <2>1
<1>8. Exclusive' /\ ServedInv' /\ Descriptors' /\ Marked'
  BY <1>1, <1>2, <1>4, <1>6
     DEF FilesInv, Exclusive, ServedInv, Descriptors, Marked, Kind, Exists
<1> QED BY <1>5, <1>7, <1>8 DEF FilesInv

LEMMA BootStepFiles ==
  ASSUME TypeInv, FilesInv, BootStep
  PROVE  FilesInv'
<1>1. CASE Start \/ ImportSkips \/ ImportRefused
  <2>1. /\ UNCHANGED <<rows, active, disk, req, change>> /\ boot'.pc # "mark"
        /\ boot.pc # "up"
    BY <1>1 DEF Start, ImportSkips, ImportRefused, AfterImport, TypeInv, TypeOK
  <2> QED BY <2>1, StillFiles
<1> QED BY <1>1, ImportSaveFiles, ImportSetActiveFiles DEF BootStep

LEMMA CrashFiles ==
  ASSUME TypeInv, FilesInv, Crash
  PROVE  FilesInv'
<1>1. /\ boot'.pc = "down" /\ req' = [w \in Workers |-> Idle] /\ UNCHANGED <<rows, active>>
      /\ disk' = [k \in Kinds |-> [f \in Files |->
           [disk[k][f] EXCEPT !.fd = [w \in Workers |-> "closed"]]]]
      /\ change' = [k \in Kinds |-> IF change[k] = "open" THEN "cut" ELSE change[k]]
  BY DEF Crash, CutShort, Ended
<1>2. disk \in [Kinds -> [Files -> PathType]] /\ Idle.pc = "idle"
  BY DEF TypeInv, TypeOK, Idle
<1>3. \A k \in Kinds, f \in Files :
        /\ disk'[k][f].data = disk[k][f].data
        /\ \A w \in Workers : disk'[k][f].fd[w] = "closed"
  <2> DEFINE shut(path) == [path EXCEPT !.fd = [w \in Workers |-> "closed"]]
  <2>1. \A path \in PathType : shut(path).data = path.data
                               /\ \A w \in Workers : shut(path).fd[w] = "closed"
    BY DEF PathType
  <2>2. \A k \in Kinds, f \in Files : disk'[k][f] = shut(disk[k][f]) /\ disk[k][f] \in PathType
    BY <1>1, <1>2
  <2> HIDE DEF shut
  <2> QED BY <2>1, <2>2
<1>4. RecordedInv'
  <2> SUFFICES ASSUME NEW k \in Kinds
               PROVE  Recorded(k, active[k], rows[active[k]], disk'[k], change'[k])
    BY <1>1 DEF RecordedInv
  <2>1. Recorded(k, active[k], rows[active[k]], disk[k], change[k])
    BY DEF FilesInv, RecordedInv
  <2>2. change'[k] = "none" => change[k] = "none"
    BY <1>1
  <2>3. ASSUME active[k] # None, change'[k] = "none"
        PROVE  InPlace(disk'[k], active[k], rows[active[k]])
    <3>1. active[k] \in Providers
      BY <2>3 DEF TypeInv, TypeOK
    <3>2. InPlace(disk[k], active[k], rows[active[k]])
      BY <2>1, <2>2, <2>3 DEF Recorded
    <3>3. \A f \in Files : disk'[k][f].data = disk[k][f].data
      BY <1>3
    <3> QED BY <3>1, <3>2, <3>3, InPlaceData
  <2>4. \A f \in Files : Shape(k, f, disk'[k][f].data)
    BY <1>3, <2>1 DEF Recorded
  <2> QED BY <2>1, <2>3, <2>4 DEF Recorded
<1>5. Descriptors'
  <2> SUFFICES ASSUME NEW w \in Workers, NEW k \in Kinds, NEW f \in Files
               PROVE  disk'[k][f].fd[w] = Fd(req'[w], k, f)
    BY DEF Descriptors
  <2>1. req'[w] = Idle
    BY <1>1
  <2> QED BY <1>3, <2>1, IdleFd
<1>6. Exclusive' /\ ServedInv' /\ ChangesOwned' /\ Marked'
  BY <1>1, <1>2 DEF FilesInv, Exclusive, ServedInv, ChangesOwned, Marked, Exists
<1> QED BY <1>4, <1>5, <1>6 DEF FilesInv
-----------------------------------------------------------------------------
LEMMA InitFiles == Init => FilesInv
<1> SUFFICES ASSUME Init PROVE FilesInv
  OBVIOUS
<1>1. Idle.pc = "idle"
  BY DEF Idle
<1>2. PICK given \in [Kinds -> Found], c \in Conns, m \in Models \cup {None} :
        disk = [k \in Kinds |-> [f \in Files |->
          [data |-> GivenFile(given[k], k, f, c, m),
           tmp  |-> NoFile,
           fd   |-> [w \in Workers |-> "closed"]]]]
  BY DEF Init
<1>3. ASSUME NEW k \in Kinds, NEW f \in Files
      PROVE  Shape(k, f, GivenFile(given[k], k, f, c, m))
  <2>1. CASE given[k] = "gateway" /\ f = "main"
    BY <2>1 DEF GivenFile, Shape
  <2>2. CASE given[k] = "gateway" /\ f = "cred" /\ k = "codex"
    BY <2>2 DEF GivenFile, Shape
  <2>3. CASE given[k] = "official" /\ f # "aux"
    BY <2>3 DEF GivenFile, Shape, Unwritten
  <2>4. CASE /\ ~(given[k] = "gateway" /\ f = "main")
             /\ ~(given[k] = "gateway" /\ f = "cred" /\ k = "codex")
             /\ ~(given[k] = "official" /\ f # "aux")
    BY <2>4 DEF GivenFile, Shape, NoFile, Unwritten
  <2> QED BY <2>1, <2>2, <2>3, <2>4
<1>4. RecordedInv
  BY <1>2, <1>3 DEF Init, RecordedInv, Recorded
<1>5. Descriptors
  BY <1>2, IdleFd DEF Init, Descriptors
<1>6. Exclusive /\ ServedInv /\ ChangesOwned /\ Marked
  BY <1>1 DEF Init, Exclusive, Exists, ServedInv, ChangesOwned, Marked
<1> QED BY <1>4, <1>5, <1>6 DEF FilesInv

LEMMA NextFiles ==
  ASSUME Overlap = FALSE
  PROVE  TypeInv /\ FilesInv /\ [Next]_vars => FilesInv'
<1> SUFFICES ASSUME TypeInv, FilesInv, [Next]_vars PROVE FilesInv'
  OBVIOUS
<1>1. CASE UNCHANGED vars
  BY <1>1, StillFiles DEF vars
<1>2. CASE Next
  BY <1>2, SwitchStepFiles, EditStepFiles, ClientsFiles, BootStepFiles, CrashFiles DEF Next, Serve
<1> QED BY <1>1, <1>2

\* A request that ended without a failure has left no change under way, so what
\* is settled is recorded.
LEMMA FilesInvApplied == TypeInv /\ FilesInv => AppliedMatchesActive
<1> SUFFICES ASSUME TypeInv, FilesInv, NEW k \in Kinds, Settled(k), active[k] # None
             PROVE  Applied(k, active[k], rows[active[k]])
  BY DEF AppliedMatchesActive
<1>1. change[k] = "none"
  BY DEF Settled, Busy, FilesInv, ChangesOwned, Kind
<1>2. InPlace(disk[k], active[k], rows[active[k]])
  BY <1>1 DEF FilesInv, RecordedInv, Recorded
<1> QED BY <1>2 DEF InPlace, Applied

\* When two requests on one kind never overlap, the tool's files agree with the
\* provider shown as active after every sequence of switches, edits with hot
\* reload, deletions, failures, crashes and imports (manager.go:71, server.go:356),
\* for any number of providers and requests, any models, blank ones among them, and
\* whether or not foreign keys are enforced; after a change that was answered as
\* done and not reloaded nothing is said.
THEOREM FilesFollowDatabase ==
  ASSUME Overlap = FALSE
  PROVE  Spec => []AppliedMatchesActive
<1>1. TypeInv /\ FilesInv /\ [Next]_vars => FilesInv'
  BY NextFiles
<1> QED BY <1>1, InitFiles, InitTypeInv, NextTypeInv, FilesInvApplied, PTL DEF Spec
\* Under the same assumptions no failure or crash inside writeAtomic
\* (manager.go:1551) ever shows a reader a truncated or a mixed file.
THEOREM FilesWhole ==
  ASSUME Overlap = FALSE
  PROVE  Spec => []PublishedWhole
<1>1. TypeInv /\ FilesInv /\ [Next]_vars => FilesInv'
  BY NextFiles
<1>2. FilesInv => PublishedWhole
  BY DEF FilesInv, RecordedInv, Recorded, Shape, PublishedWhole
<1> QED BY <1>1, <1>2, InitFiles, InitTypeInv, NextTypeInv, PTL DEF Spec
\* What a step may never do: show a provider as active before its files are in
\* place (manager.go:83 precedes manager.go:98).
THEOREM ActivationComesLast ==
  ASSUME Overlap = FALSE
  PROVE  Spec => ActivationFollowsFiles
<1> DEFINE A == \A k \in Kinds :
                  active'[k] \notin {active[k], None} =>
                    Applied(k, active'[k], rows[active'[k]]) /\ disk' = disk
<1>1. TypeInv /\ FilesInv /\ [Next]_vars => FilesInv'
  BY NextFiles
<1>2. TypeInv /\ FilesInv /\ [Next]_vars => [A]_vars
  <2> SUFFICES ASSUME TypeInv, FilesInv, Next, NEW k \in Kinds,
                      active'[k] \notin {active[k], None}
               PROVE  InPlace(disk[k], active'[k], rows[active'[k]]) /\ disk' = disk
    BY DEF InPlace, Applied
  <2>1. ASSUME NEW w \in Workers, NEW fk, SetActiveProvider(w, fk)
        PROVE  InPlace(disk[k], active'[k], rows[active'[k]]) /\ disk' = disk
    <3>1. req[w].pc = "activate" /\ active' = [active EXCEPT ![Kind(w)] = req[w].id]
      BY <2>1 DEF SetActiveProvider, At, Kind
    <3>2. k = Kind(w) /\ active'[k] = req[w].id
      BY <3>1 DEF TypeInv, TypeOK
    <3> QED BY <2>1, <3>1, <3>2, ReadyToActivate DEF SetActiveProvider
  <2>2. CASE ImportSetActive
    <3>1. k = boot.kind /\ active'[k] = boot.id
      BY <2>2 DEF ImportSetActive, TypeInv, TypeOK
    <3> QED BY <2>2, <3>1 DEF ImportSetActive, FilesInv, Marked
  <2>3. CASE active' = active
    BY <2>3
  <2>4. ASSUME NEW w \in Workers, DeleteLink(w) \/ \E fk \in Enforced : DeleteRow(w, fk)
        PROVE  FALSE
    BY <2>4 DEF DeleteLink, DeleteRow, CascadeActive
  <2> QED BY <2>1, <2>2, <2>3, <2>4
          DEF Next, Serve, SwitchStep, EditStep, Clients, BootStep, GetProvider, BackupProviderFiles,
              PrepareOfficial, CheckLogin, OpenFile, WriteFile, RenameFile, AddSwitchLog,
              SwitchFails, RequestFails, UpdateRead, UpdateSave, HotReload, ReloadMissed, ProbeReadModel,
              ProbeSaveModel, ReceiveSwitch, ReceiveUpdate, ReceiveModel, ReceiveDelete, Receive,
              CreateProvider, LoginCompletes, Start, ImportSkips, ImportRefused, ImportSave, Crash
<1> QED BY <1>1, <1>2, InitFiles, InitTypeInv, NextTypeInv, PTL DEF Spec, ActivationFollowsFiles

\* Under the same assumption a deletion leaves no link to the deleted provider,
\* although the two statements of DeleteProvider (store.go:313) may be separated
\* by a crash or run on connections that do not enforce foreign keys: the proof
\* uses neither the cascade nor the refusal of the upsert.
THEOREM LinksHold ==
  ASSUME Overlap = FALSE
  PROVE  Spec => []NoDanglingActive
<1>1. TypeInv /\ FilesInv /\ [Next]_vars => FilesInv'
  BY NextFiles
<1>2. FilesInv => NoDanglingActive
  BY DEF FilesInv, RecordedInv, Recorded, NoDanglingActive, Exists
<1> QED BY <1>1, <1>2, InitFiles, InitTypeInv, NextTypeInv, PTL DEF Spec
=============================================================================
