------------------------ MODULE ProviderSwitchProofs ------------------------
(* Theorems about ProviderSwitch, for every value of its constants. *)
EXTENDS ProviderSwitch, TLAPS

\* The labels at which a request carries the row it read.
RowPcs == {"backup", "private", "stat", "activate", "log", "save", "saveModel"} \cup WritePcs

\* A request being served names a provider and, from the read on, carries a
\* row; an import being marked names a provider of its kind.
RequestsOK ==
  /\ req \in [Workers -> RequestType]
  /\ \A w \in Workers :
       /\ req[w].pc # "idle" => req[w].id \in Providers
       /\ req[w].pc \in RowPcs => req[w].row \in Row
BootOK == boot.pc = "mark" => boot.id \in Providers /\ KindOf[boot.id] = boot.kind
DiskOK == disk \in [Kinds -> [Files -> PathType]]
TypeInv == TypeOK /\ RequestsOK /\ BootOK

LEMMA UnwrittenContent == NoFile \in Content /\ Blank \in Content /\ Torn \in Content
  BY DEF NoFile, Blank, Torn, Unwritten, Content, Forms, Sources

LEMMA RenderedContent ==
  ASSUME NEW p \in Providers, NEW r \in Row, NEW f \in Files
  PROVE  Rendered(p, r, f) \in Content
  BY DEF Rendered, Content, Row, Forms, Sources

\* The operators of TempFile keep a path well typed.
LEMMA OpenTmpType ==
  ASSUME NEW path \in PathType, NEW w \in Workers
  PROVE  OpenTmp(path, w, Blank) \in PathType
  BY UnwrittenContent DEF OpenTmp, PathType

LEMMA WriteTmpType ==
  ASSUME NEW path \in PathType, NEW w \in Workers, NEW c \in Content,
         NEW new \in WriteTmp(path, w, c, Torn)
  PROVE  new \in PathType
<1>1. \A old : Overwrite(old, c, Torn) \subseteq Content
  BY UnwrittenContent DEF Overwrite
<1>2. CASE path.fd[w] = "tmp"
  <2>1. PICK x \in Content : new = [path EXCEPT !.tmp = x, !.fd[w] = "closed"]
    BY <1>1, <1>2 DEF WriteTmp
  <2> QED BY <2>1 DEF PathType
<1>3. CASE path.fd[w] = "data"
  <2>1. PICK x \in Content : new = [path EXCEPT !.data = x, !.fd[w] = "closed"]
    BY <1>1, <1>3 DEF WriteTmp
  <2> QED BY <2>1 DEF PathType
<1>4. CASE path.fd[w] # "tmp" /\ path.fd[w] # "data"
  <2>1. new = [path EXCEPT !.fd[w] = "closed"]
    BY <1>4 DEF WriteTmp
  <2> QED BY <2>1 DEF PathType
<1> QED BY <1>2, <1>3, <1>4

LEMMA RenameTmpType ==
  ASSUME NEW path \in PathType
  PROVE  RenameTmp(path, NoFile) \in PathType
<1>1. \A v \in Workers : AfterRename(path.fd[v]) \in {"closed", "tmp", "data", "gone"}
  BY DEF AfterRename, PathType
<1>2. DOMAIN path.fd = Workers
  BY DEF PathType
<1> QED BY <1>1, <1>2, UnwrittenContent DEF RenameTmp, PathType

LEMMA CloseFdType ==
  ASSUME NEW path \in PathType, NEW w \in Workers
  PROVE  CloseFd(path, w) \in PathType
  BY DEF CloseFd, PathType

LEMMA GivenContent ==
  ASSUME NEW form, NEW k \in Kinds, NEW f \in Files, NEW c \in Conns,
         NEW m \in Models \cup {None}
  PROVE  GivenFile(form, k, f, c, m) \in Content
<1>1. Unwritten("official", None) \in Content
  BY DEF Unwritten, Content, Forms, Sources
<1>2. CASE form = "gateway" /\ f = "main"
  BY <1>2 DEF GivenFile, Content, Forms, Sources
<1>3. CASE form = "gateway" /\ f = "cred" /\ k = "codex"
  BY <1>3 DEF GivenFile, Content, Forms, Sources
<1>4. CASE form = "official" /\ f # "aux"
  BY <1>1, <1>4 DEF GivenFile
<1>5. CASE /\ ~(form = "gateway" /\ f = "main")
           /\ ~(form = "gateway" /\ f = "cred" /\ k = "codex")
           /\ ~(form = "official" /\ f # "aux")
  BY <1>5, UnwrittenContent DEF GivenFile
<1> QED BY <1>2, <1>3, <1>4, <1>5

LEMMA RowExists == \A r \in Row : r # Absent
  BY NoneIsNothing DEF Row, Absent

LEMMA InitTypeInv == Init => TypeInv
<1> SUFFICES ASSUME Init PROVE TypeInv
  OBVIOUS
<1>1. disk \in [Kinds -> [Files -> PathType]]
  BY UnwrittenContent, GivenContent DEF Init, PathType
<1>2. TypeOK
  BY <1>1 DEF Init, TypeOK, Home, EmptyHome, RequestType, Idle, Absent, Row, Pcs, Kinds
<1>3. RequestsOK /\ BootOK
  BY <1>2 DEF Init, TypeOK, RequestsOK, BootOK, Idle, RowPcs, WritePcs
<1> QED BY <1>2, <1>3 DEF TypeInv

-----------------------------------------------------------------------------
\* A request that ends, or that moves to a label whose needs it meets, leaves
\* the requests well formed.
LEMMA FinishOK ==
  ASSUME RequestsOK, NEW w \in Workers, Finish(w)
  PROVE  RequestsOK'
  BY DEF RequestsOK, Finish, Idle, RequestType, Pcs, RowPcs, WritePcs

LEMMA GotoOK ==
  ASSUME RequestsOK, NEW w \in Workers, NEW pc \in Pcs, req[w].pc # "idle",
         pc \in RowPcs => req[w].row \in Row, Goto(w, pc)
  PROVE  RequestsOK'
  BY DEF RequestsOK, Goto, RequestType

LEMMA ReadOK ==
  ASSUME RequestsOK, NEW w \in Workers, NEW pc \in Pcs, req[w].pc # "idle",
         NEW r \in Row, req' = [req EXCEPT ![w].pc = pc, ![w].row = r]
  PROVE  RequestsOK'
  BY DEF RequestsOK, RequestType

LEMMA PhaseOK ==
  ASSUME RequestsOK, NEW w \in Workers, NEW phase \in {"open", "write", "rename"},
         req' = [req EXCEPT ![w].phase = phase]
  PROVE  RequestsOK'
  BY DEF RequestsOK, RequestType

LEMMA WithModelRow ==
  ASSUME NEW r \in Row, NEW m \in Models \cup {None}
  PROVE  WithModel(r, m) \in Row
  BY DEF WithModel, Row

LEMMA EditOK ==
  ASSUME RequestsOK, NEW w \in Workers, req[w].pc # "idle", NEW r \in Row,
         req' = [req EXCEPT ![w].phase = "write", ![w].row = r]
  PROVE  RequestsOK'
  BY DEF RequestsOK, RequestType

\* The kind and the file a worker at a write label works on.
LEMMA WorkerPath ==
  ASSUME DiskOK, RequestsOK, NEW w \in Workers, req[w].pc \in WritePcs
  PROVE  /\ req[w].id \in Providers /\ req[w].row \in Row
         /\ KindOf[req[w].id] \in Kinds /\ FileAt(req[w].pc) \in Files
         /\ Path(w) \in PathType
<1>1. req[w].id \in Providers /\ req[w].row \in Row
  BY DEF RequestsOK, RowPcs, WritePcs
<1>2. KindOf[req[w].id] \in Kinds
  BY <1>1, KindOfType
<1>3. FileAt(req[w].pc) \in Files
  BY DEF FileAt, WritePcs, Files
<1> QED BY <1>1, <1>2, <1>3 DEF Path, DiskOK

LEMMA PutPathOK ==
  ASSUME DiskOK, RequestsOK, NEW w \in Workers, req[w].pc \in WritePcs,
         NEW path \in PathType, PutPath(w, path)
  PROVE  DiskOK'
<1>1. KindOf[req[w].id] \in Kinds /\ FileAt(req[w].pc) \in Files
  BY WorkerPath
<1> QED BY <1>1 DEF PutPath, DiskOK

\* Every step of the switch keeps the types.
LEMMA SwitchStepType ==
  ASSUME TypeInv, NEW w \in Workers, SwitchStep(w)
  PROVE  TypeInv'
<1> USE DEF TypeInv, At
<1>a. DiskOK /\ RequestsOK
  BY DEF TypeOK, DiskOK
<1>b. ASSUME RequestsOK', DiskOK', UNCHANGED <<rows, home, boot>>,
             active' \in [Kinds -> Providers \cup {None}],
             change' \in [Kinds -> {"none", "open", "cut", "missed"}]
      PROVE  TypeInv'
  BY <1>b DEF TypeOK, RequestsOK, DiskOK, BootOK
<1>1. CASE GetProvider(w)
  <2>1. RequestsOK'
    <3>1. CASE Exists(req[w].id)
      <4>1. rows[req[w].id] \in Row
        BY <1>1, <3>1 DEF GetProvider, Exists, TypeOK, RequestsOK
      <4> QED BY <1>1, <3>1, <4>1, ReadOK DEF GetProvider, Pcs
    <3>2. CASE ~Exists(req[w].id)
      BY <1>1, <3>2, FinishOK DEF GetProvider
    <3> QED BY <3>1, <3>2
  <2> QED BY <1>1, <1>a, <1>b, <2>1 DEF GetProvider, TypeOK, DiskOK
<1>2. CASE BackupProviderFiles(w)
  <2>1. RequestsOK'
    BY <1>2, GotoOK DEF BackupProviderFiles, ApplyStart, Pcs, RequestsOK, RowPcs
  <2> QED BY <1>2, <1>a, <1>b, <2>1 DEF BackupProviderFiles, TypeOK, DiskOK
<1>3. CASE PrepareOfficial(w)
  <2>1. req[w].id \in Providers /\ req[w].row \in Row
    BY <1>3 DEF PrepareOfficial, RequestsOK, RowPcs
  <2> DEFINE m == Merged(req[w].row.model, home[req[w].id].model)
  <2>2. m \in Models \cup {None}
    BY <2>1 DEF Merged, Row, TypeOK, Home
  <2>3. RequestsOK'
    BY <1>3, <1>a, <2>1, <2>2, WithModelRow, ReadOK DEF PrepareOfficial, Pcs
  <2>4. home' \in [Providers -> Home]
    BY <1>3, <2>1, <2>2 DEF PrepareOfficial, TypeOK, Home
  <2> QED BY <1>3, <1>a, <2>3, <2>4 DEF PrepareOfficial, TypeOK, RequestsOK, BootOK
<1>11. CASE CheckLogin(w)
  <2>1. PICK pc \in {"aux", "cred"} : Goto(w, pc)
    BY <1>11 DEF CheckLogin
  <2>2. RequestsOK'
    BY <1>11, <2>1, GotoOK DEF CheckLogin, Pcs, RequestsOK, RowPcs
  <2> QED BY <1>11, <1>a, <1>b, <2>2 DEF CheckLogin, TypeOK, DiskOK
<1>4. CASE OpenFile(w)
  <2>1. PICK m \in IF req[w].pc = "main" /\ req[w].row.source = "gateway"
                   THEN EditedModels(w) ELSE {req[w].row.model} :
          req' = [req EXCEPT ![w].phase = "write", ![w].row = WithModel(req[w].row, m)]
    BY <1>4 DEF OpenFile
  <2>2. req[w].row \in Row /\ req[w].pc # "idle"
    BY <1>4, <1>a, WorkerPath DEF OpenFile, WritePcs
  <2>3. Path(w).data.model \in Models \cup {None}
    BY <1>4, <1>a, WorkerPath DEF OpenFile, PathType, Content
  <2>4. EditedModels(w) \subseteq Models \cup {None}
    BY <2>2, <2>3 DEF EditedModels, Merged, Row
  <2>5. m \in Models \cup {None}
    BY <2>1, <2>2, <2>4 DEF Row
  <2>6. RequestsOK'
    BY <1>a, <2>1, <2>2, <2>5, WithModelRow, EditOK
  <2>7. DiskOK'
    BY <1>4, <1>a, WorkerPath, OpenTmpType, PutPathOK DEF OpenFile
  <2> QED BY <1>4, <1>b, <2>6, <2>7 DEF OpenFile, TypeOK
<1>5. CASE WriteFile(w)
  <2>1. RequestsOK'
    BY <1>5, PhaseOK DEF WriteFile
  <2>2. Rendered(req[w].id, req[w].row, FileAt(req[w].pc)) \in Content
    BY <1>5, <1>a, WorkerPath, RenderedContent DEF WriteFile
  <2>3. DiskOK'
    BY <1>5, <1>a, <2>2, WorkerPath, WriteTmpType, PutPathOK DEF WriteFile
  <2> QED BY <1>5, <1>b, <2>1, <2>3 DEF WriteFile, TypeOK
<1>6. CASE RenameFile(w)
  <2>1. PICK pc \in NextFile(req[w].pc, req[w].row) : Goto(w, pc)
    BY <1>6 DEF RenameFile
  <2>2. pc \in {"cred", "cred2", "main", "activate"}
    BY <2>1 DEF NextFile
  <2>3. RequestsOK'
    BY <1>6, <1>a, <2>1, <2>2, WorkerPath, GotoOK DEF RenameFile, Pcs, WritePcs
  <2>4. DiskOK'
    BY <1>6, <1>a, WorkerPath, RenameTmpType, PutPathOK DEF RenameFile
  <2> QED BY <1>6, <1>b, <2>3, <2>4 DEF RenameFile, TypeOK
<1>7. CASE \E fk \in Enforced : SetActiveProvider(w, fk)
  <2>1. RequestsOK'
    BY <1>7, GotoOK DEF SetActiveProvider, Pcs, RequestsOK, RowPcs
  <2>2. req[w].id \in Providers
    BY <1>7 DEF SetActiveProvider, RequestsOK
  <2> QED BY <1>7, <1>a, <1>b, <2>1, <2>2 DEF SetActiveProvider, TypeOK, DiskOK
<1>8. CASE AddSwitchLog(w)
  <2>1. RequestsOK'
    BY <1>8, FinishOK DEF AddSwitchLog
  <2> QED BY <1>8, <1>a, <1>b, <2>1 DEF AddSwitchLog, TypeOK, DiskOK
<1>9. CASE \E fk \in Enforced : SwitchFails(w, fk)
  <2>1. RequestsOK'
    BY <1>9, FinishOK DEF SwitchFails
  <2>2. DiskOK'
    BY <1>9, <1>a, CloseFdType DEF SwitchFails, DiskOK
  <2> QED BY <1>9, <1>b, <2>1, <2>2 DEF SwitchFails, CutShort, Ended, TypeOK
<1>10. CASE RequestFails(w)
  <2>1. RequestsOK'
    BY <1>10, FinishOK DEF RequestFails
  <2> QED BY <1>10, <1>a, <1>b, <2>1 DEF RequestFails, CutShort, Ended, TypeOK, DiskOK
<1> QED BY <1>1, <1>2, <1>3, <1>11, <1>4, <1>5, <1>6, <1>7, <1>8, <1>9, <1>10 DEF SwitchStep

\* A statement that leaves the files, the requests' types and the boot alone.
LEMMA TypeInvStep ==
  ASSUME TypeInv, RequestsOK', DiskOK', BootOK',
         rows' \in [Providers -> Row \cup {Absent}],
         active' \in [Kinds -> Providers \cup {None}],
         home' \in [Providers -> Home],
         boot' \in [pc : {"down", "scan", "mark", "up"}, kind : Kinds, id : Providers \cup {None}],
         change' \in [Kinds -> {"none", "open", "cut", "missed"}]
  PROVE  TypeInv'
  BY DEF TypeInv, TypeOK, RequestsOK, DiskOK

LEMMA EditStepType ==
  ASSUME TypeInv, NEW w \in Workers, EditStep(w)
  PROVE  TypeInv'
<1> USE DEF TypeInv, At
<1>a. DiskOK /\ RequestsOK
  BY DEF TypeOK, DiskOK
<1>b. UNCHANGED <<disk, boot>>
  BY DEF EditStep, UpdateRead, UpdateSave, HotReload, ReloadMissed, ProbeReadModel, ProbeSaveModel,
         DeleteLink, DeleteRow
<1>c. DiskOK' /\ BootOK'
  BY <1>a, <1>b DEF DiskOK, BootOK
<1>1. CASE UpdateRead(w)
  <2>1. RequestsOK'
    <3>1. CASE Exists(req[w].id)
      <4>1. rows[req[w].id] \in Row
        BY <1>1, <3>1 DEF UpdateRead, Exists, TypeOK, RequestsOK
      <4> QED BY <1>1, <3>1, <4>1, ReadOK DEF UpdateRead, Pcs
    <3>2. CASE ~Exists(req[w].id)
      BY <1>1, <3>2, FinishOK DEF UpdateRead
    <3> QED BY <3>1, <3>2
  <2> QED BY <1>1, <1>c, <2>1, TypeInvStep DEF UpdateRead, TypeOK
<1>2. CASE UpdateSave(w)
  <2>1. req[w].id \in Providers /\ req[w].row \in Row
    BY <1>2 DEF UpdateSave, RequestsOK, RowPcs
  <2>2. FormRows(req[w].row) \subseteq Row
    BY <2>1 DEF FormRows, Row
  <2>3. rows' \in [Providers -> Row \cup {Absent}]
    BY <1>2, <2>1, <2>2 DEF UpdateSave, Updated, TypeOK
  <2>4. RequestsOK'
    BY <1>2, <2>1 DEF UpdateSave, RequestsOK, RequestType, Pcs, RowPcs, WritePcs
  <2>5. change' \in [Kinds -> {"none", "open", "cut", "missed"}]
    BY <1>2, <2>1 DEF UpdateSave, TypeOK
  <2> QED BY <1>2, <1>c, <2>3, <2>4, <2>5, TypeInvStep DEF UpdateSave, TypeOK
<1>3. CASE HotReload(w)
  <2>1. RequestsOK'
    BY <1>3, GotoOK, FinishOK DEF HotReload, Pcs, RowPcs, WritePcs
  <2> QED BY <1>3, <1>c, <2>1, TypeInvStep DEF HotReload, TypeOK
<1>4. CASE ProbeReadModel(w)
  <2>1. RequestsOK'
    <3>1. CASE Exists(req[w].id)
      <4>1. rows[req[w].id] \in Row
        BY <1>4, <3>1 DEF ProbeReadModel, Exists, TypeOK, RequestsOK
      <4> QED BY <1>4, <3>1, <4>1, ReadOK DEF ProbeReadModel, Pcs
    <3>2. CASE ~Exists(req[w].id)
      BY <1>4, <3>2, FinishOK DEF ProbeReadModel
    <3> QED BY <3>1, <3>2
  <2> QED BY <1>4, <1>c, <2>1, TypeInvStep DEF ProbeReadModel, TypeOK
<1>5. CASE ProbeSaveModel(w)
  <2>1. req[w].id \in Providers /\ req[w].row \in Row
    BY <1>5 DEF ProbeSaveModel, RequestsOK, RowPcs
  <2>2. \A m \in Models : WithModel(req[w].row, m) \in Row
    BY <2>1, WithModelRow
  <2>3. rows' \in [Providers -> Row \cup {Absent}]
    BY <1>5, <2>1, <2>2 DEF ProbeSaveModel, Updated, TypeOK
  <2>4. RequestsOK'
    BY <1>5, FinishOK DEF ProbeSaveModel
  <2>5. change' \in [Kinds -> {"none", "open", "cut", "missed"}]
    BY <1>5, <2>1 DEF ProbeSaveModel, TypeOK
  <2> QED BY <1>5, <1>c, <2>3, <2>4, <2>5, TypeInvStep DEF ProbeSaveModel, TypeOK
<1>8. CASE ReloadMissed(w)
  <2>1. RequestsOK'
    BY <1>8, FinishOK DEF ReloadMissed
  <2>2. change' \in [Kinds -> {"none", "open", "cut", "missed"}]
    BY <1>8 DEF ReloadMissed, Ended, TypeOK
  <2> QED BY <1>8, <1>c, <2>1, <2>2, TypeInvStep DEF ReloadMissed, TypeOK
<1>6. CASE DeleteLink(w)
  <2>1. RequestsOK'
    BY <1>6, GotoOK DEF DeleteLink, Pcs, RowPcs, WritePcs
  <2>2. active' \in [Kinds -> Providers \cup {None}]
    BY <1>6 DEF DeleteLink, TypeOK
  <2> QED BY <1>6, <1>c, <2>1, <2>2, TypeInvStep DEF DeleteLink, TypeOK
<1>7. CASE \E fk \in Enforced : DeleteRow(w, fk)
  <2>1. RequestsOK'
    BY <1>7, FinishOK DEF DeleteRow
  <2>2. PICK fk \in BOOLEAN : DeleteRow(w, fk)
    BY <1>7, EnforcedType
  <2>3. active' \in [Kinds -> Providers \cup {None}]
    BY <2>2 DEF DeleteRow, CascadeActive, TypeOK
  <2>4. rows' \in [Providers -> Row \cup {Absent}]
    BY <2>2 DEF DeleteRow, TypeOK
  <2> QED BY <2>2, <1>c, <2>1, <2>3, <2>4, TypeInvStep DEF DeleteRow, TypeOK
<1> QED BY <1>1, <1>2, <1>3, <1>4, <1>5, <1>6, <1>7, <1>8 DEF EditStep

LEMMA ClientsType ==
  ASSUME TypeInv, Clients
  PROVE  TypeInv'
<1> USE DEF TypeInv
<1>a. DiskOK /\ RequestsOK
  BY DEF TypeOK, DiskOK
<1>1. ASSUME NEW w \in Workers, NEW op, NEW p \in Providers,
             NEW pc \in {"get", "read", "readModel", "delLink"}, Receive(w, op, p, pc)
      PROVE  TypeInv'
  <2>1. RequestsOK'
    BY <1>1 DEF Receive, RequestsOK, RequestType, Idle, Pcs, RowPcs, WritePcs
  <2>2. DiskOK' /\ BootOK'
    BY <1>1, <1>a DEF Receive, DiskOK, BootOK
  <2> QED BY <1>1, <2>1, <2>2, TypeInvStep DEF Receive, TypeOK
<1>2. ASSUME NEW p \in Providers, CreateProvider(p)
      PROVE  TypeInv'
  <2>1. \A source \in Offered, c \in Conns, m \in Models : NewRow(source, c, m) \in Row
    BY OfferedType DEF NewRow, Row
  <2>2. rows' \in [Providers -> Row \cup {Absent}]
    BY <1>2, <2>1 DEF CreateProvider, TypeOK
  <2>4. home' \in [Providers -> Home]
    BY <1>2 DEF CreateProvider, TypeOK, Home, EmptyHome
  <2>3. RequestsOK' /\ DiskOK' /\ BootOK'
    BY <1>2, <1>a DEF CreateProvider, RequestsOK, DiskOK, BootOK
  <2> QED BY <1>2, <2>2, <2>3, <2>4, TypeInvStep DEF CreateProvider, TypeOK
<1>3. ASSUME NEW p \in Providers, LoginCompletes(p)
      PROVE  TypeInv'
  <2>1. RequestsOK' /\ DiskOK' /\ BootOK'
    BY <1>3, <1>a DEF LoginCompletes, RequestsOK, DiskOK, BootOK
  <2>2. rows[p] \in Row
    BY <1>3, NoneIsNothing DEF LoginCompletes, TypeOK, Absent, Sources
  <2>3. home' \in [Providers -> Home]
    BY <1>3, <2>2 DEF LoginCompletes, TypeOK, Home, Merged, Row
  <2> QED BY <1>3, <2>1, <2>3, TypeInvStep DEF LoginCompletes, TypeOK
<1> QED BY <1>1, <1>2, <1>3
        DEF Clients, ReceiveSwitch, ReceiveUpdate, ReceiveModel, ReceiveDelete

LEMMA BootStepType ==
  ASSUME TypeInv, BootStep
  PROVE  TypeInv'
<1> USE DEF TypeInv
<1>a. DiskOK /\ RequestsOK
  BY DEF TypeOK, DiskOK
<1>b. UNCHANGED <<disk, req>>
  BY DEF BootStep, Start, ImportSkips, ImportRefused, ImportSave, ImportSetActive
<1>c. DiskOK' /\ RequestsOK'
  BY <1>a, <1>b DEF DiskOK, RequestsOK
<1>d. ASSUME NEW k \in Kinds PROVE AfterImport(k) \in [pc : {"scan", "up"}, kind : Kinds, id : {None}]
  BY DEF AfterImport, Kinds
<1>e. boot.kind \in Kinds
  BY DEF TypeOK
<1>1. CASE Start
  BY <1>1, <1>c, TypeInvStep DEF Start, TypeOK, BootOK
<1>2. CASE ImportSkips
  <2>1. BootOK' /\ boot' \in [pc : {"down", "scan", "mark", "up"}, kind : Kinds,
                              id : Providers \cup {None}]
    BY <1>2, <1>d, <1>e DEF ImportSkips, BootOK
  <2> QED BY <1>2, <1>c, <2>1, TypeInvStep DEF ImportSkips, TypeOK
<1>3. CASE ImportRefused
  BY <1>3, <1>c, TypeInvStep DEF ImportRefused, TypeOK, BootOK, Kinds
<1>4. CASE \E p \in Providers : ImportSave(p)
  <2>1. PICK p \in Providers : ImportSave(p)
    BY <1>4
  <2>2. ImportedRow(boot.kind) \in Row
    BY <1>e DEF ImportedRow, Row, Sources, TypeOK, PathType, Content, Files
  <2>3. rows' \in [Providers -> Row \cup {Absent}]
    BY <2>1, <2>2 DEF ImportSave, TypeOK
  <2>4. BootOK'
    BY <2>1 DEF ImportSave, BootOK, TypeOK
  <2>5. home' \in [Providers -> Home]
    BY <2>1 DEF ImportSave, TypeOK, Home, EmptyHome
  <2> QED BY <2>1, <1>c, <2>3, <2>4, <2>5, TypeInvStep DEF ImportSave, TypeOK
<1>5. CASE ImportSetActive
  <2>1. BootOK' /\ boot' \in [pc : {"down", "scan", "mark", "up"}, kind : Kinds,
                              id : Providers \cup {None}]
    BY <1>5, <1>d, <1>e DEF ImportSetActive, BootOK
  <2>2. active' \in [Kinds -> Providers \cup {None}]
    BY <1>5, <1>e DEF ImportSetActive, BootOK, TypeOK
  <2>3. change' \in [Kinds -> {"none", "open", "cut", "missed"}]
    BY <1>5, <1>e DEF ImportSetActive, TypeOK
  <2> QED BY <1>5, <1>c, <2>1, <2>2, <2>3, TypeInvStep DEF ImportSetActive, TypeOK
<1> QED BY <1>1, <1>2, <1>3, <1>4, <1>5 DEF BootStep

LEMMA CrashType ==
  ASSUME TypeInv, Crash
  PROVE  TypeInv'
<1> USE DEF TypeInv
<1>1. RequestsOK'
  BY DEF Crash, RequestsOK, RequestType, Idle, Absent, Pcs, RowPcs, WritePcs
<1>2. DiskOK'
  <2>1. \A path \in PathType : [path EXCEPT !.fd = [w \in Workers |-> "closed"]] \in PathType
    BY DEF PathType
  <2> QED BY <2>1 DEF Crash, DiskOK, TypeOK
<1>3. change' \in [Kinds -> {"none", "open", "cut", "missed"}]
  BY DEF Crash, CutShort, Ended, TypeOK
<1> QED BY <1>1, <1>2, <1>3, TypeInvStep DEF Crash, TypeOK, BootOK, Kinds

LEMMA NextTypeInv == TypeInv /\ [Next]_vars => TypeInv'
<1> SUFFICES ASSUME TypeInv, [Next]_vars PROVE TypeInv'
  OBVIOUS
<1>1. CASE UNCHANGED vars
  BY <1>1 DEF vars, TypeInv, TypeOK, RequestsOK, BootOK
<1>2. CASE Next
  BY <1>2, SwitchStepType, EditStepType, ClientsType, BootStepType, CrashType DEF Next, Serve
<1> QED BY <1>1, <1>2

\* Every variable stays in its domain, whatever the requests, failures and
\* crashes (server.go, store.go and manager.go keep the tables and files typed).
THEOREM TypeCorrect == Spec => []TypeOK
<1>1. TypeInv => TypeOK
  BY DEF TypeInv
<1> QED BY <1>1, InitTypeInv, NextTypeInv, PTL DEF Spec

=============================================================================
