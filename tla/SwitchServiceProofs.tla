------------------------- MODULE SwitchServiceProofs -------------------------
(***************************************************************************)
(* ProviderSwitch implements SwitchService when requests on one kind do    *)
(* not overlap.  Most steps are invisible: they change neither a row, a    *)
(* link, nor a published file.  The end of the module draws the            *)
(* conclusion: the tool follows the choice.                                *)
(***************************************************************************)
EXTENDS ProviderSwitchFiles, SwitchRefinement

\* A change under way belongs to a request, so settled means complete.
LEMMA SettledIsComplete ==
  ASSUME FilesInv, NEW k \in Kinds
  PROVE  Settled(k) <=> change[k] = "none"
  BY DEF Settled, Busy, FilesInv, ChangesOwned, Kind

LEMMA SettledIsCompleteNext ==
  ASSUME FilesInv', NEW k \in Kinds
  PROVE  Settled(k)' <=> change'[k] = "none"
  BY DEF Settled, Busy, FilesInv, ChangesOwned, Kind

\* What a tool reads depends on the published files only.
LEMMA ReadsData ==
  ASSUME NEW k \in Kinds, NEW d, NEW e, \A f \in Files : e[f].data = d[f].data
  PROVE  ReadFrom(k, e) = ReadFrom(k, d)
<1>1. e["main"].data = d["main"].data
  BY DEF Files
<1> QED BY <1>1 DEF ReadFrom

\* A step after which kind k has the same files, as settled as before.
Unseen(k) ==
  /\ change'[k] = "none" <=> change[k] = "none"
  /\ \A f \in Files : disk'[k][f].data = disk[k][f].data

LEMMA UnseenTool ==
  ASSUME FilesInv, FilesInv', NEW k \in Kinds, Unseen(k)
  PROVE  tool'[k] = tool[k]
<1>1. Settled(k)' <=> Settled(k)
  BY SettledIsComplete, SettledIsCompleteNext DEF Unseen
<1>2. ReadFrom(k, disk'[k]) = ReadFrom(k, disk[k])
  BY ReadsData DEF Unseen
<1> QED BY <1>1, <1>2 DEF tool, ReadFrom

LEMMA StutterStep ==
  ASSUME FilesInv, FilesInv', UNCHANGED <<rows, active>>, \A k \in Kinds : Unseen(k)
  PROVE  UNCHANGED Service!vars
<1>1. tool' = tool
  BY UnseenTool DEF tool
<1> QED BY <1>1 DEF Service!vars

\* A step on kind k alone changes what its tool reads, and no other.
LEMMA OneTool ==
  ASSUME FilesInv, FilesInv', NEW k \in Kinds, \A j \in Kinds \ {k} : Unseen(j)
  PROVE  tool' = [tool EXCEPT ![k] = tool'[k]]
<1>1. \A j \in Kinds \ {k} : tool'[j] = tool[j]
  BY UnseenTool
<1> QED BY <1>1 DEF tool

LEMMA UnsettledNext ==
  ASSUME FilesInv', NEW k \in Kinds, change'[k] # "none"
  PROVE  tool'[k] = None
<1>1. ~Settled(k)'
  BY SettledIsCompleteNext
<1> QED BY <1>1 DEF tool

\* Files in place are something the provider says.
LEMMA PlacedSays ==
  ASSUME NEW p \in Providers, NEW r \in Row, NEW d \in [Files -> PathType],
         InPlace(d, p, r), \A f \in Files : Shape(KindOf[p], f, d[f].data)
  PROVE  ReadFrom(KindOf[p], d) \in Says[p][r]
<1> DEFINE m == d["main"].data.model
           s == WithModel(r, m)
<1>1. /\ Targets(p, r) \subseteq Files /\ "main" \in Targets(p, r) /\ "main" \in Files
      /\ Targets(p, s) = Targets(p, r)
  BY DEF Targets, Files, WithModel, Row
<1>2. \A f \in Files : d[f].data \in Content
  BY DEF PathType
<1>3. m \in ModelsOf(r)
  <2>1. m \in Models \cup {None}
    BY <1>1, <1>2 DEF Content
  <2>2. SaysSame(d["main"].data, Rendered(p, r, "main"))
    BY <1>1 DEF InPlace
  <2>3. r.model # None => m \in {r.model, None}
    BY <2>2 DEF SaysSame, Rendered
  <2> QED BY <2>1, <2>3 DEF ModelsOf
<1>4. s \in Row /\ s.source = r.source /\ s.url = r.url /\ s.key = r.key /\ s.model = m
  BY <1>1, <1>2 DEF WithModel, Row, Content
<1>5. \A f \in Targets(p, r) : d[f].data = Rendered(p, s, f)
  <2> SUFFICES ASSUME NEW f \in Targets(p, r)
               PROVE  d[f].data = Rendered(p, s, f)
    OBVIOUS
  <2>1. SaysSame(d[f].data, Rendered(p, r, f)) /\ d[f].data \in Content
    BY <1>1, <1>2 DEF InPlace
  <2>2. d[f].data.model = Rendered(p, s, f).model
    BY <1>1, <1>4 DEF Rendered, Shape
  <2> HIDE DEF s
  <2>3. Rendered(p, s, f) = [Rendered(p, r, f) EXCEPT !.model = Rendered(p, s, f).model]
    BY <1>4 DEF Rendered
  <2>4. d[f].data = [Rendered(p, r, f) EXCEPT !.model = d[f].data.model]
    BY <2>1 DEF SaysSame, Rendered, Content
  <2> QED BY <2>2, <2>3, <2>4
<1>6. ReadBy(KindOf[p], d["main"].data) = Targets(p, r)
  <2>1. d["main"].data = Rendered(p, s, "main")
    BY <1>1, <1>5
  <2> HIDE DEF s
  <2>2. Rendered(p, s, "main").form = r.source
    BY <1>4 DEF Rendered
  <2> QED BY <2>1, <2>2 DEF ReadBy, Targets
<1>7. ReadFrom(KindOf[p], d) =
        [f \in Files |-> IF f \in Targets(p, r) THEN Rendered(p, s, f) ELSE NoFile]
  BY <1>1, <1>5, <1>6 DEF ReadFrom
<1>8. Says[p][r] = {[f \in Files |-> IF f \in Targets(p, r) THEN Rendered(p, WithModel(r, n), f)
                                    ELSE NoFile] : n \in ModelsOf(r)}
  BY DEF Says
<1> QED BY <1>3, <1>7, <1>8

-----------------------------------------------------------------------------
(* The steps of a switch. *)

LEMMA EndedUnseen ==
  ASSUME TypeInv, NEW K, NEW how \in {"cut", "missed"}, Ended(K, how), NEW k \in Kinds
  PROVE  change'[k] = "none" <=> change[k] = "none"
  BY DEF Ended

\* A file operation that leaves the published file alone is not seen.
LEMMA SameDataStep ==
  ASSUME TypeInv, FilesInv, FilesInv', NEW w \in Workers, req[w].pc \in WritePcs,
         NEW path, PutPath(w, path), path.data = Path(w).data,
         UNCHANGED <<rows, active, change>>
  PROVE  UNCHANGED Service!vars
<1> DEFINE k == Kind(w)  f == FileAt(req[w].pc)
<1>1. /\ k \in Kinds /\ f \in Files /\ disk \in [Kinds -> [Files -> PathType]]
      /\ Path(w) = disk[k][f]
  BY WriterFacts
<1>2. disk' = [disk EXCEPT ![k][f] = path]
  BY DEF PutPath, Kind
<1>3. \A j \in Kinds, g \in Files : disk'[j][g].data = disk[j][g].data
  <2> SUFFICES ASSUME NEW j \in Kinds, NEW g \in Files
               PROVE  disk'[j][g].data = disk[j][g].data
    OBVIOUS
  <2>1. CASE j = k /\ g = f
    BY <1>1, <1>2, <2>1
  <2>2. CASE ~(j = k /\ g = f)
    BY <1>1, <1>2, <2>2
  <2> QED BY <2>1, <2>2
<1>4. \A j \in Kinds : Unseen(j)
  BY <1>3 DEF Unseen
<1> QED BY <1>4, StutterStep

LEMMA OpenFileService ==
  ASSUME TypeInv, FilesInv, FilesInv', NEW w \in Workers, OpenFile(w)
  PROVE  UNCHANGED Service!vars
<1>1. /\ req[w].pc \in WritePcs /\ PutPath(w, OpenTmp(Path(w), w, Blank))
      /\ UNCHANGED <<rows, active, change>>
  BY DEF OpenFile
<1>2. Path(w) \in PathType
  BY <1>1, WriterFacts
<1>3. OpenTmp(Path(w), w, Blank).data = Path(w).data
  BY <1>2 DEF OpenTmp, PathType
<1> QED BY <1>1, <1>3, SameDataStep

LEMMA WriteFileService ==
  ASSUME TypeInv, FilesInv, FilesInv', NEW w \in Workers, WriteFile(w)
  PROVE  UNCHANGED Service!vars
<1>1. /\ req[w].pc \in WritePcs /\ req[w].phase = "write"
      /\ UNCHANGED <<rows, active, change>>
  BY DEF WriteFile
<1>2. Path(w) \in PathType /\ Path(w).fd[w] = "tmp"
  BY <1>1, WriterFacts
<1>3. PICK path \in WriteTmp(Path(w), w, Rendered(req[w].id, req[w].row, FileAt(req[w].pc)), Torn) :
        PutPath(w, path)
  BY DEF WriteFile
<1>4. PICK c : path = [Path(w) EXCEPT !.tmp = c, !.fd[w] = "closed"]
  BY <1>2, <1>3 DEF WriteTmp
<1>5. path.data = Path(w).data
  BY <1>2, <1>4 DEF PathType
<1> QED BY <1>1, <1>3, <1>5, SameDataStep

\* The first published file unsettles the tool, every other is not seen.
LEMMA RenameFileService ==
  ASSUME TypeInv, FilesInv, FilesInv', NEW w \in Workers, RenameFile(w)
  PROVE  Service!Next
<1> DEFINE k == Kind(w)
<1>1. /\ req[w].pc \in WritePcs /\ PutPath(w, RenameTmp(Path(w), NoFile))
      /\ UNCHANGED <<rows, active>> /\ change' = [change EXCEPT ![k] = "open"]
  BY DEF RenameFile, Kind
<1>2. k \in Kinds /\ FileAt(req[w].pc) \in Files /\ disk \in [Kinds -> [Files -> PathType]]
  BY <1>1, WriterFacts
<1>3. change'[k] = "open" /\ \A j \in Kinds \ {k} : change'[j] = change[j]
  BY <1>1, <1>2 DEF TypeInv, TypeOK
<1>4. \A j \in Kinds \ {k} : disk'[j] = disk[j]
  BY <1>1, <1>2 DEF PutPath, Kind
<1>5. tool' = [tool EXCEPT ![k] = None]
  BY <1>2, <1>3, <1>4, OneTool, UnsettledNext DEF Unseen
<1>6. Service!Unsettle({k})
  BY <1>1, <1>5 DEF Service!Unsettle, tool
<1> QED BY <1>2, <1>6 DEF Service!Next

\* Marking a provider active is the step at which it is chosen.
LEMMA ChooseStep ==
  ASSUME TypeInv, FilesInv, TypeInv', FilesInv', NEW p \in Providers,
         rows[p] # Absent, UNCHANGED <<rows, disk>>, active' = [active EXCEPT ![KindOf[p]] = p],
         change' = [change EXCEPT ![KindOf[p]] = "none"], InPlace(disk[KindOf[p]], p, rows[p])
  PROVE  Service!Next
<1> DEFINE k == KindOf[p]
<1>1. k \in Kinds /\ rows[p] \in Row /\ disk[k] \in [Files -> PathType]
  BY KindOfType DEF TypeInv, TypeOK
<1>2. change'[k] = "none" /\ \A j \in Kinds \ {k} : change'[j] = change[j]
  BY <1>1 DEF TypeInv, TypeOK
<1>3. tool'[k] \in Says[p][rows[p]]
  <2>1. Settled(k)'
    BY <1>1, <1>2, SettledIsCompleteNext
  <2>2. tool'[k] = ReadFrom(k, disk[k])
    BY <1>1, <2>1 DEF tool, ReadFrom
  <2>3. \A f \in Files : Shape(k, f, disk[k][f].data)
    BY <1>1 DEF FilesInv, RecordedInv, Recorded
  <2> QED BY <1>1, <2>2, <2>3, PlacedSays
<1>4. tool' = [tool EXCEPT ![k] = tool'[k]]
  BY <1>1, <1>2, OneTool DEF Unseen
<1>5. Service!Choose(p)
  BY <1>3, <1>4 DEF Service!Choose
<1> QED BY <1>5 DEF Service!Next

LEMMA SetActiveService ==
  ASSUME TypeInv, FilesInv, TypeInv', FilesInv',
         NEW w \in Workers, NEW fk, SetActiveProvider(w, fk)
  PROVE  Service!Next
<1>1. /\ req[w].pc = "activate" /\ UNCHANGED <<rows, disk>>
      /\ active' = [active EXCEPT ![Kind(w)] = req[w].id]
      /\ change' = [change EXCEPT ![Kind(w)] = "none"]
  BY DEF SetActiveProvider, At, Kind
<1>2. InPlace(disk[Kind(w)], req[w].id, rows[req[w].id]) /\ rows[req[w].id] # Absent
  BY <1>1, ReadyToActivate
<1>3. req[w].id \in Providers
  BY <1>1, BusyRequest
<1> QED BY <1>1, <1>2, <1>3, ChooseStep DEF Kind

LEMMA SwitchFailsService ==
  ASSUME TypeInv, FilesInv, FilesInv', NEW w \in Workers, NEW fk, SwitchFails(w, fk)
  PROVE  UNCHANGED Service!vars
<1>1. /\ UNCHANGED <<rows, active>> /\ Ended({KindOf[req[w].id]}, "cut")
      /\ disk' = [k \in Kinds |-> [f \in Files |-> CloseFd(disk[k][f], w)]]
  BY DEF SwitchFails, CutShort
<1>2. \A path \in PathType : CloseFd(path, w).data = path.data
  BY DEF CloseFd, PathType
<1>3. \A k \in Kinds, f \in Files : disk[k][f] \in PathType
  BY DEF TypeInv, TypeOK
<1>4. \A k \in Kinds : Unseen(k)
  BY <1>1, <1>2, <1>3, EndedUnseen DEF Unseen
<1> QED BY <1>1, <1>4, StutterStep

LEMMA SwitchStepService ==
  ASSUME TypeInv, FilesInv, TypeInv', FilesInv',
         NEW w \in Workers, SwitchStep(w)
  PROVE  Service!Next \/ UNCHANGED Service!vars
<1>1. CASE \/ GetProvider(w) \/ BackupProviderFiles(w) \/ PrepareOfficial(w) \/ CheckLogin(w)
           \/ AddSwitchLog(w)
  <2>1. UNCHANGED <<rows, active, disk, change>>
    BY <1>1 DEF GetProvider, BackupProviderFiles, PrepareOfficial, CheckLogin, AddSwitchLog
  <2> QED BY <2>1, StutterStep DEF Unseen
<1>2. CASE RequestFails(w)
  <2>1. UNCHANGED <<rows, active, disk>> /\ Ended({KindOf[req[w].id]}, "cut")
    BY <1>2 DEF RequestFails, CutShort
  <2> QED BY <2>1, EndedUnseen, StutterStep DEF Unseen
<1> QED BY <1>1, <1>2, OpenFileService, WriteFileService, RenameFileService, SetActiveService,
           SwitchFailsService DEF SwitchStep

-----------------------------------------------------------------------------
(* The other requests. *)

LEMMA NewProvider ==
  ASSUME FilesInv, FilesInv', NEW p \in Providers, NEW r \in Row, Free(p),
         rows' = [rows EXCEPT ![p] = r], UNCHANGED <<active, disk, change>>
  PROVE  Service!Next
<1>1. \A k \in Kinds : Unseen(k)
  BY DEF Unseen
<1>2. tool' = tool
  BY <1>1, UnseenTool DEF tool
<1>3. Service!Add(p, r)
  BY <1>2 DEF Service!Add, Free, Exists
<1> QED BY <1>3 DEF Service!Next

\* Saving the row of the provider shown as active unsettles the tool.
LEMMA SaveService ==
  ASSUME TypeInv, FilesInv, FilesInv', NEW p \in Providers, NEW r \in Row, NEW c \in {"open", "missed"},
         rows' = Updated(p, r), UNCHANGED <<active, disk>>,
         change' = IF active[KindOf[p]] = p THEN [change EXCEPT ![KindOf[p]] = c] ELSE change
  PROVE  Service!Next \/ UNCHANGED Service!vars
<1> DEFINE k == KindOf[p]
<1>1. k \in Kinds
  BY KindOfType
<1>2. CASE ~Exists(p)
  <2>1. active[k] # p
    BY <1>1, <1>2, NoneIsNothing DEF FilesInv, RecordedInv, Recorded, Exists
  <2>2. UNCHANGED <<rows, active, disk, change>>
    BY <1>2, <2>1 DEF Updated
  <2> QED BY <2>2, StutterStep DEF Unseen
<1>3. CASE Exists(p)
  <2>1. \A j \in Kinds \ {k} : Unseen(j)
    BY <1>1 DEF Unseen
  <2>2. CASE active[k] = p
    <3>1. change'[k] # "none"
      BY <1>1, <2>2 DEF TypeInv, TypeOK
    <3>2. tool' = [tool EXCEPT ![k] = None]
      BY <1>1, <2>1, <3>1, OneTool, UnsettledNext
    <3> QED BY <1>3, <2>2, <3>2 DEF Service!Next, Service!Edit, Updated, Exists
  <2>3. CASE active[k] # p
    <3>1. tool' = tool
      BY <2>3, UnseenTool DEF tool, Unseen
    <3> QED BY <1>3, <2>3, <3>1 DEF Service!Next, Service!Edit, Updated, Exists
  <2> QED BY <2>2, <2>3
<1> QED BY <1>2, <1>3

LEMMA UpdateSaveService ==
  ASSUME TypeInv, FilesInv, FilesInv', NEW w \in Workers, UpdateSave(w)
  PROVE  Service!Next \/ UNCHANGED Service!vars
<1>1. /\ req[w].pc = "save" /\ UNCHANGED <<active, disk>>
      /\ change' = IF active[Kind(w)] = req[w].id THEN [change EXCEPT ![Kind(w)] = "open"] ELSE change
  BY DEF UpdateSave, At, Kind
<1>2. req[w].id \in Providers /\ req[w].row \in Row
  BY <1>1, BusyRequest DEF TypeInv, RequestsOK, RowPcs
<1>3. PICK r \in FormRows(req[w].row) : rows' = Updated(req[w].id, r)
  BY DEF UpdateSave
<1>4. r \in Row
  BY <1>2, <1>3 DEF FormRows, Row
<1> QED BY <1>1, <1>2, <1>3, <1>4, SaveService DEF Kind

LEMMA ProbeSaveService ==
  ASSUME TypeInv, FilesInv, FilesInv', NEW w \in Workers, ProbeSaveModel(w)
  PROVE  Service!Next \/ UNCHANGED Service!vars
<1>1. /\ req[w].pc = "saveModel" /\ UNCHANGED <<active, disk>>
      /\ change' = IF active[Kind(w)] = req[w].id THEN [change EXCEPT ![Kind(w)] = "missed"] ELSE change
  BY DEF ProbeSaveModel, At, Kind
<1>2. req[w].id \in Providers /\ req[w].row \in Row
  BY <1>1, BusyRequest DEF TypeInv, RequestsOK, RowPcs
<1>3. PICK m \in Models \ {None} : rows' = Updated(req[w].id, WithModel(req[w].row, m))
  BY DEF ProbeSaveModel
<1>4. WithModel(req[w].row, m) \in Row
  BY <1>2, <1>3 DEF WithModel, Row
<1> QED BY <1>1, <1>2, <1>3, <1>4, SaveService DEF Kind

\* A provider that is about to be deleted is dismissed where it is chosen.
LEMMA DeleteLinkService ==
  ASSUME TypeInv, FilesInv, FilesInv', NEW w \in Workers, DeleteLink(w)
  PROVE  Service!Next \/ UNCHANGED Service!vars
<1> DEFINE k == Kind(w)  id == req[w].id
<1>1. /\ req[w].pc = "delLink" /\ UNCHANGED <<rows, disk, change>>
      /\ active' = [j \in Kinds |-> IF active[j] = id THEN None ELSE active[j]]
  BY DEF DeleteLink, At
<1>2. id \in Providers /\ k \in Kinds /\ id # None
  BY <1>1, BusyRequest, NoneIsNothing
<1>3. \A j \in Kinds \ {k} : active[j] # id
  BY <1>2 DEF FilesInv, RecordedInv, Recorded, Kind
<1>4. \A j \in Kinds : Unseen(j)
  BY <1>1 DEF Unseen
<1>5. CASE active[k] = id
  <2>1. active' = [active EXCEPT ![k] = None]
    BY <1>1, <1>3, <1>5 DEF TypeInv, TypeOK
  <2>2. tool' = tool
    BY <1>4, UnseenTool DEF tool
  <2> QED BY <1>1, <1>2, <2>1, <2>2 DEF Service!Next, Service!Dismiss
<1>6. CASE active[k] # id
  <2>1. active' = active
    BY <1>1, <1>3, <1>6 DEF TypeInv, TypeOK
  <2> QED BY <1>1, <1>4, <2>1, StutterStep
<1> QED BY <1>5, <1>6

LEMMA DeleteRowService ==
  ASSUME TypeInv, FilesInv, FilesInv', NEW w \in Workers, NEW fk, DeleteRow(w, fk)
  PROVE  Service!Next
<1> DEFINE k == Kind(w)  id == req[w].id
<1>1. /\ req[w].pc = "delRow" /\ UNCHANGED <<disk, change>>
      /\ rows' = [rows EXCEPT ![id] = Absent] /\ active' = CascadeActive(id, fk)
  BY DEF DeleteRow, At
<1>2. id \in Providers /\ k \in Kinds /\ id # None /\ active[k] # id
  BY <1>1, BusyRequest, NoneIsNothing, OwnFacts DEF Served
<1>3. \A j \in Kinds : active[j] # id
  BY <1>2 DEF FilesInv, RecordedInv, Recorded, Kind
<1>4. active' = active
  BY <1>1, <1>3 DEF CascadeActive, TypeInv, TypeOK
<1>5. \A j \in Kinds : Unseen(j)
  BY <1>1 DEF Unseen
<1>6. tool' = tool
  BY <1>5, UnseenTool DEF tool
<1>7. active' = [j \in Kinds |-> IF active[j] = id THEN None ELSE active[j]]
  BY <1>3, <1>4 DEF TypeInv, TypeOK
<1>8. Service!Remove(id)
  BY <1>1, <1>6, <1>7 DEF Service!Remove
<1> QED BY <1>2, <1>8 DEF Service!Next

LEMMA EditStepService ==
  ASSUME TypeInv, FilesInv, FilesInv', NEW w \in Workers, EditStep(w)
  PROVE  Service!Next \/ UNCHANGED Service!vars
<1>1. CASE UpdateRead(w) \/ HotReload(w) \/ ProbeReadModel(w)
  <2>1. UNCHANGED <<rows, active, disk, change>>
    BY <1>1 DEF UpdateRead, HotReload, ProbeReadModel
  <2> QED BY <2>1, StutterStep DEF Unseen
<1>2. CASE ReloadMissed(w)
  <2>1. UNCHANGED <<rows, active, disk>> /\ Ended({KindOf[req[w].id]}, "missed")
    BY <1>2 DEF ReloadMissed
  <2> QED BY <2>1, EndedUnseen, StutterStep DEF Unseen
<1> QED BY <1>1, <1>2, UpdateSaveService, ProbeSaveService, DeleteLinkService, DeleteRowService
        DEF EditStep

LEMMA ClientsService ==
  ASSUME TypeInv, FilesInv, FilesInv', Clients
  PROVE  Service!Next \/ UNCHANGED Service!vars
<1>1. ASSUME NEW p \in Providers, CreateProvider(p)
      PROVE  Service!Next
  <2>1. PICK source \in Offered, c \in Conns, m \in Models :
          rows' = [rows EXCEPT ![p] = NewRow(source, c, m)]
    BY <1>1 DEF CreateProvider
  <2>2. NewRow(source, c, m) \in Row
    BY OfferedType DEF NewRow, Row
  <2>3. Free(p) /\ UNCHANGED <<active, disk, change>>
    BY <1>1 DEF CreateProvider
  <2> QED BY <2>1, <2>2, <2>3, NewProvider
<1>2. CASE \/ \E w \in Workers, p \in Providers :
                ReceiveSwitch(w, p) \/ ReceiveUpdate(w, p) \/ ReceiveModel(w, p) \/ ReceiveDelete(w, p)
           \/ \E p \in Providers : LoginCompletes(p)
  <2>1. UNCHANGED <<rows, active, disk, change>>
    BY <1>2 DEF ReceiveSwitch, ReceiveUpdate, ReceiveModel, ReceiveDelete, Receive, LoginCompletes
  <2> QED BY <2>1, StutterStep DEF Unseen
<1> QED BY <1>1, <1>2 DEF Clients

LEMMA BootStepService ==
  ASSUME TypeInv, FilesInv, TypeInv', FilesInv', BootStep
  PROVE  Service!Next \/ UNCHANGED Service!vars
<1>1. CASE Start \/ ImportSkips \/ ImportRefused
  <2>1. UNCHANGED <<rows, active, disk, change>>
    BY <1>1 DEF Start, ImportSkips, ImportRefused
  <2> QED BY <2>1, StutterStep DEF Unseen
<1>2. ASSUME NEW p \in Providers, ImportSave(p)
      PROVE  Service!Next
  <2>1. /\ Free(p) /\ rows' = [rows EXCEPT ![p] = ImportedRow(boot.kind)]
        /\ UNCHANGED <<active, disk, change>>
    BY <1>2 DEF ImportSave
  <2>2. boot.kind \in Kinds
    BY DEF TypeInv, TypeOK
  <2>3. ImportedRow(boot.kind) \in Row
    BY <2>2 DEF ImportedRow, Row, Sources, TypeInv, TypeOK, PathType, Content, Files
  <2> QED BY <2>1, <2>3, NewProvider
<1>3. CASE ImportSetActive
  <2>1. /\ boot.pc = "mark" /\ UNCHANGED <<rows, disk>>
        /\ active' = [active EXCEPT ![boot.kind] = boot.id]
        /\ change' = [change EXCEPT ![boot.kind] = "none"]
    BY <1>3 DEF ImportSetActive
  <2>2. /\ boot.id \in Providers /\ KindOf[boot.id] = boot.kind /\ rows[boot.id] # Absent
        /\ InPlace(disk[boot.kind], boot.id, rows[boot.id])
    BY <2>1 DEF FilesInv, Marked, Exists, TypeInv, BootOK
  <2> QED BY <2>1, <2>2, ChooseStep
<1> QED BY <1>1, <1>2, <1>3 DEF BootStep

LEMMA CrashService ==
  ASSUME TypeInv, FilesInv, FilesInv', Crash
  PROVE  UNCHANGED Service!vars
<1> DEFINE shut(path) == [path EXCEPT !.fd = [w \in Workers |-> "closed"]]
<1>1. /\ UNCHANGED <<rows, active>> /\ Ended(Kinds, "cut")
      /\ disk' = [k \in Kinds |-> [f \in Files |-> shut(disk[k][f])]]
  BY DEF Crash, CutShort
<1>2. \A path \in PathType : shut(path).data = path.data
  BY DEF PathType
<1>3. \A k \in Kinds, f \in Files : disk[k][f] \in PathType
  BY DEF TypeInv, TypeOK
<1> HIDE DEF shut
<1>4. \A k \in Kinds : Unseen(k)
  BY <1>1, <1>2, <1>3, EndedUnseen DEF Unseen
<1> QED BY <1>1, <1>4, StutterStep

-----------------------------------------------------------------------------
LEMMA ServiceInit == Init => Service!Init
<1> SUFFICES ASSUME Init PROVE Service!Init
  OBVIOUS
<1>1. TypeInv /\ FilesInv
  BY InitTypeInv, InitFiles
<1>2. \A k \in Kinds : Settled(k)
  BY DEF Init, Settled
<1>3. \A k \in Kinds : ReadFrom(k, disk[k]) \in [Files -> Content]
  BY <1>1, UnwrittenContent DEF ReadFrom, TypeInv, TypeOK, PathType
<1>4. tool \in [Kinds -> [Files -> Content]]
  BY <1>2, <1>3 DEF tool
<1>5. /\ rows \in [Providers -> Row \cup {Absent}] /\ active \in [Kinds -> Providers \cup {None}]
      /\ \A k \in Kinds : active[k] = None
  BY <1>1 DEF Init, TypeInv, TypeOK
<1> QED BY <1>4, <1>5 DEF Service!Init, Service!ToolFollowsChoice

LEMMA ServiceStep ==
  TypeInv /\ FilesInv /\ TypeInv' /\ FilesInv' /\ [Next]_vars => [Service!Next]_Service!vars
<1> SUFFICES ASSUME TypeInv, FilesInv, TypeInv', FilesInv', [Next]_vars
             PROVE  Service!Next \/ UNCHANGED Service!vars
  OBVIOUS
<1>1. CASE UNCHANGED vars
  BY <1>1, StutterStep DEF vars, Unseen
<1>2. CASE Next
  BY <1>2, SwitchStepService, EditStepService, ClientsService, BootStepService, CrashService
     DEF Next, Serve
<1> QED BY <1>1, <1>2

\* ProviderSwitch implements SwitchService: while requests on one kind do not
\* overlap, everything the handlers, the file writes, failures, crashes and
\* restarts do looks from outside like a choice that takes effect in one step
\* (manager.go:98), whatever requests there are and whichever models are blank.
\* A provider says every model of ModelsOf, and a change answered as done but
\* not reloaded (server.go:382, server.go:595) leaves the tool unsettled.
THEOREM SwitchImplementsService ==
  ASSUME Overlap = FALSE
  PROVE  Spec => ImplementsService
<1>1. TypeInv /\ FilesInv /\ [Next]_vars => FilesInv'
  BY NextFiles
<1>2. TypeInv /\ FilesInv /\ TypeInv' /\ FilesInv' /\ [Next]_vars => [Service!Next]_Service!vars
  BY ServiceStep
<1> QED BY <1>1, <1>2, ServiceInit, InitFiles, InitTypeInv, NextTypeInv, PTL
        DEF Spec, ImplementsService, Service!Spec

\* A step of SwitchService keeps what it promises of a settled tool.
LEMMA ServiceKeeps ==
  ASSUME TypeInv, Service!ToolFollowsChoice, Service!Next
  PROVE  Service!ToolFollowsChoice'
<1> USE KindOfType DEF Service!ToolFollowsChoice
<1>1. /\ rows \in [Providers -> Row \cup {Absent}] /\ active \in [Kinds -> Providers \cup {None}]
      /\ Absent \notin Row /\ DOMAIN tool = Kinds
  BY RowExists DEF TypeInv, TypeOK, tool
<1>2. ASSUME NEW p \in Providers, NEW r \in Row, Service!Add(p, r)
      PROVE  Service!ToolFollowsChoice'
  BY <1>1, <1>2 DEF Service!Add
<1>3. ASSUME NEW p \in Providers, NEW r \in Row, Service!Edit(p, r)
      PROVE  Service!ToolFollowsChoice'
  <2>1. \A k \in Kinds : active[k] \notin {p, None} =>
          rows'[active[k]] = rows[active[k]] /\ tool'[k] = tool[k]
    <3>1. \A k \in Kinds : active[k] # p => tool'[k] = tool[k]
      BY <1>1, <1>3 DEF Service!Edit
    <3> QED BY <1>1, <1>3, <3>1 DEF Service!Edit
  <2>2. \A k \in Kinds : active[k] = p => rows'[p] = r /\ tool'[k] \in {None} \cup Says[p][r]
    <3> SUFFICES ASSUME NEW k \in Kinds, active[k] = p
                 PROVE  rows'[p] = r /\ tool'[k] \in {None} \cup Says[p][r]
      OBVIOUS
    <3>1. KindOf[p] = k /\ p # None BY NoneIsNothing
    <3>2. \E reads \in {None} \cup Says[p][r] : tool' = [tool EXCEPT ![k] = reads]
      BY <1>3, <3>1 DEF Service!Edit
    <3> QED BY <1>1, <1>3, <3>2 DEF Service!Edit
  <2> QED BY <1>1, <1>3, <2>1, <2>2 DEF Service!Edit
<1>4. ASSUME NEW p \in Providers, Service!Remove(p) PROVE Service!ToolFollowsChoice'
  BY <1>1, <1>4 DEF Service!Remove
<1>5. ASSUME NEW p \in Providers, Service!Choose(p) PROVE Service!ToolFollowsChoice'
  BY <1>1, <1>5 DEF Service!Choose
<1>6. ASSUME NEW k \in Kinds, Service!Dismiss(k) PROVE Service!ToolFollowsChoice'
  BY <1>1, <1>6 DEF Service!Dismiss
<1>7. ASSUME NEW K \in SUBSET Kinds, Service!Unsettle(K) PROVE Service!ToolFollowsChoice'
  BY <1>1, <1>7 DEF Service!Unsettle
<1> QED BY <1>2, <1>3, <1>4, <1>5, <1>6, <1>7 DEF Service!Next

\* What the refinement is worth: through all the steps of the handlers, failures, crashes
\* and restarts, the provider chosen for a tool is one of its own in the table, and the tool
\* reads one of the things that provider says now, or a change of the kind is under way,
\* failed, was interrupted or was answered as done without a reload
\* (manager.go:71-103, server.go:356-395).
THEOREM ToolAlwaysFollowsChoice ==
  ASSUME Overlap = FALSE
  PROVE  Spec => []Service!ToolFollowsChoice
<1>1. Service!Init => Service!ToolFollowsChoice
  BY DEF Service!Init
<1>2. TypeInv /\ Service!ToolFollowsChoice /\ [Service!Next]_Service!vars => Service!ToolFollowsChoice'
  BY ServiceKeeps DEF Service!vars, Service!ToolFollowsChoice
<1>3. Spec => []TypeInv
  BY InitTypeInv, NextTypeInv, PTL DEF Spec
<1> QED BY <1>1, <1>2, <1>3, SwitchImplementsService, PTL DEF ImplementsService, Service!Spec
=============================================================================
