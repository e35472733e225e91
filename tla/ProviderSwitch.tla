--------------------------- MODULE ProviderSwitch ---------------------------
(***************************************************************************)
(* The core of CCP-Switcher: the provider table, the "active provider" of  *)
(* each tool, and the configuration files of the tool that a switch        *)
(* rewrites.                                                               *)
(*                                                                         *)
(* The HTTP handlers run concurrently and without any lock; a handler is a *)
(* sequence of single SQL statements and single file writes, and the       *)
(* process may die between any two of them.  A worker is one request being *)
(* served; req[w] holds where it is (pc), the provider it serves (id) and  *)
(* the row it read (row).  At start-up the process imports what it finds   *)
(* in the tool's files (manager.ImportExistingConfigs) before it serves.   *)
(*                                                                         *)
(* Three files stand for the managed files of a kind:                      *)
(*   main  settings.json (claude)          config.toml (codex)             *)
(*   cred  .claude/.credentials.json       auth.json                       *)
(*   aux   .claude.json                    -                               *)
(***************************************************************************)
EXTENDS TempFile

CONSTANTS
  Providers,   \* row ids of the providers table
  KindOf,      \* the kind of each provider (SaveProvider never updates it)
  Conns,       \* base URLs, each with the key that belongs to it
  Models,      \* what the model field may hold; None in it is a blank field
  Workers,     \* requests that can be in flight at once
  Enforced,    \* PRAGMA foreign_keys on the connections the pool may hand out
  Ops,         \* the kinds of request the clients send
  Offered,     \* the sources of the providers the clients create
  Found,       \* what the user's own tools may have left before the first start
  Overlap,     \* whether two requests on one kind may be in flight at once
  Faults,      \* whether statements and file operations fail and the process dies
  None

Kinds == {"claude", "codex"}
Sources == {"gateway", "official"}
Files == {"main", "cred", "aux"}
Forms == {"none", "blank", "torn"} \cup Sources

ASSUME KindOfType == KindOf \in [Providers -> Kinds]
ASSUME EnforcedType == Enforced \subseteq BOOLEAN
ASSUME SwitchesType == Overlap \in BOOLEAN /\ Faults \in BOOLEAN
ASSUME OfferedType == Offered \subseteq Sources
ASSUME FoundType == Found \subseteq {"none"} \cup Sources
ASSUME NoneIsNothing == None \notin Providers \cup Conns \cup Sources

VARIABLES
  rows,      \* the providers table
  active,    \* the active_providers table
  disk,      \* the managed files of each kind, as TempFile paths
  home,      \* the private home of each official account: logged in, and the
             \* model its configuration names
  req,       \* the requests being served
  boot,      \* the start-up sequence
  change     \* history: the last change of a kind is complete ("none"), under
             \* way ("open"), was cut short by a reported failure or a crash
             \* ("cut"), or was answered as done but never reloaded ("missed")

vars == <<rows, active, disk, home, req, boot, change>>

-----------------------------------------------------------------------------
(* Rows and file contents. *)

Row == [source : Sources, url : Conns \cup {None}, key : Conns \cup {None},
        model : Models \cup {None}]
Absent == [source |-> None, url |-> None, key |-> None, model |-> None]

Content == [form : Forms, acct : Providers \cup {None}, url : Conns \cup {None},
            key : Conns \cup {None}, model : Models \cup {None}]
NoFile == Unwritten("none", None)
Blank  == Unwritten("blank", None)
Torn   == Unwritten("torn", None)

Home == [login : BOOLEAN, model : Models \cup {None}]
EmptyHome == [login |-> FALSE, model |-> None]

Exists(p) == rows[p] # Absent

\* A blank model is not declared: the file keeps the one it has.
Merged(declared, old) == IF declared = None THEN old ELSE declared

WithModel(r, m) == [r EXCEPT !.model = m]

\* What a switch to provider p with row r puts in file f.  A gateway of claude
\* keeps URL, key and model in settings.json, one of codex keeps the key in
\* auth.json; an official account is the copy of its private home.
Rendered(p, r, f) ==
  [form  |-> r.source,
   acct  |-> IF r.source = "official" /\ f # "main" THEN p ELSE None,
   url   |-> IF f = "main" THEN r.url ELSE None,
   key   |-> IF f = "cred" \/ KindOf[p] = "claude" THEN r.key ELSE None,
   model |-> IF f = "main" THEN r.model ELSE None]

\* The files a switch always writes.  .claude.json is copied when the private
\* home has one; a claude gateway touches settings.json only.
Targets(p, r) ==
  IF KindOf[p] = "claude" /\ r.source = "gateway" THEN {"main"} ELSE {"main", "cred"}

\* Content c says what want says.  A blank model leaves the file the one it
\* has, and an edit in place never adds a model to a file without one: the file
\* then names none, but it never names another model than a declared one.
SaysSame(c, want) ==
  /\ c.form = want.form /\ c.acct = want.acct /\ c.url = want.url /\ c.key = want.key
  /\ want.model # None => c.model \in {want.model, None}

\* The files of kind k are what a switch to p with row r leaves.
Applied(k, p, r) == \A f \in Targets(p, r) : SaysSame(disk[k][f].data, Rendered(p, r, f))

-----------------------------------------------------------------------------
(* Requests. *)

Idle == [pc |-> "idle", phase |-> "open", id |-> None, row |-> Absent]

Pcs == {"idle", "get", "backup", "private", "stat", "aux", "cred", "cred2", "main",
        "activate", "log", "read", "save", "reload", "readModel", "saveModel",
        "delLink", "delRow"}
WritePcs == {"aux", "cred", "cred2", "main"}
FileAt(pc) == IF pc = "cred2" THEN "cred" ELSE pc

Goto(w, pc) == req' = [req EXCEPT ![w].pc = pc, ![w].phase = "open"]
Finish(w) == req' = [req EXCEPT ![w] = Idle]
At(w, pc) == boot.pc = "up" /\ req[w].pc = pc
Busy(k) == \E w \in Workers : req[w].pc # "idle" /\ KindOf[req[w].id] = k

\* The changes under way in kinds K are over, and how.  A failure or a crash
\* cuts them short.
Ended(K, how) ==
  change' = [k \in Kinds |-> IF k \in K /\ change[k] = "open" THEN how ELSE change[k]]
CutShort(K) == Ended(K, "cut")

\* Ids are AUTOINCREMENT and never reused; the model hands an id out again
\* once nothing mentions it any more.
Free(p) ==
  /\ ~Exists(p)
  /\ \A k \in Kinds : active[k] # p
  /\ \A w \in Workers : req[w].id # p
  /\ boot.id # p
  /\ \A k \in Kinds, f \in Files : p \notin {disk[k][f].data.acct, disk[k][f].tmp.acct}

-----------------------------------------------------------------------------
(* SQL statements. *)

\* DeleteProvider, second statement, with the ON DELETE CASCADE of the link.
CascadeActive(p, fk) == [k \in Kinds |-> IF fk /\ active[k] = p THEN None ELSE active[k]]

\* SaveProvider with an id: an UPDATE that matches no row is not an error.
Updated(p, r) == IF Exists(p) THEN [rows EXCEPT ![p] = r] ELSE rows

-----------------------------------------------------------------------------
\* What the user's own tools left before the first start: nothing, a gateway
\* set up by hand, with or without a model, or the tool's own official login.
GivenFile(form, k, f, c, m) ==
  CASE form = "gateway" /\ f = "main" ->
         [form |-> "gateway", acct |-> None, url |-> c,
          key |-> IF k = "claude" THEN c ELSE None, model |-> m]
    [] form = "gateway" /\ f = "cred" /\ k = "codex" ->
         [form |-> "gateway", acct |-> None, url |-> None, key |-> c, model |-> None]
    [] form = "official" /\ f # "aux" -> Unwritten("official", None)
    [] OTHER -> NoFile

Init ==
  /\ rows = [p \in Providers |-> Absent]
  /\ active = [k \in Kinds |-> None]
  /\ \E given \in [Kinds -> Found], c \in Conns, m \in Models \cup {None} :
       disk = [k \in Kinds |-> [f \in Files |->
         [data |-> GivenFile(given[k], k, f, c, m),
          tmp  |-> NoFile,
          fd   |-> [w \in Workers |-> "closed"]]]]
  /\ home = [p \in Providers |-> EmptyHome]
  /\ req = [w \in Workers |-> Idle]
  /\ boot = [pc |-> "down", kind |-> "claude", id |-> None]
  /\ change = [k \in Kinds |-> "none"]


-----------------------------------------------------------------------------
(* Requests arriving. *)

\* A request for provider p enters at label pc.  With Overlap = FALSE the
\* clients leave a kind alone while a request on it is being served.
Receive(w, op, p, pc) ==
  /\ boot.pc = "up"
  /\ op \in Ops
  /\ req[w] = Idle
  /\ ~Overlap => \A v \in Workers : req[v].pc # "idle" => KindOf[req[v].id] # KindOf[p]
  /\ req' = [req EXCEPT ![w] = [Idle EXCEPT !.pc = pc, !.id = p]]
  /\ UNCHANGED <<rows, active, disk, home, boot, change>>

ReceiveSwitch(w, p) == Receive(w, "switch", p, "get")
ReceiveUpdate(w, p) == Receive(w, "update", p, "read")
ReceiveModel(w, p)  == Receive(w, "model", p, "readModel")
ReceiveDelete(w, p) == Receive(w, "delete", p, "delLink")

\* Mutant: the source is not defaulted when the form leaves it out.
NewRow_NoSource(source, c, m) == [source |-> None, url |-> c, key |-> c, model |-> m]

\* handleProviderCreate: one INSERT under a fresh id and a fresh UID, hence
\* an empty private home.
NewRow(source, c, m) ==
  [source |-> source, url |-> IF source = "gateway" THEN c ELSE None,
   key |-> IF source = "gateway" THEN c ELSE None, model |-> m]

CreateProvider(p) ==
  /\ boot.pc = "up"
  /\ "create" \in Ops
  /\ Free(p)
  /\ \E source \in Offered, c \in Conns, m \in Models :
       rows' = [rows EXCEPT ![p] = NewRow(source, c, m)]
  /\ home' = [home EXCEPT ![p] = EmptyHome]
  /\ UNCHANGED <<active, disk, req, boot, change>>

\* A browser login finished: the private home of p holds credentials.
LoginCompletes(p) ==
  /\ boot.pc = "up"
  /\ "login" \in Ops
  /\ rows[p].source = "official"
  /\ ~home[p].login
  /\ home' = [home EXCEPT ![p] = [login |-> TRUE, model |-> Merged(rows[p].model, home[p].model)]]
  /\ UNCHANGED <<rows, active, disk, req, boot, change>>

-----------------------------------------------------------------------------
(* Manager.SwitchProvider *)

GetProvider(w) ==
  /\ At(w, "get")
  /\ IF Exists(req[w].id)
     THEN req' = [req EXCEPT ![w].pc = "backup", ![w].row = rows[req[w].id]]
     ELSE Finish(w)
  /\ UNCHANGED <<rows, active, disk, home, boot, change>>

\* Mutant: an official account is applied without its credentials.
ApplyStart_NoCredentials(p, r) ==
  IF r.source = "official" \/ KindOf[p] = "claude" THEN "main" ELSE "cred"

\* The first label of applyClaudeProvider / applyCodexProvider.
ApplyStart(p, r) ==
  IF r.source = "official" THEN "private"
  ELSE IF KindOf[p] = "claude" THEN "main" ELSE "cred"

\* backupProviderFiles writes below the data directory only (see ConfigFiles).
BackupProviderFiles(w) ==
  /\ At(w, "backup")
  /\ Goto(w, ApplyStart(req[w].id, req[w].row))
  /\ UNCHANGED <<rows, active, disk, home, boot, change>>

\* The private configuration is written before anything is checked.
PrepareOfficial(w) ==
  /\ At(w, "private")
  /\ LET m == Merged(req[w].row.model, home[req[w].id].model)
     IN  /\ home' = [home EXCEPT ![req[w].id].model = m]
         /\ req' = [req EXCEPT ![w].pc = "stat", ![w].row = WithModel(req[w].row, m)]
  /\ UNCHANGED <<rows, active, disk, boot, change>>

\* The account's credentials must be there; a claude home may or may not hold
\* a .claude.json to copy.
CheckLogin(w) ==
  /\ At(w, "stat")
  /\ home[req[w].id].login
  /\ \E pc \in {"aux", "cred"} :
       /\ pc = "aux" => KindOf[req[w].id] = "claude"
       /\ Goto(w, pc)
  /\ UNCHANGED <<rows, active, disk, home, boot, change>>

\* Mutant: config.toml is left for later when auth.json was written.
NextFile_NoConfig(pc, r) == IF pc = "aux" THEN {"cred"} ELSE {"activate"}

\* The labels that may follow a file: a codex gateway whose config.toml cannot
\* be edited in place is seeded, which writes auth.json once more.
NextFile(pc, r) ==
  CASE pc = "aux"   -> {"cred"}
    [] pc = "cred"  -> IF r.source = "gateway" THEN {"cred2", "main"} ELSE {"main"}
    [] pc = "cred2" -> {"main"}
    [] OTHER        -> {"activate"}

\* The path worker w is writing, and its replacement.
Path(w) == disk[KindOf[req[w].id]][FileAt(req[w].pc)]
PutPath(w, path) == disk' = [disk EXCEPT ![KindOf[req[w].id]][FileAt(req[w].pc)] = path]

\* Mutant: an edit in place leaves the model alone.
EditedModels_Kept(w) ==
  {IF Path(w).data.form = "gateway" THEN Path(w).data.model ELSE req[w].row.model}

\* The models the main file of a gateway may end up with.  A claude file that
\* holds URL and key is edited in place, a codex one unless it lacks another
\* setting: that replaces a model but never adds one.
EditedModels(w) ==
  LET old    == Path(w).data
      merged == Merged(req[w].row.model, old.model)
      edited == IF old.model = None THEN None ELSE merged
  IN  IF old.form # "gateway" THEN {merged}
      ELSE IF KindOf[req[w].id] = "claude" THEN {edited} ELSE {edited, merged}

\* The new content is worked out from the file as it is, then opened for
\* writing; row now holds the model to be written.
OpenFile(w) ==
  /\ boot.pc = "up" /\ req[w].pc \in WritePcs /\ req[w].phase = "open"
  /\ PutPath(w, OpenTmp(Path(w), w, Blank))
  /\ \E m \in IF req[w].pc = "main" /\ req[w].row.source = "gateway"
              THEN EditedModels(w) ELSE {req[w].row.model} :
       req' = [req EXCEPT ![w].phase = "write", ![w].row = WithModel(req[w].row, m)]
  /\ UNCHANGED <<rows, active, home, boot, change>>

WriteFile(w) ==
  /\ boot.pc = "up" /\ req[w].pc \in WritePcs /\ req[w].phase = "write"
  /\ \E path \in WriteTmp(Path(w), w, Rendered(req[w].id, req[w].row, FileAt(req[w].pc)), Torn) :
       PutPath(w, path)
  /\ req' = [req EXCEPT ![w].phase = "rename"]
  /\ UNCHANGED <<rows, active, home, boot, change>>

RenameFile(w) ==
  /\ boot.pc = "up" /\ req[w].pc \in WritePcs /\ req[w].phase = "rename"
  /\ CanRename(Path(w))
  /\ PutPath(w, RenameTmp(Path(w), NoFile))
  /\ \E pc \in NextFile(req[w].pc, req[w].row) : Goto(w, pc)
  /\ change' = [change EXCEPT ![KindOf[req[w].id]] = "open"]
  /\ UNCHANGED <<rows, active, home, boot>>

\* SetActiveProvider: the upsert is refused when the provider is gone and the
\* connection enforces foreign keys.
SetActiveProvider(w, fk) ==
  /\ At(w, "activate")
  /\ Exists(req[w].id) \/ ~fk
  /\ active' = [active EXCEPT ![KindOf[req[w].id]] = req[w].id]
  /\ change' = [change EXCEPT ![KindOf[req[w].id]] = "none"]
  /\ Goto(w, "log")
  /\ UNCHANGED <<rows, disk, home, boot>>

\* The success entry, which nothing reads but the page that lists the log;
\* when it cannot be written the request reports an error although the switch
\* took effect.
AddSwitchLog(w) ==
  /\ At(w, "log")
  /\ Finish(w)
  /\ UNCHANGED <<rows, active, disk, home, boot, change>>

\* What no step of the switch can get past: an official account that is not
\* logged in, a temporary file another writer renamed away, a file to edit that
\* does not parse, a provider that was deleted meanwhile.
Blocked(w, fk) ==
  \/ req[w].pc = "stat" /\ ~home[req[w].id].login
  \/ req[w].pc \in WritePcs /\ req[w].phase = "rename" /\ ~CanRename(Path(w))
  \/ req[w].pc = "main" /\ req[w].phase = "open" /\ Path(w).data.form = "torn"
  \/ req[w].pc = "activate" /\ fk /\ ~Exists(req[w].id)

\* A statement or a file operation of the switch fails: the failure is logged,
\* best effort, and the request ends.  What was written stays.
SwitchFails(w, fk) ==
  /\ boot.pc = "up"
  /\ req[w].pc \in {"backup", "private", "stat", "activate"} \cup WritePcs
  /\ ~Faults => Blocked(w, fk)
  /\ disk' = [k \in Kinds |-> [f \in Files |-> CloseFd(disk[k][f], w)]]
  /\ CutShort({KindOf[req[w].id]})
  /\ Finish(w)
  /\ UNCHANGED <<rows, active, home, boot>>

\* A database error before the first change or in the last log entry: the
\* request reports it.
RequestFails(w) ==
  /\ Faults /\ boot.pc = "up"
  /\ req[w].pc \in {"get", "log", "read", "save", "readModel", "saveModel", "delLink", "delRow"}
  /\ CutShort({KindOf[req[w].id]})
  /\ Finish(w)
  /\ UNCHANGED <<rows, active, disk, home, boot>>

-----------------------------------------------------------------------------
(* handleProviderUpdate *)

UpdateRead(w) ==
  /\ At(w, "read")
  /\ IF Exists(req[w].id)
     THEN req' = [req EXCEPT ![w].pc = "save", ![w].row = rows[req[w].id]]
     ELSE Finish(w)
  /\ UNCHANGED <<rows, active, disk, home, boot, change>>

\* providerFromRequest: a blank key keeps the one that was read; an official
\* account has neither URL nor key.
FormRows(r) ==
  IF r.source = "official"
  THEN [source : {r.source}, url : {None}, key : {None}, model : Models]
  ELSE [source : {r.source}, url : Conns, key : Conns \cup {r.key}, model : Models]

UpdateSave(w) ==
  /\ At(w, "save")
  /\ \E r \in FormRows(req[w].row) : rows' = Updated(req[w].id, r)
  /\ change' = IF active[KindOf[req[w].id]] = req[w].id
               THEN [change EXCEPT ![KindOf[req[w].id]] = "open"] ELSE change
  /\ req' = [req EXCEPT ![w].pc = "reload", ![w].row = Absent]
  /\ UNCHANGED <<active, disk, home, boot>>

\* Mutant: an edit of the active provider is not reloaded.
HotReload_Never(w) ==
  /\ At(w, "reload")
  /\ Finish(w)
  /\ UNCHANGED <<rows, active, disk, home, boot, change>>

\* An active provider is switched to again, from the row as it is now.
HotReload(w) ==
  /\ At(w, "reload")
  /\ IF active[KindOf[req[w].id]] = req[w].id THEN Goto(w, "get") ELSE Finish(w)
  /\ UNCHANGED <<rows, active, disk, home, boot, change>>

\* The list of the active providers cannot be read: the handler ignores the
\* error, reloads nothing and answers that the provider was updated.
ReloadMissed(w) ==
  /\ Faults /\ At(w, "reload")
  /\ Ended({KindOf[req[w].id]}, "missed")
  /\ Finish(w)
  /\ UNCHANGED <<rows, active, disk, home, boot>>

-----------------------------------------------------------------------------
(* handleProbeSaveModel *)

ProbeReadModel(w) ==
  /\ At(w, "readModel")
  /\ IF Exists(req[w].id)
     THEN req' = [req EXCEPT ![w].pc = "saveModel", ![w].row = rows[req[w].id]]
     ELSE Finish(w)
  /\ UNCHANGED <<rows, active, disk, home, boot, change>>

\* The whole row is written back, never with a blank model; nothing is reloaded,
\* though the provider may be active.
ProbeSaveModel(w) ==
  /\ At(w, "saveModel")
  /\ \E m \in Models \ {None} : rows' = Updated(req[w].id, WithModel(req[w].row, m))
  /\ change' = IF active[KindOf[req[w].id]] = req[w].id
               THEN [change EXCEPT ![KindOf[req[w].id]] = "missed"] ELSE change
  /\ Finish(w)
  /\ UNCHANGED <<active, disk, home, boot>>

-----------------------------------------------------------------------------
(* Store.DeleteProvider: two statements, no transaction. *)

\* Mutant: the link is left to the cascade of the second statement.
DeleteLink_Cascaded(w) ==
  /\ At(w, "delLink")
  /\ Goto(w, "delRow")
  /\ UNCHANGED <<rows, active, disk, home, boot, change>>

DeleteLink(w) ==
  /\ At(w, "delLink")
  /\ active' = [k \in Kinds |-> IF active[k] = req[w].id THEN None ELSE active[k]]
  /\ Goto(w, "delRow")
  /\ UNCHANGED <<rows, disk, home, boot, change>>

DeleteRow(w, fk) ==
  /\ At(w, "delRow")
  /\ rows' = [rows EXCEPT ![req[w].id] = Absent]
  /\ active' = CascadeActive(req[w].id, fk)
  /\ Finish(w)
  /\ UNCHANGED <<disk, home, boot, change>>

-----------------------------------------------------------------------------
(* The process: crash, restart by systemd, import of what is there. *)

Crash ==
  /\ Faults /\ boot.pc # "down"
  /\ boot' = [pc |-> "down", kind |-> "claude", id |-> None]
  /\ req' = [w \in Workers |-> Idle]
  /\ disk' = [k \in Kinds |-> [f \in Files |->
       [disk[k][f] EXCEPT !.fd = [w \in Workers |-> "closed"]]]]
  /\ CutShort(Kinds)
  /\ UNCHANGED <<rows, active, home>>

Start ==
  /\ boot.pc = "down"
  /\ boot' = [boot EXCEPT !.pc = "scan"]
  /\ UNCHANGED <<rows, active, disk, home, req, change>>

AfterImport(k) ==
  IF k = "claude" THEN [pc |-> "scan", kind |-> "codex", id |-> None]
  ELSE [pc |-> "up", kind |-> "claude", id |-> None]

HasRows(k) == \E p \in Providers : KindOf[p] = k /\ Exists(p)

\* readClaudeProvider / readCodexProvider.  An auth.json that is not a flat
\* map of strings (the official login, a damaged file) is a parse error.
Unreadable(k) ==
  LET main == disk[k]["main"].data
      cred == disk[k]["cred"].data
  IN  IF k = "claude" THEN main.form \in {"blank", "torn"}
      ELSE \/ cred.form \in {"blank", "torn", "official"}
           \/ cred.form = "gateway" /\ main.form = "torn"
Importable(k) ==
  /\ disk[k]["main"].data.form = "gateway"
  /\ k = "codex" => disk[k]["cred"].data.form = "gateway"
ImportedRow(k) ==
  [source |-> "gateway",
   url    |-> disk[k]["main"].data.url,
   key    |-> disk[k][IF k = "claude" THEN "main" ELSE "cred"].data.key,
   model  |-> disk[k]["main"].data.model]

ImportSkips ==
  /\ boot.pc = "scan"
  /\ HasRows(boot.kind) \/ ~(Unreadable(boot.kind) \/ Importable(boot.kind))
  /\ boot' = AfterImport(boot.kind)
  /\ UNCHANGED <<rows, active, disk, home, req, change>>

\* log.Fatalf: the process exits and systemd starts it again.
ImportRefused ==
  /\ boot.pc = "scan"
  /\ ~HasRows(boot.kind) /\ Unreadable(boot.kind)
  /\ boot' = [pc |-> "down", kind |-> "claude", id |-> None]
  /\ UNCHANGED <<rows, active, disk, home, req, change>>

ImportSave(p) ==
  /\ boot.pc = "scan"
  /\ ~HasRows(boot.kind) /\ Importable(boot.kind) /\ ~Unreadable(boot.kind)
  /\ KindOf[p] = boot.kind /\ Free(p)
  /\ rows' = [rows EXCEPT ![p] = ImportedRow(boot.kind)]
  /\ home' = [home EXCEPT ![p] = EmptyHome]
  /\ boot' = [boot EXCEPT !.pc = "mark", !.id = p]
  /\ UNCHANGED <<active, disk, req, change>>

ImportSetActive ==
  /\ boot.pc = "mark"
  /\ active' = [active EXCEPT ![boot.kind] = boot.id]
  /\ boot' = AfterImport(boot.kind)
  /\ change' = [change EXCEPT ![boot.kind] = "none"]
  /\ UNCHANGED <<rows, disk, home, req>>

-----------------------------------------------------------------------------
SwitchStep(w) ==
  \/ GetProvider(w)
  \/ BackupProviderFiles(w)
  \/ PrepareOfficial(w)
  \/ CheckLogin(w)
  \/ OpenFile(w)
  \/ WriteFile(w)
  \/ RenameFile(w)
  \/ \E fk \in Enforced : SetActiveProvider(w, fk)
  \/ AddSwitchLog(w)
  \/ \E fk \in Enforced : SwitchFails(w, fk)
  \/ RequestFails(w)

EditStep(w) ==
  \/ UpdateRead(w)
  \/ UpdateSave(w)
  \/ HotReload(w)
  \/ ReloadMissed(w)
  \/ ProbeReadModel(w)
  \/ ProbeSaveModel(w)
  \/ DeleteLink(w)
  \/ \E fk \in Enforced : DeleteRow(w, fk)

Serve(w) == SwitchStep(w) \/ EditStep(w)

BootStep ==
  \/ Start
  \/ ImportSkips
  \/ ImportRefused
  \/ \E p \in Providers : ImportSave(p)
  \/ ImportSetActive

Clients ==
  \/ \E w \in Workers, p \in Providers :
       \/ ReceiveSwitch(w, p)
       \/ ReceiveUpdate(w, p)
       \/ ReceiveModel(w, p)
       \/ ReceiveDelete(w, p)
  \/ \E p \in Providers : CreateProvider(p)
  \/ \E p \in Providers : LoginCompletes(p)

Next ==
  \/ \E w \in Workers : Serve(w)
  \/ Clients
  \/ BootStep
  \/ Crash

Spec == Init /\ [][Next]_vars

-----------------------------------------------------------------------------
(* Properties. *)

\* Every variable stays in its domain.
PathType == [data : Content, tmp : Content, fd : [Workers -> {"closed", "tmp", "data", "gone"}]]
RequestType == [pc : Pcs, phase : {"open", "write", "rename"},
                id : Providers \cup {None}, row : Row \cup {Absent}]
TypeOK ==
  /\ rows \in [Providers -> Row \cup {Absent}]
  /\ active \in [Kinds -> Providers \cup {None}]
  /\ disk \in [Kinds -> [Files -> PathType]]
  /\ home \in [Providers -> Home]
  /\ req \in [Workers -> RequestType]
  /\ boot \in [pc : {"down", "scan", "mark", "up"}, kind : Kinds, id : Providers \cup {None}]
  /\ change \in [Kinds -> {"none", "open", "cut", "missed"}]

\* The provider shown as active exists: DeleteProvider (store.go:313) clears the
\* link in a statement of its own before it deletes the row, since a pooled
\* connection need not enforce the schema's ON DELETE CASCADE.
NoDanglingActive == \A k \in Kinds : active[k] # None => Exists(active[k])

\* The tool reads what the provider shown as active says, except while a change
\* of the kind is under way, after one that was cut short by a reported failure
\* or a crash, and after one that the program answered as done without reloading
\* the tool: the list of active providers could not be read (server.go:382), or a
\* probe saved the model (server.go:595).  Switches, edits with hot reload,
\* deletions, failures before the first file and imports at start-up leave the
\* database and the tool's files telling one story; of the model it says no more
\* than SaysSame.  A request that ended without a failure leaves nothing under way.
Settled(k) == change[k] = "none" \/ (change[k] = "open" /\ ~Busy(k))
AppliedMatchesActive ==
  \A k \in Kinds :
    Settled(k) /\ active[k] # None => Applied(k, active[k], rows[active[k]])

\* The file a reader sees is always one whole content: a crash or a failure
\* inside writeAtomic never publishes a truncated or a mixed file.
PublishedWhole ==
  \A k \in Kinds, f \in Files : disk[k][f].data.form \notin {"blank", "torn"}

\* The active provider changes to p only once every file of p is in place, as
\* the row of p says at that moment; an import adopts what is in place already.
ActivationFollowsFiles ==
  [][\A k \in Kinds :
       active'[k] \notin {active[k], None} =>
         Applied(k, active'[k], rows[active'[k]]) /\ disk' = disk]_vars

\* A restart is never refused by what the tools' files hold.
StartNotRefused == [][~ImportRefused]_vars
=============================================================================
