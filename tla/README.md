# CCP-Switcher: specification, model checking and proofs

CCP-Switcher is a Go web service that keeps a table of *providers* (an API
gateway with URL, key and model, or an official account) for two coding tools,
Claude Code and Codex, and switches a tool to a provider by rewriting the tool's
own configuration files.  This directory holds TLA+ modules for it, the TLC
configurations that check them on small instances, and proofs checked by TLAPS.
`PROJECT.json` says for every definition which source lines it stands for.

    tlc -workers 2 -config SwitchCodex.cfg MCProviderSwitch.tla
    tlapm ProviderSwitchFiles.tla

## Inventory

| Component | State | Operations | Who calls it |
|---|---|---|---|
| Provider store (`internal/store`) | SQLite tables `providers`, `active_providers`, `switch_logs`, `app_settings` | one SQL statement each; no transactions, except for the uid migration | everything |
| Runtime manager (`internal/runtime`) | the tools' files, backups, a private home per official account; no lock | `SwitchProvider`, `ImportExistingConfigs`, probes | provider handlers, imports, start-up |
| Provider handlers (`internal/web/server.go`) | none | create, update (with hot reload), delete, switch, save a probed model | browsers, scripts; in parallel |
| Official logins (`*_official_login.go`) | per tool: a map of sessions, the active id, a mutex; per session: status, URL, a lock, a child process, three goroutines | start, complete, cancel, status | browsers |
| Import, export, backup file (`provider_transfer.go`, `backup_transfer.go`) | none of its own | import record by record, then switch to what was active | browsers, cloud pull |
| Cloud sync (`sync_handler.go`, `internal/sync`) | nine settings, a status, a ticker goroutine and its stop channel | save, push, pull, auto push | browsers, ticker |
| Credentials and sessions (`secrets.go`, `session.go`, bootstrap in `store.go`) | master key, two hashes, a file with the first credentials, session table in memory | bootstrap, log in and out, new password, new token | start-up, browsers |
| Settings, TLS, update (`server.go`, `tls.go`, `update.go`, `install.sh`) | settings, systemd unit, repository, binary | change the address, switch TLS, update; each rewrites or rebuilds and restarts | browsers |
| Start-up (`cmd/ai-webui`) | - | store, bootstrap, import, auto sync, listen; any error exits and systemd starts again | systemd |

What makes it hard: handlers run in parallel without a lock around a switch; a
switch is five to eight separate file operations and statements, each of which may fail
and between which the process may die; every writer of a file uses the same
temporary path; foreign keys hold on some database connections only; logins
combine two locks, a child process, goroutines, time limits and an id that is
reused by the next login of the account; the program rewrites its own unit file,
rebuilds and restarts itself, in steps that may each be the last.

What each component must keep, beyond its types:

* switch: the files say what the active provider says; no torn file; a provider
  becomes active only after its files are in place;
* store: the provider shown as active exists;
* import at start-up: does not refuse to start (it does: `StartUp`); adopts only what is in place;
* logins: one at a time (with two exceptions, below), each one reachable by a cancel, the bar it puts on other
  accounts always lifted, every request answered;
* backups: what a switch replaces is in the directory it reports;
* merging: every declared field is written, nothing else changes, and applying a
  provider twice is applying it once;
* sync: every loop can be stopped and stops; with auto-sync on the database is
  pushed again and again, with it off it is not;
* transfer: an export can be imported; after an import the tool's files are what
  the rows say; no record is lost;
* bootstrap: stored secrets stay readable; whoever can read the first credentials
  can get in;
* settings and update: the address and the version on the page are the ones in
  force; whatever stops the program, it comes back.

## Modules

| Module | Models | Extends |
|---|---|---|
| `TempFile` | one path written through `writeAtomic` by several writers | - |
| `ProviderSwitch` | store, switch, handlers, import, crash and restart | `TempFile` |
| `MCProviderSwitch` | instances of it | `ProviderSwitch` |
| `ProviderSwitchProofs` | proofs: types | `ProviderSwitch` |
| `ProviderSwitchFiles` | proofs: files, active links | `ProviderSwitchProofs` |
| `SwitchService` | what the service promises: a table, a choice and a tool that change together | - |
| `SwitchRefinement` | the refinement mapping | `ProviderSwitch`, instance of `SwitchService` |
| `SwitchServiceProofs` | proofs: the refinement, and what it gives | `SwitchRefinement`, `ProviderSwitchFiles` |
| `ConfigMerge` | the content of a configuration file after a provider was applied | - |
| `ConfigFiles` | backups and rewriting of one tool's files, beside the tool | `ConfigMerge` |
| `MCConfigFiles` | instances of it | `ConfigFiles` |
| `ConfigFilesProofs` | proofs: types, backups, the user's part of a file, the provider in force, applying twice | `ConfigFiles` |
| `OfficialLogin` | browser logins of either tool | - |
| `MCOfficialLogin` | instances of it | `OfficialLogin` |
| `LoginHistory` | what of a cancelled login still goes on, as a history variable | `OfficialLogin` |
| `MCLoginHistory` | an instance of it | `LoginHistory` |
| `OfficialLoginProofs` | proofs: types, the bar on other accounts, logins can be cancelled, locks, when two logins run | `LoginHistory` |
| `CloudSync` | sync settings, restarts of the background loop, the loop | - |
| `MCCloudSync` | an instance of it | `CloudSync` |
| `CloudSyncProofs` | proofs: types, no loop escapes | `CloudSync` |
| `ProviderImport` | export and import of the providers | - |
| `ImportRefinement` | the refinement mapping to `SwitchService` | `ProviderImport`, instance of `SwitchService` |
| `MCProviderImport` | instances of it | `ImportRefinement` |
| `ProviderImportProofs` | proofs: types, references of exports, what an import leaves, the refinement | `ImportRefinement` |
| `Bootstrap` | start-up, master key, credentials, sessions | - |
| `Host` | systemd, the unit file, changes of the address, updates; composed with `Bootstrap` | `Bootstrap` |
| `MCHost` | an instance of it | `Host` |
| `HostProofs` | proofs: types, secrets, the way in, address, version | `Host` |

### TempFile

`writeAtomic` opens `<path>.tmp`, writes it and renames it.  A path is a record of
what readers see (`data`), what the temporary path holds (`tmp`) and where each
writer's descriptor points (`fd`).  Descriptors follow the inode: after another
writer's rename a descriptor that pointed to the temporary file points to the
published one.  Bytes written over another writer's content give either the new
content or a torn one.

### ProviderSwitch

`rows` and `active` are the two tables, `disk` the managed files of the
two tools, `home` the private homes of the official accounts.  `req[w]` is one request: `pc` is the
statement or file operation it is about to do, `row` what `GetProvider` read.  `boot` is
the start-up sequence.  `change` is history: whether the last change of a tool
is complete (`"none"`), under way (`"open"`), was cut short by a failure the request reported or by a
crash (`"cut"`), or was answered as done without the tool being reloaded (`"missed"`).

| Code | Actions |
|---|---|
| `SwitchProvider` | `GetProvider`, `BackupProviderFiles`, `PrepareOfficial`, `CheckLogin`, per file `OpenFile`, `WriteFile`, `RenameFile`, then `SetActiveProvider`, `AddSwitchLog`; every error return is `SwitchFails` |
| `handleProviderUpdate` | `UpdateRead`, `UpdateSave`, `HotReload`, which goes on as a switch; `ReloadMissed`: the error that the handler ignores |
| `handleProbeSaveModel` | `ProbeReadModel`, `ProbeSaveModel` |
| `DeleteProvider` | `DeleteLink`, `DeleteRow` |
| `handleProviderCreate` | `CreateProvider` |
| `ImportExistingConfigs` | `ImportSkips`, `ImportRefused`, `ImportSave`, `ImportSetActive`, for claude and then codex |
| the process | `Start`, `Crash` |

Abstractions.  A URL and its key are one model value each, a model name is a value
or absent; the other declared fields of a row are `ConfigMerge`'s, and the inside of
a backup is `ConfigFiles`'.  `None` among the `Models` is a blank field of a form; a file that a user has set
up by hand, and the row imported from it, may be without a model whatever `Models` is.  A gateway file
that is edited in place keeps a missing model missing (`EditedModels`), so what `AppliedMatchesActive` and the
refinement say of the model is this (`SaysSame`, `ModelsOf`): a declared model is in the file or the file names none; of a
blank one they say nothing.  The entries of the switch log are left out, for only a page that lists them reads
them; the step that writes one, and its failure, are there.  A codex gateway whose
`config.toml` cannot be edited writes `auth.json` once more; whether that happens
depends on the other fields and is nondeterministic.  A torn or
damaged file may be refused or replaced.  Writing the private home is one
step.  Ids of deleted providers are handed out again once nothing mentions them.
`Overlap`, `Ops`, `Offered`, `Found`, `Enforced` and `Faults` say what clients, disks
and connections do in an instance.

### SwitchService, SwitchRefinement and ImportRefinement

`SwitchService` has three variables and no trace of how a switch works: `table`, `chosen`
(a provider per kind) and `tool`, what the tool reads.  `Choose` changes choice and tool
in one step.  Its one concession is a tool that is *unsettled*: from the first file that a switch replaces,
or from an edit of the chosen provider, until a switch is completed.  What a provider says is a set of
readings (`Says`), since a row need not determine the model.  `SwitchRefinement`
maps `rows`, `active` and the files a tool looks at to it: a claude tool with a gateway
does not look at its credentials, and a tool is unsettled while a change is under
way, was cut short or was missed (`Settled`).  `SetActiveProvider` and `ImportSetActive` are then `Choose`, every other
step is a stutter or one of the small actions.

`ImportRefinement` maps `ProviderImport` to the same service.  A record that is saved is
`Add` or `Edit`, each switch of the import `Choose`; a tool is unsettled after a failure that was
reported, and from the record saved over its active provider to the switch that reloads
it (`ReloadDue`).  So the one switch of `ProviderImport` is the one that `ProviderSwitch` takes its
many steps for: both stand for `Choose`.

### ConfigMerge and ConfigFiles

A configuration file is a record of groups of fields (`Doc`), one field for those that the code
always treats alike; the user's own fields are `native`.  The functions follow
`manager.go`: whether the text can be edited in place (`SupportsEdit`, `CanEdit`), the edit (`Edited`),
the document parsed, completed and written anew (`Seeded`), the file in the private home
of an account (`Prepared`), and the two ways of `auth.json` (`EditedAuth`, `KeyOnly`).  The edit is that of the code,
with what is peculiar to it: a field that has no line is not added, the pattern for a JSON field matches at any
depth (`nested`), a `$` in the new value is a template (`Expanded`).

`ConfigFiles` runs them: `disk` are the tool's files, `home` the private homes, `made` and `dirs` the
backup directories, `req` the switches.  `intact` is history: the files that nobody but
this switch has written since it began, nor another switch of the same second its copy
in the same directory; `applied` is the provider whose switch, served alone, was the last.

| Code | Actions |
|---|---|
| `backupProviderFiles` | `Receive`, per file `ReadCurrent`, then `ReuseDir` or `MakeDir` and per file `Copy` |
| `applyClaudeProvider`, `applyCodexProvider` | `ApplyGateway`, `Edit`, `Seed`, `ApplyOfficial`, per file `Write`, then `Finish`; every error return is `Fail` |
| the process | `Crash` |
| the tool and its user (external) | `ForeignWrite` |

A directory is named by the second, and the clock may have been set, so `MakeDir` takes
any second.  Writing a file is one step: the inside of it is `TempFile`'s.

### OfficialLogin

`sessions` and `activeId` are the server's map and active id, `obj` the session
objects with the state of the child process, of the waiting goroutine and of an
output line on its way, `req` the requests.  A lock is represented by the label of
the only step that holds it while it can block: `"check"` for `loginMu`, waiter
`"clearing"` for a session's lock.  Time limits may run out at any moment.  The child
process is external: it may print the URL, end well or badly, at any time, and it
dies when it is killed.  Preparing the private home before a login starts is left to
`ProviderSwitch`; whether credentials are found is nondeterministic.
`gone` are the ids whose row has been deleted: the login of a deleted account goes on
(`DeleteAccount`), and requests for it end at the row lookup, a cancel among them.  The
database uses no id twice; an id of which nothing is left is reused for a new account (`Forgotten`,
`CreateAccount`), so accounts come and go without end.
With `Overlap = FALSE` one request is served at a time and a start is sent only
when the page, rendered at that moment, offers it (`CanStartLogin`).

`LoginHistory` adds one history variable, `outlived`, to every step: the accounts of which a session was forgotten
before its goroutine was over - a cancellation waits three seconds and goes on - and which
have had a login going on ever since.  The goroutine of such a session clears the active id by account when its
process ends, and so takes down the bar that the account's next login has put up.

### CloudSync

`settings` are the two rows of `app_settings` that the loop branches on, at first whatever an earlier run has
left; the type is one there is a backend for, none, or one the program does not know, for nothing looks at
it when it is saved.  `stop` is the
field `s.syncStop`, `open` the channels that are not closed, `loops` the goroutines that run
`autoSyncLoop`, `req` the requests that save settings.  `broken` is history: since the last
start of a loop a statement that saves the settings, or one by which a loop reads
them, has failed.

| Code | Actions |
|---|---|
| `handleSyncSave`, `-Test`, `-Push`, `-Pull`, the settings of `importFullBackup` | `Submit`; per setting `SaveField` or `SaveFails`; then |
| `restartAutoSync` | `ReadStop`, `CloseStop` (a second close panics and ends the request), `MakeStop` |
| `autoSyncLoop` | `Bind` (the goroutine reads the field when it first runs), `ReadType`, `ReadAuto`, `StopsWaiting` or `Wakes`, `ReadType`, `ReadAuto`, `Export`, `Push`; `NoBackend` (goes round again), `LoadFails`, `ExportFails` |
| the process | `Restart` |

`s.syncStop` is read and written without a lock, which the Go memory model calls a
race.  A goroutine sees the write that its own request made before the `go`
statement or a later one, and requests are ordered by the mutex of the `database/sql` pool
that each takes between its predecessor's write and its own read; older values are therefore
not among the outcomes, and reads and writes of the field are steps that see the
latest value.  A channel nothing refers to any more is reused, so restarts are
unbounded.

### ProviderImport

`rows`, `active` are the tables, `files` whose content the tool has, `file` the last
export (a downloaded file or the remote one), `listed` an export between its two
statements, `req` the import.  `cut` is history: the last switch of a kind failed, or an
import failed since.  Providers are known by their uid; a name stands for name and
source, `val` for all that a switch writes.  A switch is one step here: its inside is
`ProviderSwitch`'s.

| Code | Actions |
|---|---|
| `exportFullBackupJSON`, `handleProvidersExport` | `ListForExport`, `FinishExport` |
| `importProviderTransfer` | `Start` (if `Valid`), per record `SaveRecord`, `AllSaved`, `Resolve`, per kind `Apply`, `Applied`, `Finish`; every error return is `Abort` |
| the provider handlers | `Create`, `Edit`, `Delete`, `Switch` |

Every table with its active providers in place, and every export of any table, is an
initial state: the file may come from another machine, which shares uids with this one
through an earlier import.  The user does one thing at a time; only the export of the
sync loop runs beside it.

### Bootstrap and Host

`Bootstrap` has the start of the program step by step and the secrets its first start
makes: `key` (none, torn or a key), `sealed` (the keys under which secrets are stored), `hash`
(whose password and token are in force), `creds` (the file for the user), `proc` (the process and what this
start has made), `session`.  `lost` is history: credentials were stored that nobody was told.

| Code | Actions |
|---|---|
| `EnsureMasterKey` | `ReadKey`, `CreateKey`, `FillKey` |
| `EnsureBootstrapCredentials` | `ReadRows`, `StorePassword`, `StoreToken`, `CreateFile`, `FillFile` |
| login, logout, password and token handlers | `Login`, `SessionEnds`, `UpdatePassword`, `RotateAPIToken` |
| storing a provider | `SaveProvider` |

`Host` is what is around it.  The address the program listens at goes from the setting
(`row`) to the unit file (`unit`), to systemd (`loaded`) and to the process (`addr`); a version from
the origin (`remote`) to the repository, the binary and the process.  `task` are the
changes and updates in progress: requests end with the process, updates do not.  `mixed` and `stale` are
history: changes of the address have overlapped or were cut short; an update has failed.  `refused` says
whether the import of existing configurations, which `ProviderSwitch` has step by step, would refuse the tools'
files as they are: the tools and their users change it at any time (`ToolsChange`).

| Code | Actions |
|---|---|
| systemd (external), `main` | `Exec`, the start of `Bootstrap`, `Import`, `Listen`, `Crash`, `StartFails` |
| the settings handlers | `ChangeAddress`: `SaveAddress`, `ReadUnit`, `CreateUnit`, `FillUnit`, `Reload`, `Restart`; `ChangeTLS`: `Reload`, `Restart`; `RestartRefused` when the unit file was loaded empty |
| `handleSelfUpdate` and `install.sh` | `SelfUpdate`: `Checkout`, `Build`, `CreateUnit`, `FillUnit`, `Reload`, `Restart` |
| any error | `TaskFails`: `install.sh` stops there, `restartService` goes on from a failed reload to the restart |

`Usable` are the addresses for which nothing competes.  Any other the process gets or does not get at each start
(`Listen`): another program may hold it, and with TLS on the process itself tries for the ports 80 and 443.

## Runs

| Run | Result | What it shows |
|---|---|---|
| `SwitchCodex` | pass | two codex gateways, all requests, one at a time, rows and files with and without a model; every failure, reported or not, crash and restart: types, `AppliedMatchesActive`, `PublishedWhole`, `ActivationFollowsFiles`, and `ImplementsService`: all of it implements `SwitchService` |
| `SwitchClaude` | pass | two claude providers, gateways and accounts, the same requests and faults, foreign keys on any connection or on none, refused starts: `AppliedMatchesActive`, `NoDanglingActive` |
| `SwitchPool` | violation | a connection without foreign keys: a deleted provider stays active |
| `StartUp` | violation | an official login in `auth.json` stops the service from starting |
| `ConfigFiles` | pass | a rich gateway and an account, on either tool: `BackupsHold`, `AppliedInForce`, `NativeKept`, `ReapplyStable` while switches overlap (claude), the tool writes (codex), anything fails and the clock is set |
| `DeclaredFields` | violation | the edit in place leaves the last provider's switches and never adds a field |
| `Login` | pass | accounts come and go: `BarIsLifted`, `Cancellable`, `LocksNotCrossed`, `AloneUnlessOutlived`, and under fairness `RequestsAnswered`, `BarFalls` |
| `LoginOverlap` | violation | two starts overlap: two logins at once |
| `LoginLock` | violation | two locks taken in opposite order: requests are never answered |
| `Sync` | pass | two requests, two loops, two channels, failures, restarts: `NoLoopEscapes`, and under fairness `StoppedLoopsEnd`, `AutoSyncKeepsPushing`, `DisabledMeansSilent` |
| `Import` | pass | three providers of one kind, any table, any file, failures: `ReferencesResolve`, `ActiveApplied`, `RestoreIsFaithful`, and `ImportKeepsService`: all of it implements `SwitchService` |
| `Host` | pass | from the first start on: `SecretsReadable`, `WayIn`, `AddressAgrees`, `VersionTold`, and under fairness `UpdateTakesHold`, `ServesAgain` |

Bounds.  Two providers of one kind suffice for a switch to and from, a deletion of
the active one, and an edit of one while the other is active; the kinds share no
file and no link, so each has a run (codex with the gateways, two connections and blank models, claude with the
accounts too; that a codex account obeys the same is left to the theorems, which have no bounds).  Two connections distinguish the old content of a
file from the new one, and the key in one file from the URL in another; two models a file that was not rewritten.  In the runs without overlap one worker suffices, since a
second request on the kind waits for the first; two workers give every pairwise
interleaving.  Ids and session objects are reused, so no run is bounded in
its length.  Two accounts and two session objects give the bar on the other account
and an old session beside a new one.  In `Sync` two requests are the least that
can close one channel twice; two loops and two channels are the old one and its
successor, and a third loop would start only while both still run (`MakeStop` waits
for one to end; no channel is open at that moment, so the fairness of the loops
ends it).  In `Import` three providers are the least with two candidates
of one name beside a record of another uid; `MaxEdits = 1` is one request
between the two statements of an export or before an import, and since every table and
every file is an initial state, a longer history before the export adds nothing.
In `ConfigFiles` two workers and two seconds give two switches of one second, of
two, and of a clock that was set back; overlapping switches are run for claude and a busy tool for codex,
and the theorems cover both for both.  No key has a `$` in the run: the theorems
have any template.  The start files are none, the user's own, another gateway's, and
one that cannot be parsed.  `Host` starts with users that change the secrets or users that change the
service (`Interests`), since the two share only the process; one request and one update at a
time give every pair of them, and two versions an old and a new one.  One of the two addresses is one the program
may not get.  (The safety properties also held with two updates at a time.)

Fairness.  In `OfficialLogin` request and session goroutines are
scheduled and their timers fire (one weak fairness each), and a killed process
dies.  Nothing is assumed of clients or of a login process that was not killed.
In `CloudSync` requests that save settings and loops
are scheduled (weak fairness each): statements return, the timer of the wait
fires, a push ends within its limit of 30 s.  `AutoSyncKeepsPushing` and `DisabledMeansSilent` speak of
runs in which from some moment on only loops take steps and no statement fails; nothing is assumed of
what came before.
In `Host` systemd starts a service whose process has ended (`Restart=always` in the unit file) and the
steps of the program, of a request and of `install.sh` are taken (statements and commands return);
users and the origin owe nothing, and nothing is assumed of failures but, in `ServesAgain`,
that from some moment on there are none and that nobody sets up a tool while the program is down (`Calm`).
`BarFalls` says that the bar falls once the process has ended: it needs the goroutines
only, no request, for after the deletion of the account nobody can send one.
`ProviderSwitch`, `ConfigFiles` and `ProviderImport` have safety properties only.

### What the properties except, and why

Each exception is a place where the code does something a user would not want; the
property is stated for everything else, and the case is in the model.

`AppliedMatchesActive` and `ImplementsService` say nothing of a tool while a change of it is under way, and, until the next
switch of it, after three things: a change that was cut short by an error the request reports or by a crash; an edit
after which the list of active providers could not be read, which the handler ignores and answers as done
(`ReloadMissed`, `server.go:382`); and a model saved by a probe, which the handler does not reload
(`ProbeSaveModel`, `server.go:595`).  The last two are silent: no property catches them, they are hazards listed as such.
Nor do the two say anything with overlap, which breaks them: nothing keeps two
switches of one kind apart, so one provider's files may end up under the other's
active link, or two writers' bytes in one temporary file.

`ReferencesResolve` speaks of the program's own exports; a file edited by hand may
name an active provider that is not there, and the import then stops with an error after
it has saved the records.

* `BackupsHold`: a second switch within the same second copies over what the first one
  kept, so the earlier original is gone; and what the tool writes between the
  copy and the write is lost.
* `AppliedInForce` speaks of a switch that was served alone, reported success and was not followed by the
  writes of another; a model or guard that has no line in the file is not put in by
  an edit in place (`DeclaredFields` shows it), so the property allows the field to be missing.
* `NoDanglingActive`: with overlap a switch that lands between the two statements of a deletion leaves a link to
  nothing on a connection without foreign keys (`SwitchPool`).  Without it the link is cleared first, so no
  connection need enforce anything.
* `AloneUnlessOutlived`: two logins of a tool run at once after a login outlived its cancellation by more than three
  seconds (it happens in `Login`), and when two starts overlap (`LoginOverlap`).
* `LocksNotCrossed`: with overlap the two locks are taken in both orders (`LoginLock`).
* `NativeKept`, `ReapplyStable`: a field of the user's named like an edited one is
  overwritten at any depth, and a key with a `$` is mangled by the replacement template.
* `RestoreIsFaithful`: two records of a file may be saved over one row (each is matched
  against the table as it was), and one of them is lost without an error.
* `WayIn`: the hashes of the first credentials are stored before the file is written; a start
  that ends in between leaves a program nobody can enter.
* `ServesAgain`: four things stop the program for good, and the property says that it is stopped by one of them for ever or
  serves again: a key file cut short, a unit file cut short, an address it may not get, and files of a tool that
  the import refuses (`StartUp`).
* `AddressAgrees`: an update writes back the address the process had when the update began, and undoes a
  change made meanwhile.
* `VersionTold`: the page shows the version of the repository, so after an update that fails later it shows
  the new one.
* `AutoSyncKeepsPushing`: settings of a type without a backend are never pushed; the loop goes round.
* `Cancellable`: of a deleted account the session stays mapped, but the cancel handler
  answers 404 before it reaches it.

## Proofs

* `TypeCorrect`, `LoginTypeCorrect`: types, for all values of the constants.
* `FilesFollowDatabase`, `FilesWhole`, `ActivationComesLast`, `LinksHold`: if requests on one
  kind do not overlap (`Overlap = FALSE`, the one assumption), for any number of providers,
  requests, connections and models, blank ones included, foreign keys enforced or not, through any failures and
  crashes.  `FilesInv` is what makes them inductive: at most one
  request per kind (`Exclusive`); it carries the row as it is now, and the files it
  has passed are in place (`ServedInv`); only the main file has a model to choose (`Shape`); a descriptor points to the temporary
  file exactly between open and rename (`Descriptors`); what a settled kind's
  files say (`RecordedInv`); a change under way belongs to a request that will
  end it (`ChangesOwned`); a row about to be marked by an import is the one the
  files hold (`Marked`).  The proof has one lemma per action and one lemma (`LocalFrame`) that
  a step of a request leaves the other kind alone.  `LinksHold` follows from `RecordedInv` and `ServedInv`: a row goes only
  after its link has, and no switch of the kind comes between; neither the cascade nor the refusal of the upsert is used.
* `BarAlwaysLifted`: `BarIsLifted` with any overlap.  The invariant `LoginInv` adds that a mapped
  session belongs to its account, that a session between its process start and its
  registration is known to nobody else, and that a session whose waiting goroutine
  has not finished counts as running, so that a start drops it from the map only
  when its goroutine has cleared the active id.
* `LoginsCancellable`: `Cancellable` with one request at a time (`Overlap = FALSE`; with
  overlap it fails, as `LoginOverlap` shows), for any accounts and sessions.  `ReachInv` adds
  that at most one request is under way (`Exclusive`), which sessions each stage of it
  has in hand and has told to stop (`Holds`), that a session whose goroutine has begun to finish has no process
  (`Ended`), and that a session with a goroutine belongs to an account (`Belonging`).
* `NoLockIsCrossed`: `LocksNotCrossed` under the same assumption.  `Startable` adds that a start was
  sent by a page that offered it: the session of its account, if it has one, is over, and so
  nobody holds its lock.
* `LoginsAloneUnlessOutlived`: `AloneUnlessOutlived` with one request at a time, and nothing assumed of how fast a
  login ends: what the code does after three seconds is an exception in the property, `outlived`, and not an
  assumption of the theorem.  `OrderInv` says, each for accounts that are not in `outlived`, that a login in
  progress is of the active account (`BarProtects`), that a session whose goroutine is not over is mapped
  (`Mapped`), and that a login not yet registered is the only one (`LetIn`).
* `SwitchImplementsService`: the refinement, under the one assumption of `FilesFollowDatabase` and with
  `FilesInv`; one lemma per group of steps shows which action of `SwitchService` it is.
* `ToolAlwaysFollowsChoice`: what it gives: `ToolFollowsChoice` is an invariant of `SwitchService`, hence
  of the program.
* `ImportImplementsService`: `ProviderImport` refines `SwitchService`, without assumptions.  `LinkInv` adds that
  what an import has listed, saved over or is about to switch to is in the table, since nobody deletes
  during an import; `ResolveService` is the step that matters: the kinds an import has
  unsettled are all among its targets.
* `BackupsKept`: `BackupsHold` for any switches, seconds and contents.  `BackupInv` says for
  each stage of a switch what it has so far: what it read is on the disk, what it has copied is in
  the directory, for the files in `intact`.
* `NativeAlwaysKept`: `NativeKept`.  `DraftInv` says that what a switch is about to write was
  made from what is in the file now; `NativeStays` is the fact about `Edited` and `Seeded`; `OnlyWrites`
  that no other step looks like a write.
* `ApplyTwice`: the functional core of the next one, for every document and row.
* `AppliedAlwaysInForce`, `ReapplyAlwaysStable`: `AppliedInForce` and `ReapplyStable` from one invariant.  `StableInv`
  has four parts: a switch that counts as alone is (`AloneInv`); what such a switch has
  written, and what it is about to, says what its row says, and an edit for the row leaves it as it
  is (`WayInv`); so do the files once `applied` names their provider (`AppliedInv`); and a switch to that gateway never seeds, and is about to write what is
  there (`AgainInv`).  `StableForeign` shows that what the tool and its user write keeps all four.
* `ConfigTypeCorrect`, `HostTypeCorrect`: types.
* `KeyKept`, `WayInKept`: every step of `Host` is one of `SecretsNext` for the variables of
  `Bootstrap`; `KeyInv` and `WayInv` say what a start that has come to a given step has done.
* `AddressKept`, `VersionKept`: for any number of tasks.  `AddressInv` says which part of the
  way from the page to the process an unmixed task has still to go, `VersionInv` the same
  for the last update.
* `SyncTypeCorrect`, `ImportTypeCorrect`: types.
* `NoLoopEver`: `NoLoopEscapes` for any number of requests, loops and channels.  The
  invariant `SyncInv` adds that no channel but `s.syncStop` is open (`OneOpen`), and that a request
  between close and make finds none open.
* `ReferencesAlwaysResolve`: `ReferencesResolve` for any providers and kinds.  `ImportInv`
  adds that the links of the file, and of the file an import works on, lead to records in it, and that a record
  is either still to be saved or resolved to a row.
* `ActiveAlwaysApplied`, `RestoreAlwaysFaithful`: `ActiveApplied` and `RestoreIsFaithful` for any tables and
  files.  `ApplyInv` follows an import: records are resolved once for all (`Resolution`), a row that was saved
  over holds its record unless another has the same row (`Saved`), only changed providers are not in
  place while records are saved (`Unswitched`), then only those still to be switched to
  (`Switching`), and what the file calls active is among them or has been (`Delivering`).

Only model-checked: the liveness properties `RequestsAnswered`, `BarFalls`, `StoppedLoopsEnd`,
`AutoSyncKeepsPushing`, `DisabledMeansSilent`, `UpdateTakesHold` and `ServesAgain` (out of the prover's
reach); and what the violation runs show is shown on their instances, which is enough for a counterexample.

## Not modelled

Templates and assets, cryptography and hashing, TLS certificates and ACME, the WebDAV and S3
clients, and of `install.sh` the installation of Go and packages: pure I/O or libraries.  Probes
and status checks run a request or an external command and keep nothing but the model they save.  Of the
settings the site name, the TLS rows and the status of the last sync decide nothing: two pushes that end together may lose
one of two notes on a page.  The uid migration of old databases is one transaction at start-up.

## Plan

Done: everything in the order of the table of modules.  What is left, most useful first:

1. The status of the last sync beside `CloudSync`: which notes two pushes and a pull may lose.
2. What is between the liveness properties of `CloudSync` and `Host` and their invariants: that a loop
   which is told to stop pushes once more at most, that a failed update leaves what the next one needs.
3. `ConfigFiles` as the inside of `Choose`: the two files that `SwitchService` has as one reading.
