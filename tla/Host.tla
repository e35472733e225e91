-------------------------------- MODULE Host --------------------------------
(***************************************************************************)
(* The program as a service of systemd on its machine: what (re)starts it, *)
(* at which address it listens and which version of it runs.               *)
(*                                                                         *)
(* The address is a line of the unit file and comes to the process in its  *)
(* environment.  A change of it stores the address, rewrites the file,     *)
(* reloads systemd and restarts the service, which ends the process that   *)
(* does all this.  An update runs install.sh beside the service: it brings *)
(* the repository up to date, builds the binary, writes the unit file with *)
(* the address the process had when it started the update, reloads and     *)
(* restarts.  Nothing keeps two of these from overlapping.                 *)
(***************************************************************************)
EXTENDS Bootstrap, Naturals

CONSTANTS
  Handlers,    \* requests in flight
  Jobs,        \* updates at a time: a bound, the code has none
  Addrs,       \* well-formed addresses
  Usable,      \* those the process can listen at: nothing competes for them
  Default,     \* the one install.sh was given
  Interests,   \* bound: whether users change their secrets, the service or both
  LastVersion, \* bound: versions published
  Faults       \* whether statements, files and commands fail

ASSUME AddrsType == Usable \subseteq Addrs /\ Default \in Usable /\ None \notin Addrs /\ Torn \notin Addrs
ASSUME TasksApart == Handlers \cap Jobs = {}
ASSUME InterestsType == Interests \subseteq {"secrets", "service", "both"}
ASSUME VersionsType == LastVersion \in Nat \ {0} /\ Faults \in BOOLEAN

VARIABLES
  users,    \* what the users change
  refused,  \* whether an import would refuse what the tools' files hold now
  row,      \* the setting listen_addr, which the settings page shows
  unit,     \* the address in the unit file
  loaded,   \* and in the unit as systemd has loaded it
  addr,     \* ListenAddr of the process
  remote, repo, binary,
  running,  \* the version of the process
  task,     \* the changes and updates in progress
  mixed,    \* history: since the last change of the address that began with nothing
            \* else in progress, two overlapped, one failed or was cut short
  stale     \* history: an update has failed since the last that began alone

where == <<row, unit, loaded, addr>>
versions == <<remote, repo, binary, running>>
hvars == <<users, refused, where, versions, task, mixed, stale>>
vars == <<secrets, hvars>>

Versions == 1..LastVersion
Tasks == Handlers \cup Jobs

Pcs == {"idle", "save", "read", "checkout", "build", "create", "fill", "reload", "restart"}
Task == [pc : Pcs, to : Addrs \cup {None}]
Idle == [pc |-> "idle", to |-> None]

Init ==
  /\ InitSecrets
  /\ users \in Interests /\ refused \in BOOLEAN
  /\ row = None /\ unit = Default /\ loaded = Default /\ addr = Default
  /\ remote = 1 /\ repo = 1 /\ binary = 1 /\ running = 1
  /\ task = [t \in Tasks |-> Idle]
  /\ mixed = FALSE /\ stale = FALSE

AtRest == \A t \in Tasks : task[t] = Idle
NoJobs == \A j \in Jobs : task[j] = Idle

-----------------------------------------------------------------------------
(* systemd *)

\* Restart=always: a service whose process ended is started again, as the unit
\* that is loaded says.
Exec ==
  /\ proc.pc = "off"
  /\ loaded # Torn
  /\ proc' = Started
  /\ addr' = loaded /\ running' = binary
  /\ UNCHANGED <<key, sealed, hash, creds, session, lost, users, refused, row, unit, loaded,
                 remote, repo, binary, task, mixed, stale>>

\* The requests end with the process, the updates do not.
EndRequests == [t \in Tasks |-> IF t \in Handlers THEN Idle ELSE task[t]]

\* The import of existing configurations ends the start at files it cannot parse
\* (ProviderSwitch has it step by step), perhaps after it has adopted the provider
\* of the other tool.
Import ==
  /\ proc.pc = "import"
  /\ sealed' \in {sealed, sealed \cup {proc.key}}
  /\ IF refused THEN proc' = Off ELSE Goto("listen")
  /\ UNCHANGED <<key, hash, creds, session, lost, hvars>>

\* With TLS on the process competes with itself for the ports 80 and 443, and
\* other programs may hold any other that is not Usable.
Listen ==
  /\ proc.pc = "listen"
  /\ \/ Goto("serving") /\ UNCHANGED <<session, lost>>
     \/ addr \notin Usable /\ End
  /\ UNCHANGED <<key, sealed, hash, creds, hvars>>

-----------------------------------------------------------------------------
(* The requests and the steps of install.sh. *)

Begin(t, first) ==
  /\ users # "secrets"
  /\ Authenticated
  /\ task[t] = Idle
  /\ task' = [task EXCEPT ![t] = first]
  /\ mixed' = (~AtRest \/ (first.pc # "save" /\ mixed))
  /\ stale' = (stale /\ ~(first.pc = "checkout" /\ NoJobs))
  /\ UNCHANGED <<secrets, users, refused, where, versions>>

ChangeAddress(h) == \E a \in Addrs : Begin(h, [pc |-> "save", to |-> a])

\* Mutant: the unit file is patched although the form has no address.
ChangeTLS_Patches(h) == Begin(h, [pc |-> "read", to |-> None])

\* The two rows of the TLS settings are left out.
ChangeTLS(h) == Begin(h, [pc |-> "reload", to |-> None])

\* Mutant: install.sh is not given the address.
SelfUpdate_Default(j) == Begin(j, [pc |-> "checkout", to |-> Default])

SelfUpdate(j) == Begin(j, [pc |-> "checkout", to |-> addr])

To(t, pc) == task' = [task EXCEPT ![t].pc = pc]

SaveAddress(t) ==
  /\ task[t].pc = "save"
  /\ row' = task[t].to
  /\ To(t, "read")
  /\ UNCHANGED <<secrets, users, refused, unit, loaded, addr, versions, mixed, stale>>

\* A file without the line is left as it is.
ReadUnit(t) ==
  /\ task[t].pc = "read"
  /\ IF unit # Torn THEN To(t, "create") /\ UNCHANGED mixed
     ELSE task' = [task EXCEPT ![t] = Idle] /\ mixed' = TRUE
  /\ UNCHANGED <<secrets, users, refused, where, versions, stale>>

\* Mutant: the working tree is reset to what it was.
Checkout_Kept(t) ==
  /\ task[t].pc = "checkout"
  /\ To(t, "build")
  /\ UNCHANGED <<secrets, users, refused, where, versions, mixed, stale>>

Checkout(t) ==
  /\ task[t].pc = "checkout"
  /\ repo' = remote
  /\ To(t, "build")
  /\ UNCHANGED <<secrets, users, refused, where, remote, binary, running, mixed, stale>>

Build(t) ==
  /\ task[t].pc = "build"
  /\ binary' = repo
  /\ To(t, "create")
  /\ UNCHANGED <<secrets, users, refused, where, remote, repo, running, mixed, stale>>

CreateUnit(t) ==
  /\ task[t].pc = "create"
  /\ unit' = Torn
  /\ To(t, "fill")
  /\ UNCHANGED <<secrets, users, refused, row, loaded, addr, versions, mixed, stale>>

FillUnit(t) ==
  /\ task[t].pc = "fill"
  /\ unit' = task[t].to
  /\ To(t, "reload")
  /\ UNCHANGED <<secrets, users, refused, row, loaded, addr, versions, mixed, stale>>

Reload(t) ==
  /\ task[t].pc = "reload"
  /\ loaded' = unit
  /\ To(t, "restart")
  /\ UNCHANGED <<secrets, users, refused, row, unit, addr, versions, mixed, stale>>

\* Mutant: a service that is active is left running.
Restart_IfDown(t) ==
  /\ task[t].pc = "restart"
  /\ task' = [task EXCEPT ![t] = Idle]
  /\ UNCHANGED <<secrets, users, refused, where, versions, mixed, stale>>

Restart(t) ==
  /\ task[t].pc = "restart"
  /\ loaded # Torn
  /\ End
  /\ task' = [EndRequests EXCEPT ![t] = Idle]
  /\ UNCHANGED <<key, sealed, hash, creds, users, refused, where, versions, mixed, stale>>

\* systemd refuses a unit without a command, and leaves the process alone.
RestartRefused(t) ==
  /\ task[t].pc = "restart"
  /\ loaded = Torn
  /\ task' = [task EXCEPT ![t] = Idle]
  /\ mixed' = TRUE /\ stale' = (stale \/ t \in Jobs)
  /\ UNCHANGED <<secrets, users, refused, where, versions>>

TaskStep(t) ==
  \/ SaveAddress(t) \/ ReadUnit(t) \/ Checkout(t) \/ Build(t) \/ CreateUnit(t) \/ FillUnit(t)
  \/ Reload(t) \/ Restart(t) \/ RestartRefused(t)

\* A request that fails leaves what it has done.  install.sh ends at the first
\* command that fails; restartService does not look whether one did.
TaskFails(t) ==
  /\ Faults
  /\ task[t] # Idle
  /\ task' = [task EXCEPT ![t] = IF t \in Handlers /\ task[t].pc = "reload"
                                 THEN [task[t] EXCEPT !.pc = "restart"] ELSE Idle]
  /\ mixed' = TRUE
  /\ stale' = (stale \/ t \in Jobs)
  /\ UNCHANGED <<secrets, users, refused, where, versions>>

\* The process ends by itself, or the start fails.
Crash ==
  /\ proc.pc # "off"
  /\ End
  /\ task' = EndRequests
  /\ mixed' = (mixed \/ \E h \in Handlers : task[h] # Idle)
  /\ UNCHANGED <<key, sealed, hash, creds, users, refused, where, versions, stale>>

\* A new version at the origin.
Publish ==
  /\ remote < LastVersion
  /\ remote' = remote + 1
  /\ UNCHANGED <<secrets, users, refused, where, repo, binary, running, task, mixed, stale>>

\* A tool signs in or is set up by hand, or the last provider of a kind is deleted:
\* what the import of the next start would meet.
ToolsChange ==
  /\ refused' = ~refused
  /\ UNCHANGED <<secrets, users, where, versions, task, mixed, stale>>

UserStep == users # "service" /\ UserSteps /\ UNCHANGED hvars

ProcStep == Exec \/ Import \/ Listen \/ (StartSteps /\ UNCHANGED hvars)

Next ==
  \/ ProcStep
  \/ UserStep
  \/ ToolsChange
  \/ StartFails /\ Faults /\ UNCHANGED hvars
  \/ \E h \in Handlers : ChangeAddress(h) \/ ChangeTLS(h)
  \/ \E j \in Jobs : SelfUpdate(j)
  \/ \E t \in Tasks : TaskStep(t) \/ TaskFails(t)
  \/ Crash
  \/ Publish

Spec == Init /\ [][Next]_vars

\* systemd starts what has ended, statements and commands return.
FairSpec ==
  /\ Spec
  /\ WF_vars(ProcStep)
  /\ \A t \in Tasks : WF_vars(TaskStep(t))

-----------------------------------------------------------------------------
(* Properties. *)

TypeOK ==
  /\ SecretsType
  /\ users \in Interests /\ refused \in BOOLEAN
  /\ row \in Addrs \cup {None}
  /\ unit \in Addrs \cup {Torn} /\ loaded \in Addrs \cup {Torn} /\ addr \in Addrs
  /\ remote \in Versions /\ repo \in Versions /\ binary \in Versions /\ running \in Versions
  /\ task \in [Tasks -> Task]
  /\ mixed \in BOOLEAN /\ stale \in BOOLEAN

\* The address the settings page shows is the one the program listens at, and
\* will listen at after the next restart (README.md:50), however the changes and
\* updates before the last change ended and whatever updates followed it - unless
\* they overlapped or one was cut short since.
AddressAgrees ==
  AtRest /\ Serving /\ ~mixed => unit = addr /\ loaded = addr /\ row \in {None, addr}

\* The version the settings page shows, which is that of the repository, is the
\* one that runs - unless the last update has failed half way (update.go:63,
\* install.sh:82-101).
VersionTold == NoJobs /\ Serving /\ ~stale => running = repo

Down == loaded = Torn

\* An update that begins brings the version that is at the origin into service,
\* unless it fails or leaves systemd without a unit it can start.
UpdateTakesHold ==
  \A v \in Versions :
    (\E j \in Jobs : task[j].pc = "checkout") /\ remote >= v ~> running >= v \/ stale \/ Down

\* Steps of the program and of its users, none of which fails; nobody else sets up
\* a tool while the program is down.
Calm ==
  <>[][ \/ ProcStep
        \/ UserStep
        \/ Serving /\ ToolsChange
        \/ \E h \in Handlers : ChangeAddress(h) \/ ChangeTLS(h)
        \/ \E j \in Jobs : SelfUpdate(j)
        \/ \E t \in Tasks : TaskStep(t)
        \/ Publish]_vars

\* What ends every start for good: a key file that was cut short, a unit file that
\* is empty, an address that cannot be had, tools' files the import refuses.
Stuck == key = Torn \/ Down \/ loaded \notin Usable \/ refused

\* Once nothing fails any more the program serves, again and again, wherever it
\* was stopped before - unless it comes to one of the four things that end every
\* start (main.go:17-101), and then it stays with it.
ServesAgain == Calm => []<>Serving \/ <>[]Stuck
=============================================================================
