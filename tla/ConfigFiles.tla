----------------------------- MODULE ConfigFiles -----------------------------
(***************************************************************************)
(* The configuration files of one tool while providers are switched to:    *)
(* the backup that every switch takes first, in directories named by the   *)
(* second, and the changes it then makes, file by file, to what it finds.  *)
(* The tool and its user write the files too.  Switches may overlap, fail  *)
(* at any step and be cut short by the end of the process; the clock may   *)
(* be set.  A file is replaced in one step: TempFile has the inside of it. *)
(***************************************************************************)
EXTENDS ConfigMerge, Sequences

CONSTANTS
  Kinds,      \* the tools an instance looks at
  Providers,
  Decl,       \* Decl[p]: what the row of provider p declares
  Starts,     \* Starts[k]: what the files of tool k may be at first
  Homes,      \* and those of an account
  Refreshed,  \* the logins a tool may come by
  Busy,       \* the tools that write their files too
  Overlap,    \* the tools whose switches overlap
  Workers,    \* requests served at a time
  Seconds     \* a clock's readings

Files == {"main", "cred", "state"}

\* The files in the order the code has them: config.toml and auth.json, or
\* settings.json, .claude.json and .credentials.json.
Paths(k) == IF k = "codex" THEN <<"main", "cred">> ELSE <<"main", "state", "cred">>
Managed(k) == {Paths(k)[i] : i \in DOMAIN Paths(k)}

NoFiles == [f \in Files |-> NoFile]

FileOf(f) == Opt(IF f = "main" THEN Doc ELSE Cred)
FilesType == {g \in [Files -> Opt(Doc \cup Cred)] : \A f \in Files : g[f] \in FileOf(f)}

ASSUME KindsType == Kinds \subseteq {"claude", "codex"}
ASSUME SecondsType == Seconds \subseteq Nat
ASSUME DeclType ==
  /\ None \notin Providers
  /\ Decl \in [Providers -> Declared]
  /\ \A p \in Providers : Decl[p].source = "gateway" => Decl[p].conn \in Conns
ASSUME StartsType ==
  /\ \A k \in Kinds : Starts[k] \subseteq FilesType
  /\ Homes \subseteq FilesType
  /\ Refreshed \subseteq Logins

VARIABLES
  kind,
  disk,       \* the tool's files
  home,       \* home[p]: the files in the private home of an official account
  made,       \* the seconds that name a backup directory
  dirs,       \* and its files
  req,        \* the switches being served
  \* history:
  intact,     \* the files of a switch that it alone has touched, and their backups
  applied     \* whose switch, served alone, was the last to change the files

vars == <<kind, disk, home, made, dirs, req, intact, applied>>

Pcs == {"idle", "read", "compare", "copy", "apply", "edit", "seed", "write", "finish"}

Pending == UNION {{f} \X FileOf(f) : f \in Files}
Request == [pc : Pcs, p : Opt(Providers), alone : BOOLEAN, seen : FilesType, dir : Opt(Seconds),
            todo : Seq(Files), draft : Seq(Pending), then : Pcs]

Idle == [pc |-> "idle", p |-> None, alone |-> TRUE, seen |-> NoFiles, dir |-> None,
         todo |-> <<>>, draft |-> <<>>, then |-> "idle"]

Goto(w, pc) == req' = [req EXCEPT ![w].pc = pc]

\* File f changes under the switches of W.
Disturb(W, f) == intact' = [w \in Workers |-> IF w \in W THEN intact[w] \ {f} ELSE intact[w]]

-----------------------------------------------------------------------------
(* backupProviderFiles *)

Receive(w, p) ==
  /\ req[w].pc = "idle"
  /\ LET alone == \A v \in Workers : req[v].pc = "idle" IN
     req' = [v \in Workers |->
               IF v = w THEN [Idle EXCEPT !.pc = "read", !.p = p, !.todo = Paths(kind), !.alone = alone]
               ELSE [req[v] EXCEPT !.alone = req[v].pc = "idle"]]
  /\ kind \notin Overlap => \A v \in Workers : req[v].pc = "idle"
  /\ intact' = [intact EXCEPT ![w] = Managed(kind)]
  /\ UNCHANGED <<kind, disk, home, made, dirs, applied>>

ReadCurrent(w) ==
  /\ req[w].pc = "read"
  /\ LET f == Head(req[w].todo) IN
     req' = [req EXCEPT ![w].seen[f] = disk[f],
                        ![w].todo = Tail(req[w].todo),
                        ![w].pc = IF Len(req[w].todo) = 1 THEN "compare" ELSE "read"]
  /\ UNCHANGED <<kind, disk, home, made, dirs, intact, applied>>

\* Only the configuration is compared.
Identical_MainOnly(w, d) == dirs[d]["main"] # NoFile /\ dirs[d]["main"] = req[w].seen["main"]

\* A file that is missing cannot be read back from the directory, and then
\* the directory is not the same.
Identical(w, d) == \A f \in Managed(kind) : dirs[d][f] # NoFile /\ dirs[d][f] = req[w].seen[f]

\* Only the last directory, by its name, is looked at.
Newest(d) == \A e \in made : e <= d

ReuseDir(w) ==
  /\ req[w].pc = "compare"
  /\ \E d \in made :
       /\ Newest(d) /\ Identical(w, d)
       /\ req' = [req EXCEPT ![w].dir = d, ![w].pc = "apply", ![w].seen = NoFiles]
  /\ UNCHANGED <<kind, disk, home, made, dirs, intact, applied>>

\* The directory is named by what the clock says, which may have been set; one of
\* that name may exist.
MakeDir(w) ==
  /\ req[w].pc = "compare"
  /\ ~ \E d \in made : Newest(d) /\ Identical(w, d)
  /\ \E now \in Seconds :
       /\ made' = made \cup {now}
       /\ req' = [req EXCEPT ![w].dir = now, ![w].pc = "copy", ![w].todo = Paths(kind),
                             ![w].seen = NoFiles]
  /\ UNCHANGED <<kind, disk, home, dirs, intact, applied>>

\* The file is read again.
Copy(w) ==
  /\ req[w].pc = "copy"
  /\ LET f == Head(req[w].todo)
         d == req[w].dir
     IN
     /\ dirs' = IF disk[f] = NoFile THEN dirs ELSE [dirs EXCEPT ![d][f] = disk[f]]
     /\ Disturb(IF disk[f] = NoFile THEN {} ELSE {v \in Workers \ {w} : req[v].dir = d}, f)
  /\ req' = [req EXCEPT ![w].todo = Tail(req[w].todo),
                        ![w].pc = IF Len(req[w].todo) = 1 THEN "apply" ELSE "copy"]
  /\ UNCHANGED <<kind, disk, home, made, applied>>

-----------------------------------------------------------------------------
(* applyClaudeProvider, applyCodexProvider *)

Row(w) == Decl[req[w].p]

Draft(w, writes, then) ==
  req' = [req EXCEPT ![w].draft = writes, ![w].pc = "write", ![w].then = then]

\* auth.json first.
ApplyGateway(w) ==
  /\ req[w].pc = "apply"
  /\ Row(w).source = "gateway"
  /\ IF kind = "codex"
     THEN Draft(w, << <<"cred", EditedAuth(disk["cred"], Row(w))>> >>, "edit")
     ELSE Goto(w, "edit")
  /\ UNCHANGED <<kind, disk, home, made, dirs, intact, applied>>

Edit(w) ==
  /\ req[w].pc = "edit"
  /\ IF CanEdit(kind, disk["main"], Row(w))
     THEN Draft(w, << <<"main", Edited(kind, disk["main"], Row(w))>> >>, "finish")
     ELSE Goto(w, "seed")
  /\ UNCHANGED <<kind, disk, home, made, dirs, intact, applied>>

\* The document goes to the wrong file.
Seed_WrongFile(w) ==
  /\ req[w].pc = "seed"
  /\ CanSeed(disk["main"])
  /\ Draft(w, << <<"cred", Seeded(kind, disk["main"], Row(w))>> >>, "finish")
  /\ UNCHANGED <<kind, disk, home, made, dirs, intact, applied>>

\* The file is read again; codex's auth.json is written once more, whole.
Seed(w) ==
  /\ req[w].pc = "seed"
  /\ CanSeed(disk["main"])
  /\ LET main == <<"main", Seeded(kind, disk["main"], Row(w))>> IN
     Draft(w, IF kind = "codex" THEN << <<"cred", KeyOnly(Row(w))>>, main>> ELSE <<main>>, "finish")
  /\ UNCHANGED <<kind, disk, home, made, dirs, intact, applied>>

StateCopy(k, h) ==
  IF k = "claude" /\ h["state"] # NoFile THEN << <<"state", h["state"]>> >> ELSE <<>>

\* The private home is brought up to date and the account must have
\* credentials there; what there is is copied.  (Nothing but this changes a
\* home meanwhile, so the copies are of what it holds now.)
ApplyOfficial(w) ==
  /\ req[w].pc = "apply"
  /\ Row(w).source = "official"
  /\ CanSeed(home[req[w].p]["main"])
  /\ LET h == [home[req[w].p] EXCEPT !["main"] = Prepared(kind, home[req[w].p]["main"], Row(w))] IN
     /\ home' = [home EXCEPT ![req[w].p] = h]
     /\ IF h["cred"] # NoFile
        THEN Draft(w, StateCopy(kind, h) \o << <<"cred", h["cred"]>>, <<"main", h["main"]>> >>, "finish")
        ELSE req' = [req EXCEPT ![w] = Idle]
  /\ UNCHANGED <<kind, disk, made, dirs, intact, applied>>

Write(w) ==
  /\ req[w].pc = "write"
  /\ LET f == Head(req[w].draft)[1] IN
     /\ disk' = [disk EXCEPT ![f] = Head(req[w].draft)[2]]
     /\ Disturb(Workers, f)
  /\ req' = [req EXCEPT ![w].draft = Tail(req[w].draft),
                        ![w].pc = IF Len(req[w].draft) = 1 THEN req[w].then ELSE "write"]
  /\ applied' = IF disk' = disk THEN applied ELSE None
  /\ UNCHANGED <<kind, home, made, dirs>>

Finish(w) ==
  /\ req[w].pc = "finish"
  /\ applied' = IF req[w].alone THEN req[w].p ELSE applied
  /\ req' = [req EXCEPT ![w] = Idle]
  /\ UNCHANGED <<kind, disk, home, made, dirs, intact>>

\* A file that cannot be read, parsed or written.
Fail(w) ==
  /\ req[w].pc \notin {"idle", "finish"}
  /\ req' = [req EXCEPT ![w] = Idle]
  /\ UNCHANGED <<kind, disk, home, made, dirs, intact, applied>>

Crash ==
  /\ req' = [w \in Workers |-> Idle]
  /\ UNCHANGED <<kind, disk, home, made, dirs, intact, applied>>

-----------------------------------------------------------------------------
(* Beside the program. *)

\* The tool or its user writes a file: a preference, or a refreshed login.
Foreign(f, c) ==
  /\ kind \in Busy
  /\ c # disk[f]
  /\ disk' = [disk EXCEPT ![f] = c]
  /\ Disturb(Workers, f)
  /\ UNCHANGED <<kind, home, made, dirs, req, applied>>

ForeignWrite ==
  \/ \E n \in Natives : disk["main"] # NoFile /\ Foreign("main", [disk["main"] EXCEPT !.native = n])
  \/ \E l \in Refreshed : disk["cred"] # NoFile /\ Foreign("cred", [disk["cred"] EXCEPT !.login = l])

Init ==
  /\ kind \in Kinds
  /\ disk \in Starts[kind]
  /\ home \in [Providers -> Homes]
  /\ made = {}
  /\ dirs = [d \in Seconds |-> NoFiles]
  /\ req = [w \in Workers |-> Idle]
  /\ intact = [w \in Workers |-> {}]
  /\ applied = None

BackUp(w) == ReadCurrent(w) \/ ReuseDir(w) \/ MakeDir(w) \/ Copy(w)
Apply(w) == ApplyGateway(w) \/ Edit(w) \/ Seed(w) \/ ApplyOfficial(w) \/ Write(w) \/ Finish(w)

Next ==
  \/ \E w \in Workers, p \in Providers : Receive(w, p)
  \/ \E w \in Workers : BackUp(w) \/ Apply(w) \/ Fail(w)
  \/ Crash
  \/ ForeignWrite

Spec == Init /\ [][Next]_vars

-----------------------------------------------------------------------------
(* Types: documents are documents and credentials credentials, in the tool's
   directory, in the homes, in the backups and in what is about to be written
   (manager.go:404-517, 757-812). *)
TypeOK ==
  /\ kind \in {"claude", "codex"}
  /\ disk \in FilesType
  /\ home \in [Providers -> FilesType]
  /\ made \subseteq Seconds
  /\ dirs \in [Seconds -> FilesType]
  /\ req \in [Workers -> Request]
  /\ intact \in [Workers -> SUBSET Managed(kind)]
  /\ applied \in Opt(Providers)

\* What a switch is about to replace is in the backup directory it reports
\* (manager.go:77, README.md:67), whether it made the directory or found the
\* last one to be the same, whatever earlier switches, failures, crashes and
\* changes of the clock left there - unless, since the switch began, the tool
\* or another switch wrote the file, or another switch of the same second its
\* copy in the same directory.
Replacing == {"apply", "edit", "seed", "write"}

BackupsHold ==
  \A w \in Workers : req[w].pc \in Replacing =>
    \A f \in intact[w] : disk[f] # NoFile => dirs[req[w].dir][f] = disk[f]

\* A step in which a switch replaces a file.
Writes(w) ==
  /\ req[w].pc = "write" /\ req'[w].pc # "idle"
  /\ req'[w].draft = Tail(req[w].draft)

\* A gateway leaves what the user keeps in the configuration file as it is
\* (README.md:103), by whichever of the two ways it is applied - but for a
\* nested field that has the name of an edited one.
NativeKept ==
  [][\A w \in Workers :
       /\ Writes(w) /\ "main" \in intact[w]
       /\ Head(req[w].draft)[1] = "main" /\ disk["main"] # NoFile
       /\ Row(w).source = "gateway"
       => /\ disk'["main"].native = disk["main"].native
          /\ disk'["main"].nested \in {disk["main"].nested, Row(w).model}]_vars

\* Switching once more to the gateway that is in force rewrites nothing: what
\* a seeded document says, the edit that follows says too (manager.go:336-398) -
\* but for a nested field, and for a key with a "$".
Plain(p) ==
  /\ Decl[p].source = "gateway"
  /\ Expanded[Decl[p].conn] = Decl[p].conn
  /\ disk["main"] # NoFile => disk["main"].nested = None \/ Decl[p].model = None

ReapplyStable ==
  [][\A w \in Workers :
       Writes(w) /\ Head(req[w].draft)[1] \in intact[w] /\ applied = req[w].p /\ Plain(req[w].p)
         => UNCHANGED disk]_vars

\* A switch that was served alone and reported success has put its provider in
\* force in all the files (manager.go:67-78): the connection and what selects it,
\* the credentials, the declared fields - but for a model without a line to be
\* put in - by whichever way it applied them, from whatever it found; and what the
\* tool writes afterwards leaves that so.
Sources(r, gateway, official) == IF r.source = "gateway" THEN gateway ELSE official

Says(k, m, r) ==
  /\ m # NoFile
  /\ m.conn \in Sources(r, {r.conn, Expanded[r.conn]}, {None})
  /\ k = "codex" => /\ m.route = Sources(r, "custom", "openai")
                    /\ m.store = Sources(r, None, "file")
  /\ r.model # None => m.model \in {r.model} \cup Sources(r, {None}, {})
  /\ r.guard # None => m.guard \in {r.guard} \cup IF k = "claude" THEN Sources(r, {None}, {}) ELSE {}

Unlocks(k, a, r, own) ==
  /\ r.source = "gateway" /\ k = "codex" => a # NoFile /\ a.key \in {r.conn, Expanded[r.conn]}
  /\ r.source = "official" => a # NoFile /\ a.key = own.key /\ a.login \in {own.login} \cup Refreshed

AppliedInForce ==
  applied # None =>
    /\ Says(kind, disk["main"], Decl[applied])
    /\ Unlocks(kind, disk["cred"], Decl[applied], home[applied]["cred"])

\* README.md:103, 107: a switch rewrites the declared fields.
DeclaredFieldsWritten ==
  [][\A w \in Workers :
       req[w].pc = "finish" /\ req'[w].pc = "idle" /\ Row(w).source = "gateway"
         => /\ Row(w).model # None => disk["main"].model = Row(w).model
            /\ Row(w).guard # None => disk["main"].guard = Row(w).guard
            /\ disk["main"].modifier = Row(w).modifier]_vars
=============================================================================
