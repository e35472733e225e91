---------------------------- MODULE OfficialLogin ----------------------------
(***************************************************************************)
(* Browser logins of official accounts (codex_official_login.go and        *)
(* claude_official_login.go; the two tools have the same machinery and     *)
(* share none of it).  A login is a child process, a session object with a *)
(* lock of its own, and goroutines: two that record the child's output and *)
(* one that waits for its end.  The server keeps a map from account to     *)
(* session and the id of the one account that may be logging in, both      *)
(* under loginMu.                                                          *)
(*                                                                         *)
(* Only two places hold a lock across a step that can block: a start holds *)
(* loginMu while it asks whether the account's session is running (label   *)
(* "check"), and the waiting goroutine holds the session's lock while it   *)
(* clears the active id (waiter "clearing").  Everything else done under a *)
(* lock is one step.                                                       *)
(***************************************************************************)
EXTENDS Naturals

CONSTANTS
  Accounts,   \* ids of official providers of one tool
  Sessions,   \* session objects; one that nothing refers to any more is reused
  Handlers,   \* requests in flight
  Overlap,    \* FALSE: one request at a time, and a login is started only when
              \* the providers page, as it is, offers to
  None

ASSUME OverlapType == Overlap \in BOOLEAN
ASSUME NoneApart == None \notin Accounts \cup Sessions

VARIABLES
  tool,       \* which of the two files this is; never changes
  gone,       \* ids whose row is not in the table of providers
  sessions,   \* codexLoginSessions / claudeLoginSessions
  activeId,   \* codexLoginActiveProviderID / claudeLoginActiveProviderID
  obj,        \* the session objects, each with its process and its goroutines
  req         \* the requests

vars == <<tool, gone, sessions, activeId, obj, req>>

\* proc: the child process, or how it ended.  line: an output line with the
\* URL that no goroutine has recorded yet.  waiter: the waiting goroutine.
Session == [owner  : Accounts \cup {None},
            status : {"starting", "awaiting", "submitted", "completed", "cancelled", "error"},
            url    : BOOLEAN,
            proc   : {"unused", "running", "ok", "failed", "killed"},
            killed : BOOLEAN,
            line   : BOOLEAN,
            waiter : {"none", "waiting", "clearing", "over"}]
Unused == [owner |-> None, status |-> "starting", url |-> FALSE, proc |-> "unused",
           killed |-> FALSE, line |-> FALSE, waiter |-> "none"]

Request == [pc : {"idle", "admit", "check", "spawn", "register", "url", "find", "running",
                  "submit", "kill", "wait", "stat", "outcome", "discard"},
            op : {"start", "complete", "cancel"},
            id : Accounts \cup {None}, ses : Sessions \cup {None}]
Idle == [pc |-> "idle", op |-> "start", id |-> None, ses |-> None]

TypeOK ==
  /\ tool \in {"codex", "claude"}
  /\ gone \subseteq Accounts
  /\ sessions \in [Accounts -> Sessions \cup {None}]
  /\ activeId \in Accounts \cup {None}
  /\ obj \in [Sessions -> Session]
  /\ req \in [Handlers -> Request]

Init ==
  /\ tool \in {"codex", "claude"}
  /\ gone = {}
  /\ sessions = [a \in Accounts |-> None]
  /\ activeId = None
  /\ obj = [s \in Sessions |-> Unused]
  /\ req = [h \in Handlers |-> Idle]

-----------------------------------------------------------------------------
(* Locks, sessions and requests. *)

LoginMuFree == \A h \in Handlers : req[h].pc # "check"
MuFree(s) == obj[s].waiter # "clearing"
Done(s) == obj[s].waiter \in {"clearing", "over"}

IsRunning(s) ==
  obj[s].status \in {"starting", "awaiting"} \cup IF tool = "claude" THEN {"submitted"} ELSE {}

Goto(h, pc) == req' = [req EXCEPT ![h].pc = pc]
Finish(h) == req' = [req EXCEPT ![h] = Idle]

\* Nothing refers to the session object: it is garbage.
Garbage(s) ==
  /\ obj[s].proc # "running" /\ obj[s].waiter \in {"none", "over"} /\ ~obj[s].line
  /\ \A a \in Accounts : sessions[a] # s
  /\ \A h \in Handlers : req[h].ses # s

\* Mutant: the page reads the status without the session's lock.
CanStartLogin_Unlocked(a) ==
  /\ LoginMuFree
  /\ sessions[a] # None => ~IsRunning(sessions[a])

\* What the providers page shows (CanStartLogin); rendering it takes both locks.
CanStartLogin(a) ==
  /\ LoginMuFree
  /\ sessions[a] # None => MuFree(sessions[a]) /\ ~IsRunning(sessions[a])

FirstPc(op) == IF op = "start" THEN "admit" ELSE "find"

\* Without overlap a request comes when no other is being served.
MayCome == ~Overlap => \A g \in Handlers : req[g] = Idle

\* GetProvider: a request for a deleted account is answered with an error,
\* also one that would cancel its login.
Receive(h, op, a) ==
  /\ req[h] = Idle
  /\ MayCome
  /\ a \notin gone
  /\ ~Overlap /\ op = "start" => CanStartLogin(a)
  /\ req' = [req EXCEPT ![h] = [Idle EXCEPT !.pc = FirstPc(op), !.op = op, !.id = a]]
  /\ UNCHANGED <<tool, gone, sessions, activeId, obj>>

\* The login of a deleted account goes on.
DeleteAccount(a) ==
  /\ MayCome
  /\ a \notin gone
  /\ gone' = gone \cup {a}
  /\ UNCHANGED <<tool, sessions, activeId, obj, req>>

\* Ids are not used twice: an id of which nothing is left but an ended session in
\* the map, which nobody will look at again, stands for the one of a new account.
Forgotten(a) ==
  /\ activeId # a
  /\ \A h \in Handlers : req[h].id # a
  /\ \A s \in Sessions : obj[s].owner = a => obj[s].waiter = "over"

CreateAccount(a) ==
  /\ MayCome
  /\ a \in gone /\ Forgotten(a)
  /\ gone' = gone \ {a}
  /\ sessions' = [sessions EXCEPT ![a] = None]
  /\ UNCHANGED <<tool, activeId, obj, req>>

-----------------------------------------------------------------------------
(* startCodexOfficialLogin / startClaudeOfficialLogin *)

\* Mutant: the login of another account in progress is not looked at.
Admit_Unbarred(h) ==
  /\ req[h].pc = "admit" /\ LoginMuFree
  /\ Goto(h, IF sessions[req[h].id] = None THEN "spawn" ELSE "check")
  /\ UNCHANGED <<tool, gone, sessions, activeId, obj>>

\* Another account's login is in progress: refused.  An earlier session of
\* this account is looked at with loginMu held.
Admit(h) ==
  /\ req[h].pc = "admit" /\ LoginMuFree
  /\ IF activeId \notin {None, req[h].id} THEN Finish(h)
     ELSE Goto(h, IF sessions[req[h].id] = None THEN "spawn" ELSE "check")
  /\ UNCHANGED <<tool, gone, sessions, activeId, obj>>

CheckExisting(h) ==
  /\ req[h].pc = "check" /\ MuFree(sessions[req[h].id])
  /\ IF IsRunning(sessions[req[h].id])
     THEN Finish(h) /\ UNCHANGED sessions
     ELSE Goto(h, "spawn") /\ sessions' = [sessions EXCEPT ![req[h].id] = None]
  /\ UNCHANGED <<tool, gone, activeId, obj>>

Spawn(h, s) ==
  /\ req[h].pc = "spawn" /\ Garbage(s)
  /\ obj' = [obj EXCEPT ![s] = [Unused EXCEPT !.owner = req[h].id, !.proc = "running"]]
  /\ req' = [req EXCEPT ![h].pc = "register", ![h].ses = s]
  /\ UNCHANGED <<tool, gone, sessions, activeId>>

SpawnFails(h) ==
  /\ req[h].pc = "spawn"
  /\ Finish(h)
  /\ UNCHANGED <<tool, gone, sessions, activeId, obj>>

\* Map and active id are set under loginMu; the goroutines start after it.
Register(h) ==
  /\ req[h].pc = "register" /\ LoginMuFree
  /\ sessions' = [sessions EXCEPT ![req[h].id] = req[h].ses]
  /\ activeId' = req[h].id
  /\ obj' = [obj EXCEPT ![req[h].ses].waiter = "waiting"]
  /\ Goto(h, "url")
  /\ UNCHANGED <<tool, gone>>

\* One look of waitFor...LoginURL that ends the wait.
UrlSeen(h) ==
  /\ req[h].pc = "url" /\ MuFree(req[h].ses)
  /\ LET s == obj[req[h].ses]
     IN  \/ /\ s.status = "awaiting" \/ (s.url /\ s.status = "submitted")
            /\ Finish(h)
         \/ /\ s.status \in {"completed", "cancelled", "error"}
            /\ req' = [req EXCEPT ![h].pc = "find", ![h].ses = None]
  /\ UNCHANGED <<tool, gone, sessions, activeId, obj>>

\* 8 seconds without a URL: the login is cancelled.
UrlTimeout(h) ==
  /\ req[h].pc = "url"
  /\ req' = [req EXCEPT ![h].pc = "find", ![h].ses = None]
  /\ UNCHANGED <<tool, gone, sessions, activeId, obj>>

-----------------------------------------------------------------------------
(* cancel..., complete... and discard...OfficialLogin *)

Find(h) ==
  /\ req[h].pc = "find" /\ LoginMuFree
  /\ IF sessions[req[h].id] = None THEN Finish(h)
     ELSE req' = [req EXCEPT ![h].ses = sessions[req[h].id],
                             ![h].pc  = IF req[h].op = "complete" THEN "running" ELSE "kill"]
  /\ UNCHANGED <<tool, gone, sessions, activeId, obj>>

\* Mutant: the session's context is not cancelled.
Kill_Forgotten(h) ==
  /\ req[h].pc = "kill"
  /\ Goto(h, "wait")
  /\ UNCHANGED <<tool, gone, sessions, activeId, obj>>

Kill(h) ==
  /\ req[h].pc = "kill"
  /\ obj' = [obj EXCEPT ![req[h].ses].killed = TRUE]
  /\ Goto(h, "wait")
  /\ UNCHANGED <<tool, gone, sessions, activeId>>

MustRun(h) ==
  /\ req[h].pc = "running" /\ MuFree(req[h].ses)
  /\ IF IsRunning(req[h].ses) THEN Goto(h, "submit") ELSE Finish(h)
  /\ UNCHANGED <<tool, gone, sessions, activeId, obj>>

\* codex: the callback URL is fetched from the port the login process listens
\* on; whether anything answers is up to that process.
ForwardCallback(h) ==
  /\ req[h].pc = "submit" /\ tool = "codex"
  /\ Finish(h) \/ Goto(h, "wait")
  /\ UNCHANGED <<tool, gone, sessions, activeId, obj>>

\* claude: the code is written to the standard input of the login process.
SubmitAuthCode(h) ==
  /\ req[h].pc = "submit" /\ tool = "claude" /\ MuFree(req[h].ses)
  /\ \/ /\ obj[req[h].ses].status \in {"awaiting", "starting"}
        /\ obj' = [obj EXCEPT ![req[h].ses].status = "submitted"]
        /\ Goto(h, "wait")
     \/ /\ \/ obj[req[h].ses].status \notin {"awaiting", "starting"}
           \/ obj[req[h].ses].proc # "running"
        /\ UNCHANGED obj
        /\ Finish(h)
  /\ UNCHANGED <<tool, gone, sessions, activeId>>

\* Mutant: no time limit on the wait for the end of the login.
AfterWait_NoTimeout(h) ==
  {pc \in {"stat", "discard"} : Done(req[h].ses) /\ (pc = "stat" <=> req[h].op = "complete")}

\* The end of the login, or the time limit: 3 s for a cancellation, which goes
\* on regardless; 20 s (codex) or 60 s (claude) for a completion, which fails.
AfterWait(h) ==
  IF req[h].op = "complete" THEN {"idle"} \cup IF Done(req[h].ses) THEN {"stat"} ELSE {}
  ELSE {"discard"}

Await(h) ==
  /\ req[h].pc = "wait"
  /\ \E pc \in AfterWait(h) : IF pc = "idle" THEN Finish(h) ELSE Goto(h, pc)
  /\ UNCHANGED <<tool, gone, sessions, activeId, obj>>

\* The credentials may or may not be in the account's private home.
StatCredentials(h) ==
  /\ req[h].pc = "stat"
  /\ Goto(h, "outcome") \/ Finish(h)
  /\ UNCHANGED <<tool, gone, sessions, activeId, obj>>

Outcome(h) ==
  /\ req[h].pc = "outcome" /\ MuFree(req[h].ses)
  /\ IF obj[req[h].ses].status = "completed" THEN Goto(h, "discard") ELSE Finish(h)
  /\ UNCHANGED <<tool, gone, sessions, activeId, obj>>

\* Mutant: the active id is left alone.
Discard_KeepActive(h) ==
  /\ req[h].pc = "discard" /\ LoginMuFree
  /\ sessions' = [sessions EXCEPT ![req[h].id] = None]
  /\ Finish(h)
  /\ UNCHANGED <<tool, gone, activeId, obj>>

\* By account: whatever session the account has by now.
Discard(h) ==
  /\ req[h].pc = "discard" /\ LoginMuFree
  /\ sessions' = [sessions EXCEPT ![req[h].id] = None]
  /\ activeId' = IF activeId = req[h].id THEN None ELSE activeId
  /\ Finish(h)
  /\ UNCHANGED <<tool, gone, obj>>

-----------------------------------------------------------------------------
(* The goroutines of a session. *)

RecordLine(s) ==
  /\ obj[s].line /\ obj[s].waiter # "none" /\ MuFree(s)
  /\ obj' = [obj EXCEPT ![s].line = FALSE, ![s].url = TRUE, ![s].status = "awaiting"]
  /\ UNCHANGED <<tool, gone, sessions, activeId, req>>

\* Wait closes the pipes when the process has ended, read or not.
LineLost(s) ==
  /\ obj[s].line /\ Done(s)
  /\ obj' = [obj EXCEPT ![s].line = FALSE]
  /\ UNCHANGED <<tool, gone, sessions, activeId, req>>

\* The process has ended: status and done channel, with the session locked.
WaitEnds(s) ==
  /\ obj[s].waiter = "waiting" /\ obj[s].proc # "running"
  /\ obj' = [obj EXCEPT ![s].waiter = "clearing",
       ![s].status = CASE obj[s].proc = "ok"     -> "completed"
                       [] obj[s].proc = "killed" -> "cancelled"
                       [] OTHER                  -> "error"]
  /\ UNCHANGED <<tool, gone, sessions, activeId, req>>

\* Mutant: the goroutine looks the account up first.
ClearActive_LooksUp(s) ==
  /\ obj[s].waiter = "clearing" /\ LoginMuFree
  /\ activeId' = IF activeId = obj[s].owner /\ activeId \notin gone THEN None ELSE activeId
  /\ obj' = [obj EXCEPT ![s].waiter = "over"]
  /\ UNCHANGED <<tool, gone, sessions, req>>

ClearActive(s) ==
  /\ obj[s].waiter = "clearing" /\ LoginMuFree
  /\ activeId' = IF activeId = obj[s].owner THEN None ELSE activeId
  /\ obj' = [obj EXCEPT ![s].waiter = "over"]
  /\ UNCHANGED <<tool, gone, sessions, req>>

-----------------------------------------------------------------------------
(* The login process (the tool's own command). *)

PrintUrl(s) ==
  /\ obj[s].proc = "running" /\ ~obj[s].line /\ ~obj[s].url
  /\ obj' = [obj EXCEPT ![s].line = TRUE]
  /\ UNCHANGED <<tool, gone, sessions, activeId, req>>

\* It ends when the browser has been through, or for any other reason.
Exit(s, how) ==
  /\ obj[s].proc = "running"
  /\ obj' = [obj EXCEPT ![s].proc = how]
  /\ UNCHANGED <<tool, gone, sessions, activeId, req>>

\* SIGKILL, from the cancelled context.
Die(s) ==
  /\ obj[s].proc = "running" /\ obj[s].killed
  /\ obj' = [obj EXCEPT ![s].proc = "killed"]
  /\ UNCHANGED <<tool, gone, sessions, activeId, req>>

-----------------------------------------------------------------------------
Start(h) ==
  \/ Admit(h)
  \/ CheckExisting(h)
  \/ \E s \in Sessions : Spawn(h, s)
  \/ SpawnFails(h)
  \/ Register(h)
  \/ UrlSeen(h)
  \/ UrlTimeout(h)

EndOrCancel(h) ==
  \/ Find(h)
  \/ Kill(h)
  \/ MustRun(h)
  \/ ForwardCallback(h)
  \/ SubmitAuthCode(h)
  \/ Await(h)
  \/ StatCredentials(h)
  \/ Outcome(h)
  \/ Discard(h)

Serve(h) == Start(h) \/ EndOrCancel(h)
Goroutine(s) == RecordLine(s) \/ LineLost(s) \/ WaitEnds(s) \/ ClearActive(s)

Environment ==
  \/ \E h \in Handlers, a \in Accounts :
       \/ Receive(h, "start", a)
       \/ Receive(h, "complete", a)
       \/ Receive(h, "cancel", a)
  \/ \E a \in Accounts : DeleteAccount(a) \/ CreateAccount(a)
  \/ \E s \in Sessions : PrintUrl(s) \/ Exit(s, "ok") \/ Exit(s, "failed")

Next ==
  \/ \E h \in Handlers : Serve(h)
  \/ \E s \in Sessions : Goroutine(s) \/ Die(s)
  \/ Environment

Spec == Init /\ [][Next]_vars

\* Goroutines are scheduled, timers fire, a killed process dies.  The clients,
\* and a login process that was not killed, owe nothing.
FairSpec ==
  /\ Spec
  /\ \A h \in Handlers : WF_vars(Serve(h))
  /\ \A s \in Sessions : WF_vars(Goroutine(s)) /\ WF_vars(Die(s))

-----------------------------------------------------------------------------
(* Properties. *)

\* The active id bars the other accounts from logging in.  It never does so
\* without a session of its account, to be cancelled or completed, and never
\* once the goroutine that lifts the bar is over: neither overlapping starts,
\* cancellations and completions nor a discard of a newer session leave a bar
\* behind that nothing would lift.
BarIsLifted ==
  activeId # None =>
    /\ sessions[activeId] # None
    /\ obj[sessions[activeId]].waiter # "over"

\* The session of a running login that was not told to stop is the one its
\* account is mapped to: a cancel reaches it, a second start sees it.
Live(s) == obj[s].proc = "running" /\ ~obj[s].killed
Cancellable ==
  \A s \in Sessions : Live(s) /\ obj[s].waiter # "none" => sessions[obj[s].owner] = s

\* With requests one at a time, a start that holds loginMu finds the lock of its
\* account's session free: it never waits for a lock while it holds another
\* (codex_official_login.go:72), the opposite of the goroutine, which waits for
\* loginMu with the session locked (:297).
LocksNotCrossed ==
  \A h \in Handlers : req[h].pc = "check" => MuFree(sessions[req[h].id])

\* One login of a tool at a time, whatever the account.
OneLoginAtATime == \A s, t \in Sessions : Live(s) /\ Live(t) => s = t

\* The bar falls when the login it is about has ended, though nobody may be
\* able to ask for that any more: the account may be deleted while it logs in
\* (server.go:394), and only the goroutine that waits for the process is left.
BarFalls ==
  \A a \in Accounts :
    activeId = a /\ obj[sessions[a]].proc # "running" ~> activeId # a

\* Every request is answered: all the waits for the login process are bounded.
RequestsAnswered == \A h \in Handlers : req[h].pc # "idle" ~> req[h].pc = "idle"
=============================================================================
