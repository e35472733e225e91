---------------------------- MODULE LoginHistory ----------------------------
(***************************************************************************)
(* OfficialLogin with its memory of one thing.  A cancellation waits three *)
(* seconds for the login to end and then forgets its session regardless.   *)
(* The goroutine of a forgotten session still clears the active id when    *)
(* its process ends, by account, and so may lift the bar that the          *)
(* account's next login has put up.  The history variable remembers the    *)
(* accounts of which that can be true; no step of OfficialLogin looks at   *)
(* it.                                                                     *)
(***************************************************************************)
EXTENDS OfficialLogin

VARIABLE outlived  \* accounts that have had a login going on since before a session
                   \* of theirs was forgotten ahead of its goroutine's end

histVars == <<vars, outlived>>

\* A request forgets a session whose goroutine is not over.
Forgets(h) ==
  /\ req[h].pc = "discard" /\ req'[h] # req[h]
  /\ sessions[req[h].id] # None
  /\ obj[sessions[req[h].id]].waiter # "over"

\* Some login of the account has a goroutine to come or at work.
Unfinished(a) == \E s \in Sessions : obj[s].owner = a /\ obj[s].waiter # "over"

InitH == Init /\ outlived = {}

Remember ==
  outlived' = {a \in outlived \cup {req[h].id : h \in {g \in Handlers : Forgets(g)}} :
                 Unfinished(a)'}

NextH == Next /\ Remember

SpecH == InitH /\ [][NextH]_histVars

\* The fairness of OfficialLogin.
FairSpecH ==
  /\ SpecH
  /\ \A h \in Handlers : WF_vars(Serve(h))
  /\ \A s \in Sessions : WF_vars(Goroutine(s)) /\ WF_vars(Die(s))

-----------------------------------------------------------------------------
\* With requests one at a time, two logins of a tool are in progress together
\* only if a cancellation, or a start without a URL, gave up waiting for a login
\* of one of the two accounts (codex_official_login.go:190) and that account has
\* had a login going on ever since.  Otherwise the active id, which a start sets
\* and which a discard or any goroutine of the account clears, holds every other
\* account back until the login has ended.
AloneUnlessOutlived ==
  \A s, t \in Sessions :
    Live(s) /\ Live(t) /\ {obj[s].owner, obj[t].owner} \cap outlived = {} => s = t
=============================================================================
