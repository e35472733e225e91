------------------------- MODULE OfficialLoginProofs -------------------------
(***************************************************************************)
(* The active id never bars the other accounts for good, however starts,   *)
(* completions, cancellations and the goroutines of old sessions overlap.  *)
(* What carries the proof: a mapped session belongs to its account, a      *)
(* session about to be mapped is known to nobody else, and a session whose *)
(* waiting goroutine has not begun to finish still counts as running, so   *)
(* that a start drops it only once the goroutine is over.  And without     *)
(* overlap no login in progress is ever out of reach of a cancel, no start *)
(* waits for a lock while it holds another, and one login is in progress   *)
(* at a time but for accounts that have outlived a forgotten session.      *)
(***************************************************************************)
EXTENDS LoginHistory, TLAPS

Running == {"starting", "awaiting", "submitted"}

Placed == \A h \in Handlers : req[h].pc # "idle" => req[h].id \in Accounts

Owned ==
  \A a \in Accounts :
    sessions[a] # None => obj[sessions[a]].owner = a /\ obj[sessions[a]].waiter # "none"

Registering ==
  \A h \in Handlers :
    req[h].pc = "register" =>
      /\ req[h].ses \in Sessions
      /\ obj[req[h].ses].owner = req[h].id
      /\ obj[req[h].ses].waiter = "none"
      /\ \A g \in Handlers \ {h} : req[g].ses # req[h].ses

CountsAsRunning ==
  \A s \in Sessions :
    /\ obj[s].waiter \in {"none", "waiting"} => obj[s].status \in Running
    /\ tool = "codex" => obj[s].status # "submitted"

LoginInv == TypeOK /\ Placed /\ Owned /\ Registering /\ CountsAsRunning /\ BarIsLifted

-----------------------------------------------------------------------------
LEMMA InitInv == Init => LoginInv
  BY NoneApart
  DEF Init, LoginInv, TypeOK, Placed, Owned, Registering, CountsAsRunning, BarIsLifted,
      Session, Unused, Request, Idle, Running

\* A step of one request that changes neither sessions nor the active id.
LEMMA RequestStep ==
  ASSUME LoginInv, NEW h \in Handlers, NEW q \in Request,
         req' = [req EXCEPT ![h] = q],
         q.pc # "register", q.pc # "idle" => q.id \in Accounts,
         q.ses \in {None, req[h].ses} \cup {sessions[a] : a \in Accounts},
         UNCHANGED <<tool, gone, sessions, activeId, obj>>
  PROVE  LoginInv'
<1> USE DEF LoginInv
<1>1. req'[h] = q /\ \A g \in Handlers \ {h} : req'[g] = req[g]
  BY DEF TypeOK
<1>2. TypeOK'
  BY DEF TypeOK
<1>3. Placed'
  BY <1>1 DEF Placed
<1>4. Registering'
  <2> SUFFICES ASSUME NEW g \in Handlers, req'[g].pc = "register"
               PROVE  /\ req'[g].ses \in Sessions
                      /\ obj[req'[g].ses].owner = req'[g].id
                      /\ obj[req'[g].ses].waiter = "none"
                      /\ \A f \in Handlers \ {g} : req'[f].ses # req'[g].ses
    BY DEF Registering
  <2>1. g # h /\ req'[g] = req[g]
    BY <1>1
  <2>2. req[g].ses \in Sessions /\ obj[req[g].ses].waiter = "none"
    BY <2>1 DEF Registering
  <2>3. \A a \in Accounts : sessions[a] # req[g].ses
    BY <2>2, NoneApart DEF Owned, TypeOK
  <2>4. req[h].ses # req[g].ses /\ None # req[g].ses
    BY <2>1, <2>2, NoneApart DEF Registering
  <2>5. q.ses # req[g].ses
    BY <2>3, <2>4
  <2> QED BY <1>1, <2>1, <2>5 DEF Registering
<1> QED BY <1>2, <1>3, <1>4 DEF Owned, CountsAsRunning, BarIsLifted

\* A step of one request to another label, or to its end.
LEMMA MoveStep ==
  ASSUME LoginInv, NEW h \in Handlers, req[h].pc # "idle", NEW pc,
         pc \in {"idle", "admit", "check", "spawn", "url", "find", "running", "submit", "kill",
                 "wait", "stat", "outcome", "discard"},
         Goto(h, pc) \/ Finish(h),
         UNCHANGED <<tool, gone, sessions, activeId, obj>>
  PROVE  LoginInv'
<1>1. req[h] \in Request /\ req[h].id \in Accounts
  BY DEF LoginInv, TypeOK, Placed
<1>2. CASE Goto(h, pc)
  <2> DEFINE q == [req[h] EXCEPT !.pc = pc]
  <2>1. q \in Request /\ q.pc = pc /\ q.id = req[h].id /\ q.ses = req[h].ses
    BY <1>1 DEF Request
  <2>2. req' = [req EXCEPT ![h] = q]
    BY <1>2 DEF Goto
  <2> HIDE DEF q
  <2> QED BY <1>1, <2>1, <2>2, RequestStep
<1>3. CASE Finish(h)
  <2>1. Idle \in Request /\ Idle.pc = "idle" /\ Idle.ses = None
    BY DEF Idle, Request
  <2>2. req' = [req EXCEPT ![h] = Idle]
    BY <1>3 DEF Finish
  <2> QED BY <2>1, <2>2, RequestStep
<1> QED BY <1>2, <1>3

\* A session object changes, and one request may move on: the waiting goroutine
\* neither starts nor ends.
LEMMA ObjectStep ==
  ASSUME LoginInv, NEW s \in Sessions, NEW o \in Session,
         obj' = [obj EXCEPT ![s] = o],
         o.owner = obj[s].owner,
         o.waiter = obj[s].waiter \/ (obj[s].waiter = "waiting" /\ o.waiter = "clearing"),
         o.waiter \in {"none", "waiting"} => o.status \in Running,
         tool = "codex" => o.status # "submitted",
         UNCHANGED <<tool, gone, sessions, activeId, req>>
  PROVE  LoginInv'
<1> USE DEF LoginInv
<1>1. obj'[s] = o /\ \A t \in Sessions \ {s} : obj'[t] = obj[t]
  BY DEF TypeOK
<1>2. TypeOK'
  BY DEF TypeOK
<1>3. Owned'
  BY <1>1 DEF Owned, TypeOK
<1>4. Registering'
  BY <1>1 DEF Registering
<1>5. CountsAsRunning'
  BY <1>1 DEF CountsAsRunning
<1>6. BarIsLifted'
  BY <1>1 DEF BarIsLifted, TypeOK
<1> QED BY <1>2, <1>3, <1>4, <1>5, <1>6 DEF Placed

\* The invariant does not depend on which label, other than "register", a
\* request that stays busy is at.
LEMMA MoveAfter ==
  ASSUME LoginInv, NEW h \in Handlers, req[h].pc # "idle", NEW s \in Sessions,
         NEW o \in Session, NEW pc \in {"wait", "url"},
         Goto(h, pc), obj' = [obj EXCEPT ![s] = o],
         o.owner = obj[s].owner, o.waiter = obj[s].waiter,
         o.waiter \in {"none", "waiting"} => o.status \in Running,
         tool = "codex" => o.status # "submitted",
         UNCHANGED <<tool, gone, sessions, activeId>>
  PROVE  LoginInv'
<1> USE DEF LoginInv
<1>1. obj'[s] = o /\ \A t \in Sessions \ {s} : obj'[t] = obj[t]
  BY DEF TypeOK
<1> DEFINE q == [req[h] EXCEPT !.pc = pc]
<1>2. req[h] \in Request /\ req[h].id \in Accounts
  BY DEF TypeOK, Placed
<1>3. q \in Request /\ q.pc = pc /\ q.id = req[h].id /\ q.ses = req[h].ses
  BY <1>2 DEF Request
<1>4. req' = [req EXCEPT ![h] = q]
  BY DEF Goto
<1> HIDE DEF q
<1>5. req'[h] = q /\ \A g \in Handlers \ {h} : req'[g] = req[g]
  BY <1>4 DEF TypeOK
<1>6. TypeOK'
  BY <1>3, <1>4 DEF TypeOK
<1>7. Owned'
  BY <1>1 DEF Owned, TypeOK
<1>8. Registering'
  <2> SUFFICES ASSUME NEW g \in Handlers, req'[g].pc = "register"
               PROVE  /\ req'[g].ses \in Sessions
                      /\ obj'[req'[g].ses].owner = req'[g].id
                      /\ obj'[req'[g].ses].waiter = "none"
                      /\ \A f \in Handlers \ {g} : req'[f].ses # req'[g].ses
    BY DEF Registering
  <2>1. g # h /\ req'[g] = req[g] /\ \A f \in Handlers : req'[f].ses = req[f].ses
    BY <1>3, <1>5
  <2> QED BY <1>1, <2>1 DEF Registering
<1>9. CountsAsRunning'
  BY <1>1 DEF CountsAsRunning
<1>10. BarIsLifted'
  BY <1>1 DEF BarIsLifted, TypeOK
<1>11. Placed'
  BY <1>2, <1>3, <1>5 DEF Placed
<1> QED BY <1>6, <1>7, <1>8, <1>9, <1>10, <1>11

-----------------------------------------------------------------------------
(* The steps that change the map, the active id or the number of goroutines. *)

LEMMA ReceiveInv ==
  ASSUME LoginInv, NEW h \in Handlers, NEW a \in Accounts,
         NEW op \in {"start", "complete", "cancel"}, Receive(h, op, a)
  PROVE  LoginInv'
<1> DEFINE q == [Idle EXCEPT !.pc = FirstPc(op), !.op = op, !.id = a]
<1>1. q \in Request /\ q.pc \in {"admit", "find"} /\ q.id = a /\ q.ses = None
  BY DEF Idle, Request, FirstPc
<1>2. req' = [req EXCEPT ![h] = q] /\ UNCHANGED <<tool, gone, sessions, activeId, obj>>
  BY DEF Receive
<1> HIDE DEF q
<1> QED BY <1>1, <1>2, RequestStep

LEMMA FindInv ==
  ASSUME LoginInv, NEW h \in Handlers, Find(h)
  PROVE  LoginInv'
<1>1. req[h] \in Request /\ req[h].id \in Accounts /\ req[h].pc = "find"
  BY DEF LoginInv, TypeOK, Placed, Find
<1>2. CASE sessions[req[h].id] = None
  BY <1>1, <1>2, MoveStep DEF Find
<1>3. CASE sessions[req[h].id] # None
  <2> DEFINE pc == IF req[h].op = "complete" THEN "running" ELSE "kill"
             q == [req[h] EXCEPT !.ses = sessions[req[h].id], !.pc = pc]
  <2>1. sessions[req[h].id] \in Sessions
    BY <1>1, <1>3 DEF LoginInv, TypeOK
  <2>2. q \in Request /\ q.pc \in {"running", "kill"} /\ q.id = req[h].id
        /\ q.ses = sessions[req[h].id]
    BY <1>1, <2>1 DEF Request
  <2>3. req' = [req EXCEPT ![h] = q] /\ UNCHANGED <<tool, gone, sessions, activeId, obj>>
    BY <1>3 DEF Find
  <2> HIDE DEF q
  <2> QED BY <1>1, <2>2, <2>3, RequestStep
<1> QED BY <1>2, <1>3

\* The wait for the URL ends without one: the request forgets its session.
LEMMA UrlInv ==
  ASSUME LoginInv, NEW h \in Handlers, UrlSeen(h) \/ UrlTimeout(h)
  PROVE  LoginInv'
<1> DEFINE q == [req[h] EXCEPT !.pc = "find", !.ses = None]
<1>1. req[h] \in Request /\ req[h].id \in Accounts /\ req[h].pc = "url"
      /\ UNCHANGED <<tool, gone, sessions, activeId, obj>>
  BY DEF LoginInv, TypeOK, Placed, UrlSeen, UrlTimeout
<1>2. q \in Request /\ q.pc = "find" /\ q.id = req[h].id /\ q.ses = None
  BY <1>1 DEF Request
<1>3. CASE req' = [req EXCEPT ![h] = q]
  <2> HIDE DEF q
  <2> QED BY <1>1, <1>2, <1>3, RequestStep
<1>4. CASE Finish(h)
  BY <1>1, <1>4, MoveStep
<1>5. req' = [req EXCEPT ![h] = q] \/ Finish(h)
  BY <1>1 DEF UrlSeen, UrlTimeout
<1> QED BY <1>3, <1>4, <1>5

\* A start drops the account's old session only when the goroutine of that is
\* over, so the active id is not the account's.
LEMMA CheckExistingInv ==
  ASSUME LoginInv, NEW h \in Handlers, CheckExisting(h)
  PROVE  LoginInv'
<1> DEFINE a == req[h].id
<1>1. req[h] \in Request /\ a \in Accounts /\ req[h].pc = "check"
  BY DEF LoginInv, TypeOK, Placed, CheckExisting
<1>2. CASE IsRunning(sessions[a])
  BY <1>1, <1>2, MoveStep DEF CheckExisting
<1>3. CASE ~IsRunning(sessions[a])
  <2> DEFINE q == [req[h] EXCEPT !.pc = "spawn"]
  <2>1. q \in Request /\ q.pc = "spawn" /\ q.id = a /\ q.ses = req[h].ses
    BY <1>1 DEF Request
  <2>2. req' = [req EXCEPT ![h] = q] /\ sessions' = [sessions EXCEPT ![a] = None]
        /\ UNCHANGED <<tool, gone, activeId, obj>>
    BY <1>3 DEF CheckExisting, Goto
  <2> HIDE DEF q
  <2>3. req'[h] = q /\ \A g \in Handlers \ {h} : req'[g] = req[g]
    BY <2>2 DEF LoginInv, TypeOK
  <2>4. activeId # a
    <3>1. SUFFICES ASSUME sessions[a] # None, activeId = a PROVE FALSE
      BY <1>1, NoneApart DEF LoginInv, BarIsLifted
    <3>2. sessions[a] \in Sessions /\ MuFree(sessions[a])
      BY <1>1, <3>1 DEF LoginInv, TypeOK, CheckExisting
    <3>3. obj[sessions[a]].waiter \in {"none", "waiting"}
      BY <1>1, <3>1, <3>2, NoneApart
      DEF LoginInv, BarIsLifted, MuFree, TypeOK, Session
    <3>4. obj[sessions[a]].status \in Running /\ tool \in {"codex", "claude"}
          /\ (tool = "codex" => obj[sessions[a]].status # "submitted")
      BY <3>2, <3>3 DEF LoginInv, CountsAsRunning, TypeOK
    <3>5. IsRunning(sessions[a])
      BY <3>4 DEF IsRunning, Running
    <3> QED BY <1>3, <3>5
  <2>5. TypeOK'
    BY <2>1, <2>2 DEF LoginInv, TypeOK
  <2>6. Placed'
    BY <1>1, <2>1, <2>3 DEF LoginInv, Placed
  <2>7. Owned'
    BY <1>1, <2>2 DEF LoginInv, Owned, TypeOK
  <2>8. Registering'
    BY <2>1, <2>2, <2>3 DEF LoginInv, Registering
  <2>9. CountsAsRunning'
    BY <2>2 DEF LoginInv, CountsAsRunning
  <2>10. BarIsLifted'
    BY <1>1, <2>2, <2>4 DEF LoginInv, BarIsLifted, TypeOK
  <2> QED BY <2>5, <2>6, <2>7, <2>8, <2>9, <2>10 DEF LoginInv
<1> QED BY <1>2, <1>3

\* The new session is a fresh object.
LEMMA SpawnInv ==
  ASSUME LoginInv, NEW h \in Handlers, NEW s \in Sessions, Spawn(h, s)
  PROVE  LoginInv'
<1> DEFINE q == [req[h] EXCEPT !.pc = "register", !.ses = s]
           o == [Unused EXCEPT !.owner = req[h].id, !.proc = "running"]
<1>1. req[h] \in Request /\ req[h].id \in Accounts /\ req[h].pc = "spawn"
  BY DEF LoginInv, TypeOK, Placed, Spawn
<1>2. q \in Request /\ q.pc = "register" /\ q.id = req[h].id /\ q.ses = s
  BY <1>1 DEF Request
<1>3. /\ o \in Session /\ o.owner = req[h].id /\ o.waiter = "none"
      /\ o.status \in Running /\ o.status # "submitted"
  BY <1>1 DEF Session, Unused, Running
<1>4. /\ req' = [req EXCEPT ![h] = q] /\ obj' = [obj EXCEPT ![s] = o]
      /\ UNCHANGED <<tool, gone, sessions, activeId>>
  BY DEF Spawn
<1>5. /\ \A a \in Accounts : sessions[a] # s
      /\ \A g \in Handlers : req[g].ses # s
  BY DEF Spawn, Garbage
<1> HIDE DEF q, o
<1>6. req'[h] = q /\ \A g \in Handlers \ {h} : req'[g] = req[g]
  BY <1>4 DEF LoginInv, TypeOK
<1>7. obj'[s] = o /\ \A t \in Sessions \ {s} : obj'[t] = obj[t]
  BY <1>4 DEF LoginInv, TypeOK
<1>8. TypeOK'
  BY <1>2, <1>3, <1>4 DEF LoginInv, TypeOK
<1>9. Placed'
  BY <1>1, <1>2, <1>6 DEF LoginInv, Placed
<1>10. Owned'
  BY <1>4, <1>5, <1>7 DEF LoginInv, Owned, TypeOK
<1>11. Registering'
  <2> SUFFICES ASSUME NEW g \in Handlers, req'[g].pc = "register"
               PROVE  /\ req'[g].ses \in Sessions
                      /\ obj'[req'[g].ses].owner = req'[g].id
                      /\ obj'[req'[g].ses].waiter = "none"
                      /\ \A f \in Handlers \ {g} : req'[f].ses # req'[g].ses
    BY DEF Registering
  <2>1. CASE g = h
    BY <1>2, <1>3, <1>5, <1>6, <1>7, <2>1
  <2>2. CASE g # h
    BY <1>2, <1>5, <1>6, <1>7, <2>2 DEF LoginInv, Registering
  <2> QED BY <2>1, <2>2
<1>12. CountsAsRunning'
  BY <1>3, <1>4, <1>7 DEF LoginInv, CountsAsRunning
<1>13. BarIsLifted'
  BY <1>4, <1>5, <1>7 DEF LoginInv, BarIsLifted, TypeOK
<1> QED BY <1>8, <1>9, <1>10, <1>11, <1>12, <1>13 DEF LoginInv

LEMMA RegisterInv ==
  ASSUME LoginInv, NEW h \in Handlers, Register(h)
  PROVE  LoginInv'
<1> DEFINE s == req[h].ses
           a == req[h].id
           q == [req[h] EXCEPT !.pc = "url"]
           o == [obj[s] EXCEPT !.waiter = "waiting"]
<1>1. req[h] \in Request /\ a \in Accounts /\ req[h].pc = "register"
  BY DEF LoginInv, TypeOK, Placed, Register
<1>2. /\ s \in Sessions /\ obj[s].owner = a /\ obj[s].waiter = "none"
      /\ \A g \in Handlers \ {h} : req[g].ses # s
  BY <1>1 DEF LoginInv, Registering
<1>3. obj[s] \in Session /\ obj[s].status \in Running
      /\ (tool = "codex" => obj[s].status # "submitted")
  BY <1>2 DEF LoginInv, TypeOK, CountsAsRunning
<1>4. /\ o \in Session /\ o.owner = a /\ o.waiter = "waiting"
      /\ o.status = obj[s].status
  BY <1>2, <1>3 DEF Session
<1>5. q \in Request /\ q.pc = "url" /\ q.id = a
  BY <1>1 DEF Request
<1>6. /\ req' = [req EXCEPT ![h] = q] /\ obj' = [obj EXCEPT ![s] = o]
      /\ sessions' = [sessions EXCEPT ![a] = s] /\ activeId' = a /\ UNCHANGED <<tool, gone>>
  BY DEF Register, Goto
<1> HIDE DEF q, o
<1>7. req'[h] = q /\ \A g \in Handlers \ {h} : req'[g] = req[g]
  BY <1>6 DEF LoginInv, TypeOK
<1>8. obj'[s] = o /\ \A t \in Sessions \ {s} : obj'[t] = obj[t]
  BY <1>2, <1>6 DEF LoginInv, TypeOK
<1>9. sessions'[a] = s /\ \A b \in Accounts \ {a} : sessions'[b] = sessions[b]
  BY <1>1, <1>6 DEF LoginInv, TypeOK
<1>10. TypeOK'
  BY <1>1, <1>2, <1>4, <1>5, <1>6 DEF LoginInv, TypeOK
<1>11. Placed'
  BY <1>1, <1>5, <1>7 DEF LoginInv, Placed
<1>12. Owned'
  <2> SUFFICES ASSUME NEW b \in Accounts, sessions'[b] # None
               PROVE  obj'[sessions'[b]].owner = b /\ obj'[sessions'[b]].waiter # "none"
    BY DEF Owned
  <2>1. CASE b = a
    BY <1>4, <1>8, <1>9, <2>1
  <2>2. CASE b # a
    <3>1. sessions[b] \in Sessions /\ sessions'[b] = sessions[b]
      BY <1>9, <2>2 DEF LoginInv, TypeOK
    <3>2. obj[sessions[b]].owner = b /\ obj[sessions[b]].waiter # "none"
      BY <3>1, NoneApart DEF LoginInv, Owned
    <3>3. sessions[b] # s
      BY <1>2, <2>2, <3>2
    <3> QED BY <1>8, <3>1, <3>2, <3>3
  <2> QED BY <2>1, <2>2
<1>13. Registering'
  <2> SUFFICES ASSUME NEW g \in Handlers, req'[g].pc = "register"
               PROVE  /\ req'[g].ses \in Sessions
                      /\ obj'[req'[g].ses].owner = req'[g].id
                      /\ obj'[req'[g].ses].waiter = "none"
                      /\ \A f \in Handlers \ {g} : req'[f].ses # req'[g].ses
    BY DEF Registering
  <2>1. g # h /\ req'[g] = req[g]
    BY <1>5, <1>7
  <2>2. req[g].ses \in Sessions /\ req[g].ses # s
    BY <1>2, <2>1 DEF LoginInv, Registering
  <2>3. req'[h].ses = s
    BY <1>1, <1>7 DEF q, Request
  <2> QED BY <1>7, <1>8, <2>1, <2>2, <2>3 DEF LoginInv, Registering
<1>14. CountsAsRunning'
  BY <1>3, <1>4, <1>6, <1>8 DEF LoginInv, CountsAsRunning
<1>15. BarIsLifted'
  BY <1>2, <1>4, <1>6, <1>8, <1>9, NoneApart DEF BarIsLifted
<1> QED BY <1>10, <1>11, <1>12, <1>13, <1>14, <1>15 DEF LoginInv

LEMMA DiscardInv ==
  ASSUME LoginInv, NEW h \in Handlers, Discard(h)
  PROVE  LoginInv'
<1>1. req[h] \in Request /\ req[h].id \in Accounts /\ req[h].pc = "discard"
  BY DEF LoginInv, TypeOK, Placed, Discard
<1> DEFINE q == Idle
<1>2. q \in Request /\ q.pc = "idle" /\ q.ses = None
  BY DEF Idle, Request
<1>3. /\ req' = [req EXCEPT ![h] = q] /\ sessions' = [sessions EXCEPT ![req[h].id] = None]
      /\ activeId' = IF activeId = req[h].id THEN None ELSE activeId
      /\ UNCHANGED <<tool, gone, obj>>
  BY DEF Discard, Finish
<1> HIDE DEF q
<1>4. req'[h] = q /\ \A g \in Handlers \ {h} : req'[g] = req[g]
  BY <1>3 DEF LoginInv, TypeOK
<1>5. TypeOK'
  BY <1>2, <1>3 DEF LoginInv, TypeOK
<1>6. Placed'
  BY <1>2, <1>4 DEF LoginInv, Placed
<1>7. Owned'
  BY <1>1, <1>3 DEF LoginInv, Owned, TypeOK
<1>8. Registering'
  BY <1>2, <1>3, <1>4, NoneApart DEF LoginInv, Registering
<1>9. CountsAsRunning'
  BY <1>3 DEF LoginInv, CountsAsRunning
<1>10. BarIsLifted'
  BY <1>1, <1>3 DEF LoginInv, BarIsLifted, TypeOK
<1> QED BY <1>5, <1>6, <1>7, <1>8, <1>9, <1>10 DEF LoginInv

\* The row of an account comes or goes: an id that is used again has left only
\* an ended session behind.
LEMMA DeleteAccountInv ==
  ASSUME LoginInv, NEW a \in Accounts, DeleteAccount(a)
  PROVE  LoginInv'
  BY DEF DeleteAccount, LoginInv, TypeOK, Placed, Owned, Registering, CountsAsRunning, BarIsLifted

LEMMA CreateAccountInv ==
  ASSUME LoginInv, NEW a \in Accounts, CreateAccount(a)
  PROVE  LoginInv'
<1>1. /\ sessions' = [sessions EXCEPT ![a] = None] /\ gone' = gone \ {a} /\ activeId # a
      /\ UNCHANGED <<tool, activeId, obj, req>>
  BY DEF CreateAccount, Forgotten
<1>2. TypeOK'
  BY <1>1 DEF LoginInv, TypeOK
<1>3. Owned'
  BY <1>1 DEF LoginInv, Owned, TypeOK
<1>4. BarIsLifted'
  BY <1>1 DEF LoginInv, BarIsLifted, TypeOK
<1> QED BY <1>1, <1>2, <1>3, <1>4 DEF LoginInv, Placed, Registering, CountsAsRunning

\* The goroutine ends: if its account is the active one, no more.
LEMMA ClearActiveInv ==
  ASSUME LoginInv, NEW s \in Sessions, ClearActive(s)
  PROVE  LoginInv'
<1> DEFINE o == [obj[s] EXCEPT !.waiter = "over"]
<1>1. obj[s] \in Session /\ obj[s].waiter = "clearing"
  BY DEF LoginInv, TypeOK, ClearActive
<1>2. o \in Session /\ o.waiter = "over" /\ o.owner = obj[s].owner /\ o.status = obj[s].status
  BY <1>1 DEF Session
<1>3. /\ obj' = [obj EXCEPT ![s] = o]
      /\ activeId' = IF activeId = obj[s].owner THEN None ELSE activeId
      /\ UNCHANGED <<tool, gone, sessions, req>>
  BY DEF ClearActive
<1> HIDE DEF o
<1>4. obj'[s] = o /\ \A t \in Sessions \ {s} : obj'[t] = obj[t]
  BY <1>3 DEF LoginInv, TypeOK
<1>5. TypeOK'
  BY <1>2, <1>3 DEF LoginInv, TypeOK
<1>6. Owned'
  BY <1>2, <1>3, <1>4 DEF LoginInv, Owned, TypeOK
<1>7. Registering'
  BY <1>1, <1>3, <1>4 DEF LoginInv, Registering
<1>8. CountsAsRunning'
  BY <1>2, <1>3, <1>4 DEF LoginInv, CountsAsRunning
<1>9. BarIsLifted'
  <2> SUFFICES ASSUME activeId' # None
               PROVE  sessions[activeId'] # None /\ obj'[sessions[activeId']].waiter # "over"
    BY <1>3 DEF BarIsLifted
  <2>1. activeId' = activeId /\ activeId # obj[s].owner /\ activeId \in Accounts
    BY <1>3 DEF LoginInv, TypeOK
  <2>2. sessions[activeId] # None /\ obj[sessions[activeId]].waiter # "over"
    BY <2>1 DEF LoginInv, BarIsLifted
  <2>3. sessions[activeId] \in Sessions /\ sessions[activeId] # s
    BY <2>1, <2>2 DEF LoginInv, Owned, TypeOK
  <2> QED BY <1>4, <2>1, <2>2, <2>3
<1> QED BY <1>3, <1>5, <1>6, <1>7, <1>8, <1>9 DEF LoginInv, Placed

-----------------------------------------------------------------------------
(* The other steps of the goroutines, the login process and the requests. *)

LEMMA RecordLineInv ==
  ASSUME LoginInv, NEW s \in Sessions, RecordLine(s)
  PROVE  LoginInv'
<1> DEFINE o == [obj[s] EXCEPT !.line = FALSE, !.url = TRUE, !.status = "awaiting"]
<1>1. obj[s] \in Session /\ CountsAsRunning
  BY DEF LoginInv, TypeOK
<1>2. /\ o \in Session /\ o.owner = obj[s].owner
      /\ o.waiter = obj[s].waiter \/ (obj[s].waiter = "waiting" /\ o.waiter = "clearing")
      /\ o.waiter \in {"none", "waiting"} => o.status \in Running
      /\ tool = "codex" => o.status # "submitted"
  BY <1>1 DEF RecordLine, Session, CountsAsRunning, Running
<1>3. obj' = [obj EXCEPT ![s] = o] /\ UNCHANGED <<tool, gone, sessions, activeId, req>>
  BY DEF RecordLine
<1> HIDE DEF o
<1> QED BY <1>2, <1>3, ObjectStep

LEMMA LineLostInv ==
  ASSUME LoginInv, NEW s \in Sessions, LineLost(s)
  PROVE  LoginInv'
<1> DEFINE o == [obj[s] EXCEPT !.line = FALSE]
<1>1. obj[s] \in Session /\ CountsAsRunning
  BY DEF LoginInv, TypeOK
<1>2. /\ o \in Session /\ o.owner = obj[s].owner
      /\ o.waiter = obj[s].waiter \/ (obj[s].waiter = "waiting" /\ o.waiter = "clearing")
      /\ o.waiter \in {"none", "waiting"} => o.status \in Running
      /\ tool = "codex" => o.status # "submitted"
  BY <1>1 DEF LineLost, Session, CountsAsRunning, Running
<1>3. obj' = [obj EXCEPT ![s] = o] /\ UNCHANGED <<tool, gone, sessions, activeId, req>>
  BY DEF LineLost
<1> HIDE DEF o
<1> QED BY <1>2, <1>3, ObjectStep

LEMMA PrintUrlInv ==
  ASSUME LoginInv, NEW s \in Sessions, PrintUrl(s)
  PROVE  LoginInv'
<1> DEFINE o == [obj[s] EXCEPT !.line = TRUE]
<1>1. obj[s] \in Session /\ CountsAsRunning
  BY DEF LoginInv, TypeOK
<1>2. /\ o \in Session /\ o.owner = obj[s].owner
      /\ o.waiter = obj[s].waiter \/ (obj[s].waiter = "waiting" /\ o.waiter = "clearing")
      /\ o.waiter \in {"none", "waiting"} => o.status \in Running
      /\ tool = "codex" => o.status # "submitted"
  BY <1>1 DEF PrintUrl, Session, CountsAsRunning, Running
<1>3. obj' = [obj EXCEPT ![s] = o] /\ UNCHANGED <<tool, gone, sessions, activeId, req>>
  BY DEF PrintUrl
<1> HIDE DEF o
<1> QED BY <1>2, <1>3, ObjectStep

LEMMA ExitInv ==
  ASSUME LoginInv, NEW s \in Sessions, NEW how \in {"ok", "failed"}, Exit(s, how)
  PROVE  LoginInv'
<1> DEFINE o == [obj[s] EXCEPT !.proc = how]
<1>1. obj[s] \in Session /\ CountsAsRunning
  BY DEF LoginInv, TypeOK
<1>2. /\ o \in Session /\ o.owner = obj[s].owner
      /\ o.waiter = obj[s].waiter \/ (obj[s].waiter = "waiting" /\ o.waiter = "clearing")
      /\ o.waiter \in {"none", "waiting"} => o.status \in Running
      /\ tool = "codex" => o.status # "submitted"
  BY <1>1 DEF Exit, Session, CountsAsRunning, Running
<1>3. obj' = [obj EXCEPT ![s] = o] /\ UNCHANGED <<tool, gone, sessions, activeId, req>>
  BY DEF Exit
<1> HIDE DEF o
<1> QED BY <1>2, <1>3, ObjectStep

LEMMA DieInv ==
  ASSUME LoginInv, NEW s \in Sessions, Die(s)
  PROVE  LoginInv'
<1> DEFINE o == [obj[s] EXCEPT !.proc = "killed"]
<1>1. obj[s] \in Session /\ CountsAsRunning
  BY DEF LoginInv, TypeOK
<1>2. /\ o \in Session /\ o.owner = obj[s].owner
      /\ o.waiter = obj[s].waiter \/ (obj[s].waiter = "waiting" /\ o.waiter = "clearing")
      /\ o.waiter \in {"none", "waiting"} => o.status \in Running
      /\ tool = "codex" => o.status # "submitted"
  BY <1>1 DEF Die, Session, CountsAsRunning, Running
<1>3. obj' = [obj EXCEPT ![s] = o] /\ UNCHANGED <<tool, gone, sessions, activeId, req>>
  BY DEF Die
<1> HIDE DEF o
<1> QED BY <1>2, <1>3, ObjectStep

LEMMA WaitEndsInv ==
  ASSUME LoginInv, NEW s \in Sessions, WaitEnds(s)
  PROVE  LoginInv'
<1> DEFINE o == [obj[s] EXCEPT !.waiter = "clearing",
                 !.status = CASE obj[s].proc = "ok"     -> "completed"
                              [] obj[s].proc = "killed" -> "cancelled"
                              [] OTHER                  -> "error"]
<1>1. obj[s] \in Session /\ CountsAsRunning
  BY DEF LoginInv, TypeOK
<1>2. /\ o \in Session /\ o.owner = obj[s].owner
      /\ o.waiter = obj[s].waiter \/ (obj[s].waiter = "waiting" /\ o.waiter = "clearing")
      /\ o.waiter \in {"none", "waiting"} => o.status \in Running
      /\ tool = "codex" => o.status # "submitted"
  BY <1>1 DEF WaitEnds, Session, CountsAsRunning, Running
<1>3. obj' = [obj EXCEPT ![s] = o] /\ UNCHANGED <<tool, gone, sessions, activeId, req>>
  BY DEF WaitEnds
<1> HIDE DEF o
<1> QED BY <1>2, <1>3, ObjectStep

LEMMA KillInv ==
  ASSUME LoginInv, NEW h \in Handlers, Kill(h)
  PROVE  LoginInv'
<1>1. req[h].pc # "idle" /\ Goto(h, "wait") /\ UNCHANGED <<tool, gone, sessions, activeId>>
  BY DEF Kill
<1>2. CASE req[h].ses \in Sessions
  <2> DEFINE s == req[h].ses
             o == [obj[s] EXCEPT !.killed = TRUE]
  <2>1. obj[s] \in Session /\ CountsAsRunning
    BY <1>2 DEF LoginInv, TypeOK
  <2>2. /\ o \in Session /\ o.owner = obj[s].owner /\ o.waiter = obj[s].waiter
        /\ o.waiter \in {"none", "waiting"} => o.status \in Running
        /\ tool = "codex" => o.status # "submitted"
    BY <1>2, <2>1 DEF Session, CountsAsRunning
  <2>3. obj' = [obj EXCEPT ![s] = o]
    BY DEF Kill
  <2> HIDE DEF o
  <2> QED BY <1>1, <1>2, <2>2, <2>3, MoveAfter
<1>3. CASE req[h].ses \notin Sessions
  <2>1. obj' = obj
    BY <1>3 DEF Kill, LoginInv, TypeOK
  <2> QED BY <1>1, <2>1, MoveStep
<1> QED BY <1>2, <1>3

LEMMA SubmitAuthCodeInv ==
  ASSUME LoginInv, NEW h \in Handlers, SubmitAuthCode(h)
  PROVE  LoginInv'
<1>1. req[h].pc # "idle" /\ tool = "claude" /\ UNCHANGED <<tool, gone, sessions, activeId>>
  BY DEF SubmitAuthCode
<1> DEFINE s == req[h].ses
           o == [obj[s] EXCEPT !.status = "submitted"]
<1>2. CASE Finish(h) /\ UNCHANGED obj
  BY <1>1, <1>2, MoveStep
<1>3. CASE Goto(h, "wait") /\ obj' = [obj EXCEPT ![s] = o] /\ s \in Sessions
  <2>1. obj[s] \in Session
    BY <1>3 DEF LoginInv, TypeOK
  <2>2. /\ o \in Session /\ o.owner = obj[s].owner /\ o.waiter = obj[s].waiter
        /\ o.status \in Running
    BY <2>1 DEF Session, Running
  <2> HIDE DEF o
  <2> QED BY <1>1, <1>3, <2>2, MoveAfter
<1>4. CASE Goto(h, "wait") /\ obj' = [obj EXCEPT ![s] = o] /\ s \notin Sessions
  <2>1. obj' = obj
    BY <1>4 DEF LoginInv, TypeOK
  <2> QED BY <1>1, <1>4, <2>1, MoveStep
<1> QED BY <1>2, <1>3, <1>4 DEF SubmitAuthCode

LEMMA MovesInv ==
  ASSUME LoginInv, NEW h \in Handlers,
         \/ Admit(h) \/ SpawnFails(h) \/ MustRun(h) \/ ForwardCallback(h)
         \/ Await(h) \/ StatCredentials(h) \/ Outcome(h)
  PROVE  LoginInv'
<1>1. req[h].pc # "idle" /\ UNCHANGED <<tool, gone, sessions, activeId, obj>>
  BY DEF Admit, SpawnFails, MustRun, ForwardCallback, Await, StatCredentials, Outcome
<1>2. CASE Admit(h)
  BY <1>1, <1>2, MoveStep DEF Admit
<1>3. CASE SpawnFails(h)
  BY <1>1, <1>3, MoveStep DEF SpawnFails
<1>4. CASE MustRun(h)
  BY <1>1, <1>4, MoveStep DEF MustRun
<1>5. CASE ForwardCallback(h)
  BY <1>1, <1>5, MoveStep DEF ForwardCallback
<1>6. CASE Await(h)
  <2>1. PICK pc \in {"idle", "stat", "discard"} : Finish(h) \/ Goto(h, pc)
    BY <1>6 DEF Await, AfterWait
  <2> QED BY <1>1, <2>1, MoveStep
<1>7. CASE StatCredentials(h)
  BY <1>1, <1>7, MoveStep DEF StatCredentials
<1>8. CASE Outcome(h)
  BY <1>1, <1>8, MoveStep DEF Outcome
<1> QED BY <1>2, <1>3, <1>4, <1>5, <1>6, <1>7, <1>8

LEMMA NextInv == LoginInv /\ [Next]_vars => LoginInv'
<1> SUFFICES ASSUME LoginInv, [Next]_vars PROVE LoginInv'
  OBVIOUS
<1>1. ASSUME NEW h \in Handlers, Start(h) PROVE LoginInv'
  BY <1>1, MovesInv, CheckExistingInv, SpawnInv, RegisterInv, UrlInv DEF Start
<1>2. ASSUME NEW h \in Handlers, EndOrCancel(h) PROVE LoginInv'
  BY <1>2, MovesInv, FindInv, KillInv, SubmitAuthCodeInv, DiscardInv DEF EndOrCancel
<1>3. ASSUME NEW s \in Sessions, Goroutine(s) \/ Die(s) PROVE LoginInv'
  BY <1>3, RecordLineInv, LineLostInv, WaitEndsInv, ClearActiveInv, DieInv DEF Goroutine
<1>4. CASE Environment
  BY <1>4, ReceiveInv, DeleteAccountInv, CreateAccountInv, PrintUrlInv, ExitInv DEF Environment
<1>5. CASE UNCHANGED vars
  BY <1>5
  DEF vars, LoginInv, TypeOK, Placed, Owned, Registering, CountsAsRunning, BarIsLifted
<1> QED BY <1>1, <1>2, <1>3, <1>4, <1>5 DEF Next, Serve

-----------------------------------------------------------------------------
(* Without overlap every login in progress can be cancelled. *)

\* Without overlap only one request is served at a time,
Exclusive == \A g, h \in Handlers : req[g].pc # "idle" /\ req[h].pc # "idle" => g = h

\* a session whose goroutine has begun to finish has no process,
Ended == \A s \in Sessions : Done(s) => obj[s].proc # "running"

\* a session whose goroutine runs or has run belongs to an account,
Belonging == \A s \in Sessions : obj[s].waiter # "none" => obj[s].owner \in Accounts

\* and a request has the session that its account is mapped to, which it has
\* told to stop, or which is done, before it drops it.
Holds(h) ==
  /\ req[h].pc \in {"spawn", "register"} => sessions[req[h].id] = None
  /\ req[h].pc \in {"kill", "running", "submit", "wait", "stat", "outcome", "discard"} =>
       req[h].ses \in Sessions /\ sessions[req[h].id] = req[h].ses
  /\ req[h].pc = "kill" => req[h].op # "complete"
  /\ req[h].pc \in {"running", "submit", "stat", "outcome"} => req[h].op = "complete"
  /\ req[h].pc \in {"wait", "discard"} /\ req[h].op # "complete" => obj[req[h].ses].killed
  /\ req[h].pc \in {"stat", "outcome"} \/ (req[h].pc = "discard" /\ req[h].op = "complete") =>
       Done(req[h].ses)

ReachInv == Exclusive /\ Ended /\ Belonging /\ Cancellable /\ \A h \in Handlers : Holds(h)
LEMMA InitReach == Init => ReachInv
  BY NoneApart
  DEF Init, ReachInv, Exclusive, Ended, Belonging, Cancellable, Holds, Done, Live, Unused, Idle

\* A step of the one request that is served.
LEMMA ServedReach ==
  ASSUME LoginInv, ReachInv, NEW h \in Handlers, req[h].pc # "idle",
         \A g \in Handlers \ {h} : req'[g] = req[g],
         Holds(h)', Ended', Belonging', Cancellable'
  PROVE  ReachInv'
<1>1. \A g \in Handlers \ {h} : req'[g].pc = "idle"
  BY DEF ReachInv, Exclusive
<1>2. Exclusive'
  BY <1>1 DEF Exclusive
<1>3. \A g \in Handlers \ {h} : Holds(g)'
  BY <1>1 DEF Holds
<1> QED BY <1>2, <1>3 DEF ReachInv

LEMMA RequestMoves ==
  ASSUME LoginInv, ReachInv, NEW h \in Handlers,
         \/ Admit(h) \/ SpawnFails(h) \/ UrlSeen(h) \/ UrlTimeout(h) \/ Find(h) \/ MustRun(h)
         \/ ForwardCallback(h) \/ Await(h) \/ StatCredentials(h) \/ Outcome(h)
  PROVE  ReachInv'
<1>1. /\ req[h] \in Request /\ req[h].pc # "idle" /\ req[h].id \in Accounts /\ Holds(h)
      /\ UNCHANGED <<sessions, obj>>
  BY DEF LoginInv, TypeOK, Placed, ReachInv, Admit, SpawnFails, UrlSeen, UrlTimeout, Find, MustRun,
         ForwardCallback, Await, StatCredentials, Outcome
<1>2. Ended' /\ Belonging' /\ Cancellable'
  BY <1>1 DEF ReachInv, Ended, Belonging, Done, Cancellable, Live
<1>3. \E q \in Request : req' = [req EXCEPT ![h] = q]
  <2>1. CASE Find(h)
    <3>1. sessions[req[h].id] \in Sessions \cup {None}
      BY <1>1 DEF LoginInv, TypeOK
    <3>2. [req[h] EXCEPT !.ses = sessions[req[h].id],
                         !.pc = IF req[h].op = "complete" THEN "running" ELSE "kill"] \in Request
      BY <1>1, <3>1 DEF Request
    <3>3. Idle \in Request
      BY DEF Idle, Request
    <3> QED BY <2>1, <3>2, <3>3 DEF Find, Finish
  <2>2. CASE UrlSeen(h) \/ UrlTimeout(h)
    <3>1. [req[h] EXCEPT !.pc = "find", !.ses = None] \in Request
      BY <1>1 DEF Request
    <3>2. Idle \in Request
      BY DEF Idle, Request
    <3> QED BY <2>2, <3>1, <3>2 DEF UrlSeen, UrlTimeout, Finish
  <2>3. CASE \/ Admit(h) \/ SpawnFails(h) \/ MustRun(h) \/ ForwardCallback(h)
             \/ Await(h) \/ StatCredentials(h) \/ Outcome(h)
    <3>1. Idle \in Request
      BY DEF Idle, Request
    <3>2. \A pc \in {"spawn", "check", "submit", "wait", "stat", "discard", "outcome"} :
            [req[h] EXCEPT !.pc = pc] \in Request
      BY <1>1 DEF Request
    <3>3. \/ Finish(h)
          \/ \E pc \in {"spawn", "check", "submit", "wait", "stat", "discard", "outcome"} : Goto(h, pc)
      BY <2>3 DEF Admit, SpawnFails, MustRun, ForwardCallback, Await, AfterWait, StatCredentials, Outcome
    <3> QED BY <3>1, <3>2, <3>3 DEF Finish, Goto
  <2> QED BY <2>1, <2>2, <2>3
<1>4. \A g \in Handlers \ {h} : req'[g] = req[g]
  BY <1>3 DEF LoginInv, TypeOK
<1>5. req'[h] = Idle => Holds(h)'
  BY DEF Holds, Idle
<1>6. CASE Admit(h)
  <2>1. req'[h] = Idle \/ req'[h] = [req[h] EXCEPT !.pc = "check"]
        \/ (sessions[req[h].id] = None /\ req'[h] = [req[h] EXCEPT !.pc = "spawn"])
    BY <1>6 DEF Admit, Finish, Goto, LoginInv, TypeOK
  <2>2. Holds(h)'
    BY <1>1, <1>5, <2>1 DEF Holds, Request
  <2> QED BY <1>1, <1>2, <1>4, <2>2, ServedReach
<1>7. CASE SpawnFails(h)
  <2>1. req'[h] = Idle
    BY <1>7 DEF SpawnFails, Finish, LoginInv, TypeOK
  <2> QED BY <1>1, <1>2, <1>4, <1>5, <2>1, ServedReach
<1>8. CASE UrlSeen(h) \/ UrlTimeout(h)
  <2>1. req'[h] = Idle \/ req'[h] = [req[h] EXCEPT !.pc = "find", !.ses = None]
    BY <1>8 DEF UrlSeen, UrlTimeout, Finish, LoginInv, TypeOK
  <2>2. Holds(h)'
    BY <1>1, <1>5, <2>1 DEF Holds, Request
  <2> QED BY <1>1, <1>2, <1>4, <2>2, ServedReach
<1>9. CASE Find(h)
  <2>1. \/ req'[h] = Idle
        \/ /\ sessions[req[h].id] # None
           /\ req'[h] = [req[h] EXCEPT !.ses = sessions[req[h].id],
                                       !.pc = IF req[h].op = "complete" THEN "running" ELSE "kill"]
    BY <1>9 DEF Find, Finish, LoginInv, TypeOK
  <2>2. sessions[req[h].id] \in Sessions \cup {None}
    BY <1>1 DEF LoginInv, TypeOK
  <2>3. Holds(h)'
    BY <1>1, <1>5, <2>1, <2>2 DEF Holds, Request
  <2> QED BY <1>1, <1>2, <1>4, <2>3, ServedReach
<1>10. CASE MustRun(h)
  <2>1. req[h].pc = "running" /\ (req'[h] = Idle \/ req'[h] = [req[h] EXCEPT !.pc = "submit"])
    BY <1>10 DEF MustRun, Finish, Goto, LoginInv, TypeOK
  <2>2. Holds(h)'
    BY <1>1, <1>5, <2>1 DEF Holds, Request
  <2> QED BY <1>1, <1>2, <1>4, <2>2, ServedReach
<1>11. CASE ForwardCallback(h)
  <2>1. req[h].pc = "submit" /\ (req'[h] = Idle \/ req'[h] = [req[h] EXCEPT !.pc = "wait"])
    BY <1>11 DEF ForwardCallback, Finish, Goto, LoginInv, TypeOK
  <2>2. Holds(h)'
    BY <1>1, <1>5, <2>1 DEF Holds, Request
  <2> QED BY <1>1, <1>2, <1>4, <2>2, ServedReach
<1>12. CASE Await(h)
  <2>1. /\ req[h].pc = "wait"
        /\ \/ req'[h] = Idle
           \/ req[h].op = "complete" /\ Done(req[h].ses) /\ req'[h] = [req[h] EXCEPT !.pc = "stat"]
           \/ req[h].op # "complete" /\ req'[h] = [req[h] EXCEPT !.pc = "discard"]
    BY <1>12 DEF Await, AfterWait, Finish, Goto, LoginInv, TypeOK
  <2>2. Holds(h)'
    BY <1>1, <1>5, <2>1 DEF Holds, Request, Done
  <2> QED BY <1>1, <1>2, <1>4, <2>2, ServedReach
<1>13. CASE StatCredentials(h)
  <2>1. req[h].pc = "stat" /\ (req'[h] = Idle \/ req'[h] = [req[h] EXCEPT !.pc = "outcome"])
    BY <1>13 DEF StatCredentials, Finish, Goto, LoginInv, TypeOK
  <2>2. Holds(h)'
    BY <1>1, <1>5, <2>1 DEF Holds, Request, Done
  <2> QED BY <1>1, <1>2, <1>4, <2>2, ServedReach
<1>14. CASE Outcome(h)
  <2>1. req[h].pc = "outcome" /\ (req'[h] = Idle \/ req'[h] = [req[h] EXCEPT !.pc = "discard"])
    BY <1>14 DEF Outcome, Finish, Goto, LoginInv, TypeOK
  <2>2. Holds(h)'
    BY <1>1, <1>5, <2>1 DEF Holds, Request, Done
  <2> QED BY <1>1, <1>2, <1>4, <2>2, ServedReach
<1> QED BY <1>6, <1>7, <1>8, <1>9, <1>10, <1>11, <1>12, <1>13, <1>14

\* A start drops a session that is over, and maps the new one where none is.
LEMMA CheckExistingReach ==
  ASSUME LoginInv, ReachInv, NEW h \in Handlers, CheckExisting(h)
  PROVE  ReachInv'
<1> DEFINE a == req[h].id
<1>1. req[h] \in Request /\ req[h].pc = "check" /\ a \in Accounts /\ UNCHANGED obj
  BY DEF LoginInv, TypeOK, Placed, CheckExisting
<1>2. \A g \in Handlers \ {h} : req'[g] = req[g]
  BY DEF CheckExisting, Finish, Goto, LoginInv, TypeOK
<1>3. Ended' /\ Belonging'
  BY <1>1 DEF ReachInv, Ended, Belonging, Done
<1>4. CASE Finish(h) /\ UNCHANGED sessions
  <2>1. Holds(h)'
    BY <1>4 DEF Holds, Finish, Idle, LoginInv, TypeOK
  <2>2. Cancellable'
    BY <1>1, <1>4 DEF ReachInv, Cancellable, Live
  <2> QED BY <1>1, <1>2, <1>3, <2>1, <2>2, ServedReach
<1>5. CASE /\ ~IsRunning(sessions[a]) /\ Goto(h, "spawn")
           /\ sessions' = [sessions EXCEPT ![a] = None]
  <2>1. req'[h] = [req[h] EXCEPT !.pc = "spawn"] /\ sessions'[a] = None
    BY <1>1, <1>5 DEF Goto, LoginInv, TypeOK
  <2>2. Holds(h)'
    BY <1>1, <2>1 DEF Holds, Request
  <2>3. \A s \in Sessions : ~IsRunning(s) /\ obj[s].waiter # "none" => ~Live(s)
    <3> SUFFICES ASSUME NEW s \in Sessions, ~IsRunning(s), obj[s].waiter # "none"
                 PROVE  ~Live(s)
      OBVIOUS
    <3>1. obj[s] \in Session /\ tool \in {"codex", "claude"}
      BY DEF LoginInv, TypeOK
    <3>2. obj[s].waiter # "waiting"
      BY <3>1 DEF LoginInv, CountsAsRunning, Running, IsRunning
    <3>3. Done(s)
      BY <3>1, <3>2 DEF Session, Done
    <3> QED BY <3>3 DEF ReachInv, Ended, Live
  <2>4. \A b \in Accounts : b # a => sessions'[b] = sessions[b]
    BY <1>1, <1>5 DEF LoginInv, TypeOK
  <2>5. Cancellable'
    <3> SUFFICES ASSUME NEW s \in Sessions, Live(s), obj[s].waiter # "none"
                 PROVE  sessions'[obj[s].owner] = s
      BY <1>1 DEF Cancellable, Live
    <3>1. sessions[obj[s].owner] = s /\ IsRunning(s)
      BY <2>3 DEF ReachInv, Cancellable
    <3>2. obj[s].owner # a
      BY <1>5, <3>1
    <3>3. obj[s].owner \in Accounts
      BY DEF ReachInv, Belonging
    <3> QED BY <2>4, <3>1, <3>2, <3>3
  <2> QED BY <1>1, <1>2, <1>3, <2>2, <2>5, ServedReach
<1> QED BY <1>4, <1>5 DEF CheckExisting

LEMMA SpawnReach ==
  ASSUME LoginInv, ReachInv, NEW h \in Handlers, NEW s \in Sessions, Spawn(h, s)
  PROVE  ReachInv'
<1> DEFINE o == [Unused EXCEPT !.owner = req[h].id, !.proc = "running"]
<1>1. /\ req[h].pc = "spawn" /\ Garbage(s) /\ obj' = [obj EXCEPT ![s] = o]
      /\ req' = [req EXCEPT ![h].pc = "register", ![h].ses = s] /\ UNCHANGED sessions
  BY DEF Spawn
<1>2. o.waiter = "none"
  BY DEF Unused
<1> HIDE DEF o
<1>3. obj'[s] = o /\ \A t \in Sessions \ {s} : obj'[t] = obj[t]
  BY <1>1 DEF LoginInv, TypeOK
<1>4. /\ \A g \in Handlers \ {h} : req'[g] = req[g]
      /\ req'[h].pc = "register" /\ req'[h].id = req[h].id
  BY <1>1 DEF LoginInv, TypeOK, Request
<1>5. Holds(h)'
  BY <1>1, <1>4 DEF ReachInv, Holds
<1>6. Ended' /\ Belonging' /\ Cancellable'
  BY <1>1, <1>2, <1>3 DEF ReachInv, Ended, Belonging, Done, Cancellable, Live
<1> QED BY <1>1, <1>4, <1>5, <1>6, ServedReach

LEMMA RegisterReach ==
  ASSUME LoginInv, ReachInv, NEW h \in Handlers, Register(h)
  PROVE  ReachInv'
<1> DEFINE a == req[h].id
           s == req[h].ses
<1>1. /\ req[h] \in Request /\ req[h].pc = "register" /\ a \in Accounts /\ sessions[a] = None
      /\ s \in Sessions /\ obj[s].owner = a
  BY DEF LoginInv, TypeOK, Placed, Registering, ReachInv, Holds, Register
<1>2. /\ obj' = [obj EXCEPT ![s].waiter = "waiting"] /\ sessions' = [sessions EXCEPT ![a] = s]
      /\ req' = [req EXCEPT ![h].pc = "url"]
  BY DEF Register, Goto
<1>3. obj'[s] = [obj[s] EXCEPT !.waiter = "waiting"] /\ \A t \in Sessions \ {s} : obj'[t] = obj[t]
  BY <1>1, <1>2 DEF LoginInv, TypeOK
<1>4. /\ \A g \in Handlers \ {h} : req'[g] = req[g]
      /\ req'[h].pc = "url"
  BY <1>2 DEF LoginInv, TypeOK, Request
<1>5. Holds(h)'
  BY <1>4 DEF Holds
<1>6. obj'[s].waiter = "waiting" /\ obj'[s].owner = a
  BY <1>1, <1>3 DEF LoginInv, TypeOK, Session
<1>7. Ended' /\ Belonging'
  BY <1>1, <1>3, <1>6 DEF ReachInv, Ended, Belonging, Done
<1>8. Cancellable'
  <2> SUFFICES ASSUME NEW t \in Sessions, Live(t)', obj'[t].waiter # "none"
               PROVE  sessions'[obj'[t].owner] = t
    BY DEF Cancellable
  <2>1. CASE t = s
    BY <1>1, <1>2, <1>6, <2>1 DEF LoginInv, TypeOK
  <2>2. CASE t # s
    <3>1. obj'[t] = obj[t] /\ sessions[obj[t].owner] = t /\ obj[t].owner \in Accounts
      BY <1>3, <2>2 DEF ReachInv, Cancellable, Belonging, Live
    <3>2. obj[t].owner # a
      BY <1>1, <3>1, NoneApart
    <3> QED BY <1>1, <1>2, <3>1, <3>2 DEF LoginInv, TypeOK
  <2> QED BY <2>1, <2>2
<1> QED BY <1>1, <1>4, <1>5, <1>7, <1>8, ServedReach

LEMMA KillReach ==
  ASSUME LoginInv, ReachInv, NEW h \in Handlers, Kill(h)
  PROVE  ReachInv'
<1> DEFINE s == req[h].ses
<1>1. /\ req[h] \in Request /\ req[h].pc = "kill" /\ Holds(h) /\ s \in Sessions
  BY DEF LoginInv, TypeOK, ReachInv, Holds, Kill
<1>2. /\ obj' = [obj EXCEPT ![s].killed = TRUE] /\ req' = [req EXCEPT ![h].pc = "wait"]
      /\ UNCHANGED sessions
  BY DEF Kill, Goto
<1>3. obj'[s] = [obj[s] EXCEPT !.killed = TRUE] /\ \A t \in Sessions \ {s} : obj'[t] = obj[t]
  BY <1>1, <1>2 DEF LoginInv, TypeOK
<1>4. /\ obj'[s].killed /\ obj'[s].owner = obj[s].owner /\ obj'[s].waiter = obj[s].waiter
      /\ obj'[s].proc = obj[s].proc
  BY <1>1, <1>3 DEF LoginInv, TypeOK, Session
<1>5. /\ \A g \in Handlers \ {h} : req'[g] = req[g]
      /\ req'[h] = [req[h] EXCEPT !.pc = "wait"]
  BY <1>2 DEF LoginInv, TypeOK
<1>6. Holds(h)'
  BY <1>1, <1>2, <1>4, <1>5 DEF Holds, Request
<1>7. Ended' /\ Belonging' /\ Cancellable'
  BY <1>1, <1>2, <1>3, <1>4 DEF ReachInv, Ended, Belonging, Done, Cancellable, Live
<1> QED BY <1>1, <1>5, <1>6, <1>7, ServedReach

LEMMA SubmitReach ==
  ASSUME LoginInv, ReachInv, NEW h \in Handlers, SubmitAuthCode(h)
  PROVE  ReachInv'
<1> DEFINE s == req[h].ses
<1>1. /\ req[h] \in Request /\ req[h].pc = "submit" /\ Holds(h) /\ s \in Sessions
      /\ req[h].op = "complete" /\ UNCHANGED sessions
  BY DEF LoginInv, TypeOK, ReachInv, Holds, SubmitAuthCode
<1>2. \/ obj' = obj /\ req' = [req EXCEPT ![h] = Idle]
      \/ obj' = [obj EXCEPT ![s].status = "submitted"] /\ req' = [req EXCEPT ![h].pc = "wait"]
  BY DEF SubmitAuthCode, Goto, Finish
<1>3. \A t \in Sessions : /\ obj'[t].killed = obj[t].killed /\ obj'[t].owner = obj[t].owner
                          /\ obj'[t].waiter = obj[t].waiter /\ obj'[t].proc = obj[t].proc
  BY <1>1, <1>2 DEF LoginInv, TypeOK, Session
<1>4. /\ \A g \in Handlers \ {h} : req'[g] = req[g]
      /\ req'[h] = Idle \/ req'[h] = [req[h] EXCEPT !.pc = "wait"]
  BY <1>2 DEF LoginInv, TypeOK
<1>5. Holds(h)'
  BY <1>1, <1>4 DEF Holds, Request, Idle
<1>6. Ended' /\ Belonging' /\ Cancellable'
  BY <1>1, <1>3 DEF ReachInv, Ended, Belonging, Done, Cancellable, Live
<1> QED BY <1>1, <1>4, <1>5, <1>6, ServedReach

\* What is dropped has been told to stop or is done.
LEMMA DiscardReach ==
  ASSUME LoginInv, ReachInv, NEW h \in Handlers, Discard(h)
  PROVE  ReachInv'
<1> DEFINE a == req[h].id
           s == req[h].ses
<1>1. /\ req[h].pc = "discard" /\ a \in Accounts /\ s \in Sessions /\ sessions[a] = s
      /\ obj[s].killed \/ Done(s)
  BY DEF LoginInv, TypeOK, Placed, ReachInv, Holds, Discard
<1>2. /\ sessions' = [sessions EXCEPT ![a] = None] /\ req' = [req EXCEPT ![h] = Idle]
      /\ UNCHANGED obj
  BY DEF Discard, Finish
<1>3. (\A g \in Handlers \ {h} : req'[g] = req[g]) /\ req'[h] = Idle
  BY <1>2 DEF LoginInv, TypeOK
<1>4. Holds(h)'
  BY <1>3 DEF Holds, Idle
<1>5. Ended' /\ Belonging'
  BY <1>2 DEF ReachInv, Ended, Belonging, Done
<1>6. Cancellable'
  <2> SUFFICES ASSUME NEW t \in Sessions, Live(t), obj[t].waiter # "none"
               PROVE  sessions'[obj[t].owner] = t
    BY <1>2 DEF Cancellable, Live
  <2>1. sessions[obj[t].owner] = t /\ obj[t].owner \in Accounts
    BY DEF ReachInv, Cancellable, Belonging
  <2>2. t # s
    BY <1>1 DEF ReachInv, Ended, Live
  <2> QED BY <1>1, <1>2, <2>1, <2>2 DEF LoginInv, TypeOK
<1> QED BY <1>1, <1>3, <1>4, <1>5, <1>6, ServedReach

\* Goroutines and processes bring nothing to life.
LEMMA ObjectReach ==
  ASSUME LoginInv, ReachInv, NEW s \in Sessions,
         \/ Goroutine(s) \/ Die(s) \/ PrintUrl(s) \/ Exit(s, "ok") \/ Exit(s, "failed")
  PROVE  ReachInv'
<1>1. UNCHANGED <<sessions, req>> /\ obj[s] \in Session
  BY DEF Goroutine, RecordLine, LineLost, WaitEnds, ClearActive, Die, PrintUrl, Exit, LoginInv, TypeOK
<1>2. \A t \in Sessions \ {s} : obj'[t] = obj[t]
  BY DEF Goroutine, RecordLine, LineLost, WaitEnds, ClearActive, Die, PrintUrl, Exit, LoginInv, TypeOK
<1>3. /\ obj'[s].killed = obj[s].killed /\ obj'[s].owner = obj[s].owner
      /\ \/ obj'[s].waiter = obj[s].waiter
         \/ obj[s].waiter = "waiting" /\ obj[s].proc # "running" /\ obj'[s].waiter = "clearing"
         \/ obj[s].waiter = "clearing" /\ obj'[s].waiter = "over"
      /\ obj'[s].proc = "running" => obj[s].proc = "running"
      /\ obj[s].waiter = "waiting" /\ obj'[s].waiter = "clearing" => obj'[s].proc = obj[s].proc
  <2>1. CASE RecordLine(s)
    BY <1>1, <2>1 DEF RecordLine, Session, LoginInv, TypeOK
  <2>2. CASE LineLost(s)
    BY <1>1, <2>2 DEF LineLost, Session, LoginInv, TypeOK
  <2>3. CASE WaitEnds(s)
    BY <1>1, <2>3 DEF WaitEnds, Session, LoginInv, TypeOK
  <2>4. CASE ClearActive(s)
    BY <1>1, <2>4 DEF ClearActive, Session, LoginInv, TypeOK
  <2>5. CASE Die(s)
    BY <1>1, <2>5 DEF Die, Session, LoginInv, TypeOK
  <2>6. CASE PrintUrl(s)
    BY <1>1, <2>6 DEF PrintUrl, Session, LoginInv, TypeOK
  <2>7. CASE Exit(s, "ok") \/ Exit(s, "failed")
    BY <1>1, <2>7 DEF Exit, Session, LoginInv, TypeOK
  <2> QED BY <2>1, <2>2, <2>3, <2>4, <2>5, <2>6, <2>7 DEF Goroutine
<1>4. Ended' /\ Belonging' /\ Cancellable'
  BY <1>1, <1>2, <1>3 DEF ReachInv, Ended, Belonging, Done, Cancellable, Live
<1>5. \A h \in Handlers : Holds(h)'
  <2> SUFFICES ASSUME NEW h \in Handlers PROVE Holds(h)'
    OBVIOUS
  <2>1. Holds(h)
    BY DEF ReachInv
  <2>2. \A t \in Sessions : obj'[t].killed = obj[t].killed /\ (Done(t) => Done(t)')
    BY <1>2, <1>3 DEF Done
  <2> QED BY <1>1, <2>1, <2>2 DEF Holds
<1> QED BY <1>1, <1>4, <1>5 DEF ReachInv, Exclusive

\* Requests, deletions and new accounts come when no request is served.
LEMMA ArrivalReach ==
  ASSUME Overlap = FALSE, LoginInv, ReachInv, NEW a \in Accounts,
         \/ DeleteAccount(a) \/ CreateAccount(a)
         \/ \E h \in Handlers, op \in {"start", "complete", "cancel"} : Receive(h, op, a)
  PROVE  ReachInv'
<1>1. \A g \in Handlers : req[g].pc = "idle"
  BY DEF MayCome, DeleteAccount, CreateAccount, Receive, Idle
<1>2. UNCHANGED obj
  BY DEF DeleteAccount, CreateAccount, Receive
<1>3. Ended' /\ Belonging'
  BY <1>2 DEF ReachInv, Ended, Belonging, Done
<1>4. CASE DeleteAccount(a)
  BY <1>1, <1>2, <1>3, <1>4 DEF DeleteAccount, ReachInv, Exclusive, Cancellable, Live, Holds
<1>5. CASE CreateAccount(a)
  <2>1. req' = req /\ sessions' = [sessions EXCEPT ![a] = None]
        /\ \A s \in Sessions : obj[s].owner = a => obj[s].waiter = "over"
    BY <1>5 DEF CreateAccount, Forgotten
  <2>2. Exclusive' /\ \A h \in Handlers : Holds(h)'
    BY <1>1, <2>1 DEF Exclusive, Holds
  <2>3. Cancellable'
    <3> SUFFICES ASSUME NEW t \in Sessions, Live(t), obj[t].waiter # "none"
                 PROVE  sessions'[obj[t].owner] = t
      BY <1>2 DEF Cancellable, Live
    <3>1. sessions[obj[t].owner] = t /\ obj[t].owner \in Accounts
      BY DEF ReachInv, Cancellable, Belonging
    <3>2. obj[t].owner # a
      BY <2>1 DEF ReachInv, Ended, Done, Live
    <3> QED BY <2>1, <3>1, <3>2 DEF LoginInv, TypeOK
  <2> QED BY <1>3, <2>2, <2>3 DEF ReachInv
<1>6. ASSUME NEW h \in Handlers, NEW op \in {"start", "complete", "cancel"}, Receive(h, op, a)
      PROVE  ReachInv'
  <2>1. UNCHANGED sessions
    BY <1>6 DEF Receive
  <2>2. /\ req'[h].pc \in {"admit", "find"}
        /\ \A g \in Handlers \ {h} : req'[g].pc = "idle"
    BY <1>1, <1>6 DEF Receive, FirstPc, Idle, LoginInv, TypeOK
  <2>3. Exclusive' /\ \A g \in Handlers : Holds(g)'
    BY <2>2 DEF Exclusive, Holds
  <2>4. Cancellable'
    BY <1>2, <2>1 DEF ReachInv, Cancellable, Live
  <2> QED BY <1>3, <2>3, <2>4 DEF ReachInv
<1> QED BY <1>4, <1>5, <1>6

LEMMA NextReach == ASSUME Overlap = FALSE PROVE LoginInv /\ ReachInv /\ [Next]_vars => ReachInv'
<1> SUFFICES ASSUME LoginInv, ReachInv, [Next]_vars PROVE ReachInv'
  OBVIOUS
<1>1. ASSUME NEW h \in Handlers, Start(h) PROVE ReachInv'
  BY <1>1, RequestMoves, CheckExistingReach, SpawnReach, RegisterReach DEF Start
<1>2. ASSUME NEW h \in Handlers, EndOrCancel(h) PROVE ReachInv'
  BY <1>2, RequestMoves, KillReach, SubmitReach, DiscardReach DEF EndOrCancel
<1>3. ASSUME NEW s \in Sessions, Goroutine(s) \/ Die(s) PROVE ReachInv'
  BY <1>3, ObjectReach
<1>4. CASE Environment
  BY <1>4, ArrivalReach, ObjectReach DEF Environment
<1>5. CASE UNCHANGED vars
  BY <1>5 DEF vars, ReachInv, Exclusive, Ended, Belonging, Done, Cancellable, Live, Holds
<1> QED BY <1>1, <1>2, <1>3, <1>4, <1>5 DEF Next, Serve

-----------------------------------------------------------------------------
(* Without overlap no start waits for a session's lock. *)

\* The account of a start has no session, or one whose goroutine is over: the
\* page did not offer the login otherwise.
Startable ==
  \A h \in Handlers :
    req[h].pc \in {"admit", "check"} =>
      /\ req[h].pc = "check" => sessions[req[h].id] # None
      /\ sessions[req[h].id] # None => obj[sessions[req[h].id]].waiter = "over"

LEMMA InitStartable == Init => Startable
  BY DEF Init, Startable, Idle

\* A session that can be locked and does not count as running is over.
LEMMA NotRunningIsOver ==
  ASSUME LoginInv, NEW s \in Sessions, ~IsRunning(s), MuFree(s), obj[s].waiter # "none"
  PROVE  obj[s].waiter = "over"
<1>1. obj[s] \in Session /\ tool \in {"codex", "claude"}
  BY DEF LoginInv, TypeOK
<1>2. obj[s].waiter # "waiting"
  BY <1>1 DEF LoginInv, CountsAsRunning, Running, IsRunning
<1> QED BY <1>1, <1>2 DEF Session, MuFree

\* An ended session stays one, unless a start takes the object for a new login.
LEMMA OverStays ==
  ASSUME LoginInv, [Next]_vars, NEW s \in Sessions, obj[s].waiter = "over",
         \A h \in Handlers : ~Spawn(h, s)
  PROVE  obj'[s].waiter = "over"
<1>1. obj[s] \in Session
  BY DEF LoginInv, TypeOK
<1>2. ASSUME NEW h \in Handlers, Start(h) PROVE obj'[s].waiter = "over"
  <2>1. CASE Register(h)
    <3>1. req[h].ses \in Sessions /\ obj[req[h].ses].waiter = "none"
      BY <2>1 DEF LoginInv, Registering, Register
    <3> QED BY <2>1, <3>1 DEF Register, LoginInv, TypeOK
  <2>2. ASSUME NEW t \in Sessions, Spawn(h, t) PROVE obj'[s].waiter = "over"
    BY <2>2 DEF Spawn, LoginInv, TypeOK
  <2>3. CASE Admit(h) \/ CheckExisting(h) \/ SpawnFails(h) \/ UrlSeen(h) \/ UrlTimeout(h)
    BY <2>3 DEF Admit, CheckExisting, SpawnFails, UrlSeen, UrlTimeout
  <2> QED BY <1>2, <2>1, <2>2, <2>3 DEF Start
<1>3. ASSUME NEW h \in Handlers, EndOrCancel(h) PROVE obj'[s].waiter = "over"
  <2>1. CASE Kill(h) \/ SubmitAuthCode(h)
    BY <1>1, <2>1 DEF Kill, SubmitAuthCode, LoginInv, TypeOK, Session
  <2>2. CASE \/ Find(h) \/ MustRun(h) \/ ForwardCallback(h) \/ Await(h)
             \/ StatCredentials(h) \/ Outcome(h) \/ Discard(h)
    BY <2>2 DEF Find, MustRun, ForwardCallback, Await, StatCredentials, Outcome, Discard
  <2> QED BY <1>3, <2>1, <2>2 DEF EndOrCancel
<1>4. ASSUME NEW t \in Sessions, Goroutine(t) \/ Die(t) PROVE obj'[s].waiter = "over"
  BY <1>1, <1>4
  DEF Goroutine, RecordLine, LineLost, WaitEnds, ClearActive, Die, LoginInv, TypeOK, Session
<1>5. CASE Environment
  <2>1. ASSUME NEW t \in Sessions, PrintUrl(t) \/ Exit(t, "ok") \/ Exit(t, "failed")
        PROVE  obj'[s].waiter = "over"
    BY <1>1, <2>1 DEF PrintUrl, Exit, LoginInv, TypeOK, Session
  <2>2. ASSUME NEW a \in Accounts,
               \/ DeleteAccount(a) \/ CreateAccount(a)
               \/ \E h \in Handlers, op \in {"start", "complete", "cancel"} : Receive(h, op, a)
        PROVE  obj'[s].waiter = "over"
    BY <2>2 DEF DeleteAccount, CreateAccount, Receive
  <2> QED BY <1>5, <2>1, <2>2 DEF Environment
<1>6. CASE UNCHANGED vars
  BY <1>6 DEF vars
<1> QED BY <1>2, <1>3, <1>4, <1>5, <1>6 DEF Next, Serve

\* Under a request that waits for loginMu, or holds it, nothing changes the map.
LEMMA StartableServe ==
  ASSUME LoginInv, ReachInv, Startable, [Next]_vars,
         NEW h \in Handlers, Serve(h)
  PROVE  Startable'
<1> SUFFICES ASSUME NEW g \in Handlers, req'[g].pc \in {"admit", "check"}
             PROVE  /\ req'[g].pc = "check" => sessions'[req'[g].id] # None
                    /\ sessions'[req'[g].id] # None =>
                         obj'[sessions'[req'[g].id]].waiter = "over"
  BY DEF Startable
<1>1. req[h].pc # "idle"
  BY DEF Serve, Start, EndOrCancel, Admit, CheckExisting, Spawn, SpawnFails, Register, UrlSeen,
         UrlTimeout, Find, Kill, MustRun, ForwardCallback, SubmitAuthCode, Await,
         StatCredentials, Outcome, Discard
<1>2. g = h
  <2> SUFFICES ASSUME g # h PROVE FALSE
    OBVIOUS
  <2>1. req[g].pc = "idle"
    BY <1>1 DEF ReachInv, Exclusive
  <2>2. req'[g] = req[g]
    BY DEF Serve, Start, EndOrCancel, Admit, CheckExisting, Spawn, SpawnFails, Register, UrlSeen,
           UrlTimeout, Find, Kill, MustRun, ForwardCallback, SubmitAuthCode, Await,
           StatCredentials, Outcome, Discard, Goto, Finish, LoginInv, TypeOK
  <2> QED BY <2>1, <2>2
<1>3. Idle.pc = "idle" /\ req[h] \in Request /\ req[h].id \in Accounts
  BY <1>1 DEF Idle, LoginInv, TypeOK, Placed
<1>4. Admit(h)
  <2>1. CASE CheckExisting(h) \/ SpawnFails(h) \/ UrlSeen(h) \/ UrlTimeout(h) \/ Register(h)
    BY <1>2, <1>3, <2>1
    DEF CheckExisting, SpawnFails, UrlSeen, UrlTimeout, Register, Goto, Finish, LoginInv, TypeOK,
        Request
  <2>2. ASSUME NEW s \in Sessions, Spawn(h, s) PROVE FALSE
    BY <1>2, <1>3, <2>2 DEF Spawn, LoginInv, TypeOK, Request
  <2>3. CASE Find(h)
    BY <1>2, <1>3, <2>3 DEF Find, Finish, LoginInv, TypeOK, Request
  <2>4. CASE \/ Kill(h) \/ MustRun(h) \/ ForwardCallback(h) \/ SubmitAuthCode(h)
             \/ Await(h) \/ StatCredentials(h) \/ Outcome(h) \/ Discard(h)
    BY <1>2, <1>3, <2>4
    DEF Kill, MustRun, ForwardCallback, SubmitAuthCode, Await, AfterWait, StatCredentials,
        Outcome, Discard, Goto, Finish, LoginInv, TypeOK, Request
  <2> QED BY <2>1, <2>2, <2>3, <2>4 DEF Serve, Start, EndOrCancel
<1>5. /\ req'[h].id = req[h].id /\ sessions[req[h].id] # None
      /\ req[h].pc = "admit" /\ UNCHANGED <<sessions, obj>>
  BY <1>2, <1>3, <1>4 DEF Admit, Goto, Finish, LoginInv, TypeOK, Request
<1> QED BY <1>2, <1>5 DEF Startable

LEMMA StartableNext ==
  ASSUME Overlap = FALSE
  PROVE  LoginInv /\ ReachInv /\ Startable /\ [Next]_vars => Startable'
<1> SUFFICES ASSUME LoginInv, ReachInv, Startable, [Next]_vars PROVE Startable'
  OBVIOUS
<1>1. ASSUME NEW h \in Handlers, Serve(h) PROVE Startable'
  BY <1>1, StartableServe
<1>2. ASSUME UNCHANGED <<sessions, req>>, \A s \in Sessions : \A h \in Handlers : ~Spawn(h, s)
      PROVE  Startable'
  <2> SUFFICES ASSUME NEW h \in Handlers, req[h].pc \in {"admit", "check"},
                      sessions[req[h].id] # None
               PROVE  obj'[sessions[req[h].id]].waiter = "over"
    BY <1>2 DEF Startable
  <2>1. sessions[req[h].id] \in Sessions
    BY DEF LoginInv, TypeOK, Placed
  <2>2. obj[sessions[req[h].id]].waiter = "over"
    BY DEF Startable
  <2> QED BY <1>2, <2>1, <2>2, OverStays
<1>3. ASSUME NEW s \in Sessions,
             \/ Goroutine(s) \/ Die(s) \/ PrintUrl(s) \/ Exit(s, "ok") \/ Exit(s, "failed")
      PROVE  Startable'
  <2>1. UNCHANGED <<sessions, req>>
    BY <1>3 DEF Goroutine, RecordLine, LineLost, WaitEnds, ClearActive, Die, PrintUrl, Exit
  <2>2. ASSUME NEW t \in Sessions, NEW h \in Handlers, Spawn(h, t) PROVE FALSE
    <3>1. req[h].pc = "spawn" /\ req'[h].pc = "register"
      BY <2>2 DEF Spawn, LoginInv, TypeOK, Request
    <3> QED BY <2>1, <3>1
  <2> QED BY <1>2, <2>1, <2>2
<1>4. ASSUME NEW a \in Accounts, NEW h \in Handlers, NEW op \in {"start", "complete", "cancel"},
             Receive(h, op, a)
      PROVE  Startable'
  <2>1. /\ \A g \in Handlers : req[g] = Idle
        /\ op = "start" => CanStartLogin(a)
        /\ req' = [req EXCEPT ![h] = [Idle EXCEPT !.pc = FirstPc(op), !.op = op, !.id = a]]
        /\ UNCHANGED <<sessions, obj>>
    BY <1>4 DEF Receive, MayCome
  <2>2. /\ \A g \in Handlers \ {h} : req'[g].pc = "idle"
        /\ req'[h].pc = FirstPc(op) /\ req'[h].id = a
    BY <2>1 DEF Idle, LoginInv, TypeOK
  <2>3. SUFFICES ASSUME op = "start", sessions[a] # None
                 PROVE  obj[sessions[a]].waiter = "over"
    BY <2>1, <2>2 DEF Startable, FirstPc
  <2>4. sessions[a] \in Sessions /\ obj[sessions[a]].waiter # "none"
    BY <2>3, NoneApart DEF LoginInv, TypeOK, Owned
  <2> QED BY <2>1, <2>3, <2>4, NotRunningIsOver DEF CanStartLogin
<1>5. ASSUME NEW a \in Accounts, DeleteAccount(a) \/ CreateAccount(a)
      PROVE  Startable'
  <2>1. \A g \in Handlers : req'[g].pc = "idle"
    BY <1>5 DEF DeleteAccount, CreateAccount, MayCome, Idle
  <2> QED BY <2>1 DEF Startable
<1>6. CASE UNCHANGED vars
  BY <1>6 DEF vars, Startable
<1> QED BY <1>1, <1>3, <1>4, <1>5, <1>6 DEF Next, Environment

-----------------------------------------------------------------------------
(* Without overlap one login is in progress at a time, but for the accounts   *)
(* that have outlived a forgotten session.  All that is said here is said of  *)
(* the sessions of the others:                                                *)

\* the account that is logging in is the active one,
BarProtects ==
  \A s \in Sessions :
    Live(s) /\ obj[s].waiter # "none" /\ obj[s].owner \notin outlived => activeId = obj[s].owner

\* a session whose goroutine is not over is the one its account is mapped to,
Mapped ==
  \A s \in Sessions :
    obj[s].waiter \in {"waiting", "clearing"} /\ obj[s].owner \notin outlived =>
      sessions[obj[s].owner] = s

\* and there is no other login in progress when a start has been let in.
LetIn(h) ==
  /\ req[h].pc = "check" => activeId \in {None, req[h].id}
  /\ req[h].pc = "spawn" => \A s \in Sessions : Live(s) => obj[s].owner \in outlived
  /\ req[h].pc = "register" =>
       \A s \in Sessions : Live(s) => s = req[h].ses \/ obj[s].owner \in outlived

\* A login that is not registered yet is that of the start that is served.
Unregistered ==
  \A s \in Sessions :
    Live(s) /\ obj[s].waiter = "none" => \E h \in Handlers : req[h].pc = "register" /\ req[h].ses = s

OrderInv == BarProtects /\ Mapped /\ Unregistered /\ \A h \in Handlers : LetIn(h)

LEMMA InitOrder == InitH => OrderInv
  BY DEF InitH, Init, OrderInv, BarProtects, Mapped, Unregistered, LetIn, Live, Unused, Idle

LEMMA OrderGivesOne == LoginInv /\ ReachInv /\ OrderInv => AloneUnlessOutlived
<1> SUFFICES ASSUME LoginInv, ReachInv, OrderInv, NEW s \in Sessions, NEW t \in Sessions,
                    Live(s), Live(t), obj[s].owner \notin outlived, obj[t].owner \notin outlived
             PROVE  s = t
  BY DEF AloneUnlessOutlived
<1>1. ASSUME NEW u \in Sessions, Live(u), obj[u].waiter = "none" PROVE s = u /\ t = u
  <2>1. PICK h \in Handlers : req[h].pc = "register" /\ req[h].ses = u
    BY <1>1 DEF OrderInv, Unregistered
  <2> QED BY <2>1 DEF OrderInv, LetIn
<1>2. CASE obj[s].waiter # "none" /\ obj[t].waiter # "none"
  BY <1>2 DEF OrderInv, BarProtects, ReachInv, Cancellable
<1> QED BY <1>1, <1>2

\* An account that has outlived a session is remembered as long as one of its
\* sessions has a goroutine to come or at work, which a live one has.
LEMMA StaysOutlived ==
  ASSUME ReachInv', Remember, NEW s \in Sessions, obj'[s].owner \notin outlived',
         Live(s)' \/ obj'[s].waiter # "over"
  PROVE  obj'[s].owner \notin outlived
<1>1. obj'[s].waiter # "over"
  BY DEF ReachInv, Ended, Done, Live
<1> QED BY <1>1 DEF Remember, Unfinished

\* When a start is let in, or finds its old session over, nobody else is logging in.
LEMMA NobodyLogsIn ==
  ASSUME LoginInv, ReachInv, OrderInv, NEW h \in Handlers, req[h].pc \in {"admit", "check"},
         activeId \in {None, req[h].id},
         sessions[req[h].id] # None => obj[sessions[req[h].id]].waiter = "over",
         NEW s \in Sessions, Live(s)
  PROVE  obj[s].owner \in outlived
<1> SUFFICES ASSUME obj[s].owner \notin outlived PROVE FALSE
  OBVIOUS
<1>1. CASE obj[s].waiter = "none"
  <2>1. PICK g \in Handlers : req[g].pc = "register"
    BY <1>1 DEF OrderInv, Unregistered
  <2> QED BY <2>1 DEF ReachInv, Exclusive
<1>2. CASE obj[s].waiter # "none"
  <2>1. activeId = obj[s].owner /\ obj[s].owner \in Accounts /\ sessions[obj[s].owner] = s
    BY <1>2 DEF OrderInv, BarProtects, ReachInv, Belonging, Cancellable
  <2>2. sessions[req[h].id] = s
    BY <2>1, NoneApart
  <2>3. obj[s].waiter = "over"
    BY <2>2, NoneApart
  <2> QED BY <2>3 DEF ReachInv, Ended, Done, Live
<1> QED BY <1>1, <1>2

\* A request that is served alone, and does not touch what the others go by.
LEMMA ServedOrder ==
  ASSUME LoginInv, ReachInv, NEW h \in Handlers, req[h].pc # "idle",
         \A g \in Handlers \ {h} : req'[g] = req[g],
         LetIn(h)', BarProtects', Mapped', Unregistered'
  PROVE  OrderInv'
<1>1. \A g \in Handlers \ {h} : req'[g].pc = "idle"
  BY DEF ReachInv, Exclusive
<1> QED BY <1>1 DEF OrderInv, LetIn

LEMMA MovesOrder ==
  ASSUME LoginInv, ReachInv, OrderInv, ReachInv', Remember, Startable, NEW h \in Handlers,
         \/ Admit(h) \/ SpawnFails(h) \/ UrlSeen(h) \/ UrlTimeout(h) \/ Find(h) \/ MustRun(h)
         \/ ForwardCallback(h) \/ Await(h) \/ StatCredentials(h) \/ Outcome(h)
  PROVE  OrderInv'
<1>1. /\ req[h] \in Request /\ req[h].pc \notin {"idle", "register"} /\ req[h].id \in Accounts
      /\ UNCHANGED <<sessions, activeId, obj>>
  BY DEF LoginInv, TypeOK, Placed, Admit, SpawnFails, UrlSeen, UrlTimeout, Find, MustRun,
         ForwardCallback, Await, StatCredentials, Outcome
<1>2. \A g \in Handlers \ {h} : req'[g] = req[g]
  BY DEF LoginInv, TypeOK, Admit, SpawnFails, UrlSeen, UrlTimeout, Find, MustRun, ForwardCallback,
         Await, StatCredentials, Outcome, Goto, Finish
<1>3. BarProtects' /\ Mapped'
  BY <1>1, StaysOutlived DEF OrderInv, BarProtects, Mapped, Live
<1>4. Unregistered'
  BY <1>1, <1>2 DEF OrderInv, Unregistered, Live
<1>5. LetIn(h)'
  <2>1. CASE Admit(h)
    <3>1. \/ req'[h].pc = "idle"
          \/ /\ activeId \in {None, req[h].id} /\ req[h].pc = "admit" /\ req'[h].id = req[h].id
             /\ \/ req'[h].pc = "check"
                \/ req'[h].pc = "spawn" /\ sessions[req[h].id] = None
      BY <1>1, <2>1 DEF Admit, Goto, Finish, Idle, LoginInv, TypeOK, Request
    <3>2. CASE req'[h].pc = "spawn"
      BY <1>1, <3>1, <3>2, NobodyLogsIn, StaysOutlived DEF LetIn, Live
    <3> QED BY <1>1, <3>1, <3>2 DEF LetIn
  <2>2. CASE UrlSeen(h) \/ UrlTimeout(h) \/ SpawnFails(h)
    BY <1>1, <2>2 DEF UrlSeen, UrlTimeout, SpawnFails, Finish, Idle, LetIn, LoginInv, TypeOK, Request
  <2>3. CASE Find(h)
    BY <1>1, <2>3 DEF Find, Finish, Idle, LetIn, LoginInv, TypeOK, Request
  <2>4. CASE MustRun(h) \/ ForwardCallback(h) \/ Await(h) \/ StatCredentials(h) \/ Outcome(h)
    BY <1>1, <2>4
    DEF MustRun, ForwardCallback, Await, AfterWait, StatCredentials, Outcome, Goto, Finish, Idle,
        LetIn, LoginInv, TypeOK, Request
  <2> QED BY <2>1, <2>2, <2>3, <2>4
<1> QED BY <1>1, <1>2, <1>3, <1>4, <1>5, ServedOrder

LEMMA CheckExistingOrder ==
  ASSUME LoginInv, ReachInv, OrderInv, ReachInv', Remember, Startable, NEW h \in Handlers, CheckExisting(h)
  PROVE  OrderInv'
<1> DEFINE a == req[h].id
<1>1. /\ req[h] \in Request /\ req[h].pc = "check" /\ a \in Accounts
      /\ UNCHANGED <<activeId, obj>>
      /\ sessions[a] # None /\ obj[sessions[a]].waiter = "over" /\ activeId \in {None, a}
  BY DEF LoginInv, TypeOK, Placed, CheckExisting, Startable, OrderInv, LetIn
<1>2. /\ \A g \in Handlers \ {h} : req'[g] = req[g]
      /\ req'[h].pc \in {"idle", "spawn"}
  BY <1>1 DEF CheckExisting, Finish, Goto, Idle, LoginInv, TypeOK, Request
<1>3. \A b \in Accounts : b # a => sessions'[b] = sessions[b]
  BY DEF CheckExisting, LoginInv, TypeOK
<1>4. LetIn(h)'
  BY <1>1, <1>2, NobodyLogsIn, StaysOutlived DEF LetIn, Live
<1>5. Mapped'
  <2> SUFFICES ASSUME NEW s \in Sessions, obj[s].waiter \in {"waiting", "clearing"},
                      obj[s].owner \notin outlived
               PROVE  sessions'[obj[s].owner] = s
    BY <1>1, StaysOutlived DEF Mapped
  <2>1. sessions[obj[s].owner] = s /\ obj[s].owner \in Accounts
    BY DEF OrderInv, Mapped, ReachInv, Belonging
  <2> QED BY <1>1, <1>3, <2>1
<1>6. BarProtects' /\ Unregistered'
  BY <1>1, <1>2, StaysOutlived DEF OrderInv, BarProtects, Unregistered, Live
<1> QED BY <1>1, <1>2, <1>4, <1>5, <1>6, ServedOrder

LEMMA SpawnOrder ==
  ASSUME LoginInv, ReachInv, OrderInv, ReachInv', Remember, NEW h \in Handlers, NEW s \in Sessions, Spawn(h, s)
  PROVE  OrderInv'
<1> DEFINE o == [Unused EXCEPT !.owner = req[h].id, !.proc = "running"]
<1>1. /\ req[h].pc = "spawn" /\ obj' = [obj EXCEPT ![s] = o]
      /\ req' = [req EXCEPT ![h].pc = "register", ![h].ses = s] /\ UNCHANGED <<sessions, activeId>>
  BY DEF Spawn
<1>2. o.waiter = "none"
  BY DEF Unused
<1> HIDE DEF o
<1>3. obj'[s] = o /\ \A t \in Sessions \ {s} : obj'[t] = obj[t]
  BY <1>1 DEF LoginInv, TypeOK
<1>4. /\ \A g \in Handlers \ {h} : req'[g] = req[g]
      /\ req'[h].pc = "register" /\ req'[h].ses = s
  BY <1>1 DEF LoginInv, TypeOK, Request
<1>5. \A t \in Sessions \ {s} : Live(t)' => obj'[t].owner \in outlived'
  BY <1>1, <1>3, StaysOutlived DEF OrderInv, LetIn, Live
<1>6. \A t \in Sessions \ {s} : Live(t)' => obj'[t].waiter # "none"
  BY <1>1, <1>3 DEF OrderInv, Unregistered, ReachInv, Exclusive, Live
<1>7. LetIn(h)' /\ Unregistered' /\ BarProtects'
  BY <1>2, <1>3, <1>4, <1>5, <1>6 DEF LetIn, Unregistered, BarProtects
<1>8. Mapped'
  BY <1>1, <1>2, <1>3, StaysOutlived DEF OrderInv, Mapped
<1> QED BY <1>1, <1>4, <1>7, <1>8, ServedOrder

LEMMA RegisterOrder ==
  ASSUME LoginInv, ReachInv, OrderInv, ReachInv', Remember, NEW h \in Handlers, Register(h)
  PROVE  OrderInv'
<1> DEFINE a == req[h].id
           s == req[h].ses
<1>1. /\ req[h] \in Request /\ req[h].pc = "register" /\ a \in Accounts /\ sessions[a] = None
      /\ s \in Sessions /\ obj[s].owner = a
  BY DEF LoginInv, TypeOK, Placed, Registering, ReachInv, Holds, Register
<1>2. /\ obj' = [obj EXCEPT ![s].waiter = "waiting"] /\ sessions' = [sessions EXCEPT ![a] = s]
      /\ req' = [req EXCEPT ![h].pc = "url"] /\ activeId' = a
  BY DEF Register, Goto
<1>3. /\ obj'[s] = [obj[s] EXCEPT !.waiter = "waiting"]
      /\ \A t \in Sessions \ {s} : obj'[t] = obj[t]
      /\ sessions'[a] = s /\ \A b \in Accounts \ {a} : sessions'[b] = sessions[b]
  BY <1>1, <1>2 DEF LoginInv, TypeOK
<1>4. /\ \A g \in Handlers \ {h} : req'[g] = req[g]
      /\ req'[h].pc = "url"
  BY <1>2 DEF LoginInv, TypeOK, Request
<1>5. obj'[s].waiter = "waiting" /\ obj'[s].owner = a
  BY <1>1, <1>3 DEF LoginInv, TypeOK, Session
<1>6. \A t \in Sessions \ {s} : Live(t)' => obj'[t].owner \in outlived' /\ obj'[t].waiter # "none"
  <2>1. \A t \in Sessions \ {s} : Live(t)' => obj'[t].owner \in outlived'
    BY <1>1, <1>3, StaysOutlived DEF OrderInv, LetIn, Live
  <2>2. \A t \in Sessions \ {s} : Live(t)' => obj'[t].waiter # "none"
    BY <1>1, <1>3 DEF OrderInv, Unregistered, ReachInv, Exclusive, Live
  <2> QED BY <2>1, <2>2
<1>7. LetIn(h)' /\ Unregistered' /\ BarProtects'
  BY <1>2, <1>4, <1>5, <1>6 DEF LetIn, Unregistered, BarProtects
<1>8. Mapped'
  <2> SUFFICES ASSUME NEW t \in Sessions, t # s, obj[t].waiter \in {"waiting", "clearing"},
                      obj[t].owner \notin outlived
               PROVE  sessions'[obj[t].owner] = t
    <3>1. sessions'[obj'[s].owner] = s
      BY <1>3, <1>5
    <3>2. \A t \in Sessions \ {s} :
            obj'[t].waiter \in {"waiting", "clearing"} /\ obj'[t].owner \notin outlived' =>
              obj'[t] = obj[t] /\ obj[t].owner \notin outlived
      BY <1>3, StaysOutlived
    <3> HIDE DEF s
    <3> QED BY <3>1, <3>2 DEF Mapped
  <2>1. sessions[obj[t].owner] = t /\ obj[t].owner \in Accounts
    BY DEF OrderInv, Mapped, ReachInv, Belonging
  <2> QED BY <1>1, <1>3, <2>1, NoneApart
<1> QED BY <1>1, <1>4, <1>7, <1>8, ServedOrder

LEMMA TellOrder ==
  ASSUME LoginInv, ReachInv, OrderInv, ReachInv', Remember, NEW h \in Handlers, Kill(h) \/ SubmitAuthCode(h)
  PROVE  OrderInv'
<1>1. /\ req[h] \in Request /\ req[h].pc \in {"kill", "submit"} /\ UNCHANGED <<sessions, activeId>>
      /\ \A g \in Handlers \ {h} : req'[g] = req[g]
      /\ req'[h].pc \in {"wait", "idle"}
  BY DEF LoginInv, TypeOK, Kill, SubmitAuthCode, Goto, Finish, Idle, Request
<1>2. \A t \in Sessions : /\ obj'[t].owner = obj[t].owner /\ obj'[t].waiter = obj[t].waiter
                          /\ Live(t)' => Live(t)
  BY DEF Kill, SubmitAuthCode, Live, LoginInv, TypeOK, Session
<1>3. BarProtects' /\ Mapped' /\ Unregistered' /\ LetIn(h)'
  BY <1>1, <1>2, StaysOutlived DEF OrderInv, BarProtects, Mapped, Unregistered, LetIn
<1> QED BY <1>1, <1>3, ServedOrder

\* What is dropped is over, so that nobody is logging in to that account, or the
\* account is remembered.
LEMMA DiscardOrder ==
  ASSUME LoginInv, ReachInv, OrderInv, ReachInv', Remember, NEW h \in Handlers, Discard(h)
  PROVE  OrderInv'
<1> DEFINE a == req[h].id
<1>1. /\ req[h].pc = "discard" /\ a \in Accounts /\ sessions[a] \in Sessions /\ sessions[a] # None
      /\ obj[sessions[a]].owner = a
  BY NoneApart DEF LoginInv, TypeOK, Placed, Owned, ReachInv, Holds, Discard
<1>2. /\ sessions' = [sessions EXCEPT ![a] = None] /\ req' = [req EXCEPT ![h] = Idle]
      /\ activeId' = (IF activeId = a THEN None ELSE activeId) /\ UNCHANGED obj
  BY DEF Discard, Finish
<1>3. /\ \A g \in Handlers \ {h} : req'[g] = req[g]
      /\ req'[h].pc = "idle"
      /\ \A b \in Accounts \ {a} : sessions'[b] = sessions[b]
  BY <1>2 DEF LoginInv, TypeOK, Idle
<1>4. a \notin outlived' => obj[sessions[a]].waiter = "over"
  <2> SUFFICES ASSUME obj[sessions[a]].waiter # "over" PROVE a \in outlived'
    OBVIOUS
  <2>1. Forgets(h)
    BY <1>1, <1>3 DEF Forgets
  <2>2. \E s \in Sessions : obj'[s].owner = a /\ obj'[s].waiter # "over"
    BY <1>1, <1>2
  <2> QED BY <2>1, <2>2 DEF Remember, Unfinished
<1>5. BarProtects'
  <2> SUFFICES ASSUME NEW s \in Sessions, Live(s), obj[s].waiter # "none",
                      obj[s].owner \notin outlived', obj[s].owner \notin outlived
               PROVE  obj[s].owner # a /\ activeId = obj[s].owner
    BY <1>2, StaysOutlived DEF BarProtects, Live
  <2> QED BY <1>1, <1>4 DEF OrderInv, BarProtects, ReachInv, Cancellable, Ended, Done, Live
<1>6. Mapped'
  <2> SUFFICES ASSUME NEW s \in Sessions, obj[s].waiter \in {"waiting", "clearing"},
                      obj[s].owner \notin outlived', obj[s].owner \notin outlived
               PROVE  sessions'[obj[s].owner] = s
    BY <1>2, StaysOutlived DEF Mapped
  <2>1. sessions[obj[s].owner] = s /\ obj[s].owner \in Accounts
    BY DEF OrderInv, Mapped, ReachInv, Belonging
  <2> QED BY <1>1, <1>3, <1>4, <2>1
<1>7. LetIn(h)' /\ Unregistered'
  BY <1>1, <1>2, <1>3 DEF OrderInv, LetIn, Unregistered, Live
<1> QED BY <1>1, <1>3, <1>5, <1>6, <1>7, ServedOrder

\* The goroutine that clears the active id is that of the account's own session,
\* whose login has ended.
LEMMA ObjectOrder ==
  ASSUME LoginInv, ReachInv, OrderInv, ReachInv', Remember, NEW s \in Sessions,
         \/ Goroutine(s) \/ Die(s) \/ PrintUrl(s) \/ Exit(s, "ok") \/ Exit(s, "failed")
  PROVE  OrderInv'
<1>1. UNCHANGED <<sessions, req>> /\ obj[s] \in Session
      /\ \A t \in Sessions \ {s} : obj'[t] = obj[t]
  BY DEF Goroutine, RecordLine, LineLost, WaitEnds, ClearActive, Die, PrintUrl, Exit, LoginInv, TypeOK
<1>2. /\ obj'[s].owner = obj[s].owner
      /\ Live(s)' => Live(s)
      /\ obj[s].waiter = "none" <=> obj'[s].waiter = "none"
      /\ obj'[s].waiter \in {"waiting", "clearing"} => obj[s].waiter \in {"waiting", "clearing"}
      /\ \/ activeId' = activeId
         \/ activeId' = None /\ activeId = obj[s].owner /\ obj[s].waiter = "clearing"
  <2>1. CASE RecordLine(s)
    BY <1>1, <2>1 DEF RecordLine, Session, Live, LoginInv, TypeOK
  <2>2. CASE LineLost(s)
    BY <1>1, <2>2 DEF LineLost, Session, Live, LoginInv, TypeOK
  <2>3. CASE WaitEnds(s)
    BY <1>1, <2>3 DEF WaitEnds, Session, Live, LoginInv, TypeOK
  <2>4. CASE ClearActive(s)
    BY <1>1, <2>4 DEF ClearActive, Session, Live, LoginInv, TypeOK
  <2>5. CASE Die(s)
    BY <1>1, <2>5 DEF Die, Session, Live, LoginInv, TypeOK
  <2>6. CASE PrintUrl(s)
    BY <1>1, <2>6 DEF PrintUrl, Session, Live, LoginInv, TypeOK
  <2>7. CASE Exit(s, "ok") \/ Exit(s, "failed")
    BY <1>1, <2>7 DEF Exit, Session, Live, LoginInv, TypeOK
  <2> QED BY <2>1, <2>2, <2>3, <2>4, <2>5, <2>6, <2>7 DEF Goroutine
<1>3. \A t \in Sessions : Live(t)' => Live(t)
  BY <1>1, <1>2 DEF Live
<1>4. BarProtects'
  <2> SUFFICES ASSUME NEW t \in Sessions, Live(t)', obj'[t].waiter # "none",
                      obj'[t].owner \notin outlived
               PROVE  activeId' = obj'[t].owner
    BY StaysOutlived DEF BarProtects
  <2>1. Live(t) /\ obj[t].waiter # "none" /\ obj'[t].owner = obj[t].owner
    BY <1>1, <1>2, <1>3
  <2>2. activeId = obj[t].owner /\ sessions[activeId] = t
    BY <2>1 DEF OrderInv, BarProtects, ReachInv, Cancellable
  <2>3. ~(obj[s].waiter = "clearing" /\ activeId = obj[s].owner)
    <3> SUFFICES ASSUME obj[s].waiter = "clearing", activeId = obj[s].owner PROVE FALSE
      OBVIOUS
    <3>1. s = t
      BY <2>1, <2>2 DEF OrderInv, Mapped
    <3> QED BY <2>1, <3>1 DEF ReachInv, Ended, Done, Live
  <2> QED BY <1>2, <2>1, <2>2, <2>3
<1>5. Mapped' /\ Unregistered'
  BY <1>1, <1>2, <1>3, StaysOutlived DEF OrderInv, Mapped, Unregistered
<1>6. \A h \in Handlers : LetIn(h)'
  BY <1>1, <1>2, <1>3, StaysOutlived DEF OrderInv, LetIn
<1> QED BY <1>4, <1>5, <1>6 DEF OrderInv

LEMMA ArrivalOrder ==
  ASSUME Overlap = FALSE, LoginInv, ReachInv, OrderInv, ReachInv', Remember, NEW a \in Accounts,
         \/ DeleteAccount(a) \/ CreateAccount(a)
         \/ \E h \in Handlers, op \in {"start", "complete", "cancel"} : Receive(h, op, a)
  PROVE  OrderInv'
<1>1. \A g \in Handlers : req[g].pc = "idle"
  BY DEF MayCome, DeleteAccount, CreateAccount, Receive, Idle
<1>2. UNCHANGED <<activeId, obj>>
  BY DEF DeleteAccount, CreateAccount, Receive
<1>3. \A g \in Handlers : req'[g].pc \in {"idle", "admit", "find"}
  BY <1>1 DEF DeleteAccount, CreateAccount, Receive, FirstPc, Idle, LoginInv, TypeOK
<1>4. BarProtects' /\ \A g \in Handlers : LetIn(g)'
  BY <1>2, <1>3, StaysOutlived DEF OrderInv, BarProtects, LetIn, Live
<1>5. Unregistered'
  BY <1>1, <1>2 DEF OrderInv, Unregistered, Live
<1>6. Mapped'
  <2> SUFFICES ASSUME NEW s \in Sessions, obj[s].waiter \in {"waiting", "clearing"},
                      obj[s].owner \notin outlived
               PROVE  sessions'[obj[s].owner] = s
    BY <1>2, StaysOutlived DEF Mapped
  <2>1. sessions[obj[s].owner] = s /\ obj[s].owner \in Accounts
    BY DEF OrderInv, Mapped, ReachInv, Belonging
  <2>2. CASE CreateAccount(a)
    BY <2>1, <2>2 DEF CreateAccount, Forgotten, LoginInv, TypeOK
  <2>3. CASE UNCHANGED sessions
    BY <2>1, <2>3
  <2> QED BY <2>2, <2>3 DEF DeleteAccount, Receive
<1> QED BY <1>4, <1>5, <1>6 DEF OrderInv

LEMMA OrderNext ==
  ASSUME Overlap = FALSE
  PROVE  LoginInv /\ ReachInv /\ Startable /\ OrderInv /\ ReachInv' /\ [NextH]_histVars => OrderInv'
<1> SUFFICES ASSUME LoginInv, ReachInv, Startable, OrderInv, ReachInv', [NextH]_histVars
             PROVE  OrderInv'
  OBVIOUS
<1>5. CASE UNCHANGED histVars
  BY <1>5 DEF histVars, vars, OrderInv, BarProtects, Mapped, Unregistered, LetIn, Live
<1> SUFFICES ASSUME Next, Remember PROVE OrderInv'
  BY <1>5 DEF NextH
<1>1. ASSUME NEW h \in Handlers, Serve(h) PROVE OrderInv'
  BY <1>1, MovesOrder, CheckExistingOrder, SpawnOrder, RegisterOrder, TellOrder, DiscardOrder
  DEF Serve, Start, EndOrCancel
<1>2. ASSUME NEW s \in Sessions, Goroutine(s) \/ Die(s) PROVE OrderInv'
  BY <1>2, ObjectOrder
<1>3. CASE Environment
  BY <1>3, ObjectOrder, ArrivalOrder DEF Environment
<1> QED BY <1>1, <1>2, <1>3 DEF Next

-----------------------------------------------------------------------------
\* Every variable of OfficialLogin stays in its domain.
THEOREM LoginTypeCorrect == Spec => []TypeOK
<1>1. LoginInv => TypeOK
  BY DEF LoginInv
<1> QED BY <1>1, InitInv, NextInv, PTL DEF Spec

\* For any number of accounts, sessions and overlapping requests: whenever the
\* active id bars the other accounts, a session of its account is there to be
\* cancelled and the goroutine that lifts the bar is still to come.
THEOREM BarAlwaysLifted == Spec => []BarIsLifted
<1>1. LoginInv => BarIsLifted
  BY DEF LoginInv
<1> QED BY <1>1, InitInv, NextInv, PTL DEF Spec

\* With requests one at a time, for any number of accounts and sessions, also of
\* accounts that were deleted: a login in progress that was not told to stop is
\* the one its account is mapped to.
THEOREM LoginsCancellable ==
  ASSUME Overlap = FALSE
  PROVE  Spec => []Cancellable
<1>1. ReachInv => Cancellable
  BY DEF ReachInv
<1>2. LoginInv /\ ReachInv /\ [Next]_vars => ReachInv'
  BY NextReach
<1> QED BY <1>1, <1>2, InitInv, NextInv, InitReach, PTL DEF Spec

\* With requests one at a time, for any number of accounts and sessions: a start
\* that holds loginMu never waits for the lock of a session, so that the two
\* orders in which the code takes the locks do not meet.
THEOREM NoLockIsCrossed ==
  ASSUME Overlap = FALSE
  PROVE  Spec => []LocksNotCrossed
<1>1. LoginInv /\ Startable => LocksNotCrossed
  BY DEF LoginInv, TypeOK, Startable, LocksNotCrossed, MuFree
<1>2. LoginInv /\ ReachInv /\ [Next]_vars => ReachInv'
  BY NextReach
<1>3. LoginInv /\ ReachInv /\ Startable /\ [Next]_vars => Startable'
  BY StartableNext
<1> QED
  BY <1>1, <1>2, <1>3, InitInv, NextInv, InitReach, InitStartable, PTL DEF Spec

\* With requests one at a time, for any number of accounts and sessions: two
\* logins of a tool are in progress together only if the start or cancellation of
\* one of their accounts once gave up waiting (codex_official_login.go:190) and that
\* account has had a login going on ever since.
THEOREM LoginsAloneUnlessOutlived ==
  ASSUME Overlap = FALSE
  PROVE  SpecH => []AloneUnlessOutlived
<1>1. [NextH]_histVars => [Next]_vars
  BY DEF NextH, histVars, vars
<1>2. LoginInv /\ ReachInv /\ [Next]_vars => ReachInv'
  BY NextReach
<1>3. LoginInv /\ ReachInv /\ Startable /\ [Next]_vars => Startable'
  BY StartableNext
<1>4. LoginInv /\ ReachInv /\ Startable /\ OrderInv /\ ReachInv' /\ [NextH]_histVars => OrderInv'
  BY OrderNext
<1>5. InitH => LoginInv /\ ReachInv /\ Startable /\ OrderInv
  BY InitInv, InitReach, InitStartable, InitOrder DEF InitH
<1>6. LoginInv /\ [Next]_vars => LoginInv'
  BY NextInv
<1> QED
  BY <1>1, <1>2, <1>3, <1>4, <1>5, <1>6, OrderGivesOne, PTL DEF SpecH
=============================================================================
