--------------------------- MODULE CloudSyncProofs ---------------------------
(***************************************************************************)
(* What holds of CloudSync for any number of requests, loops and channels. *)
(*                                                                         *)
(* That no loop escapes rests on the one thing here that is atomic, the    *)
(* close of a channel, and on a panic: of two restarts that read the same  *)
(* channel the second is ended by it, so at most one request is ever       *)
(* between a close and the making of the next channel, and only the        *)
(* channel of s.syncStop is open.                                          *)
(***************************************************************************)
EXTENDS CloudSync, TLAPS

\* At most the current channel is open, and none while it is being replaced,
\* which one request at a time does.
OneOpen ==
  /\ open \subseteq {stop}
  /\ \A h \in Handlers : req[h].pc = "make" => open = {}
  /\ \A h, g \in Handlers : req[h].pc = "make" /\ req[g].pc = "make" => h = g

SyncInv == TypeOK /\ OneOpen

LEMMA Chosen == AChan \in Chans /\ ALoop \in Loops
  BY SomeToUse DEF AChan, ALoop

LEMMA StartTyped ==
  /\ FirstLoop \in [Loops -> Loop]
  /\ [h \in Handlers |-> Idle] \in [Handlers -> Request]
  BY DEF FirstLoop, Loop, Born, Ended, Request, Idle, Config, Off, Types

LEMMA SyncInit == Init => SyncInv
<1> SUFFICES ASSUME Init PROVE SyncInv OBVIOUS
<1>1. TypeOK
  BY Chosen, StartTyped DEF Init, TypeOK
<1>2. OneOpen
  BY DEF Init, OneOpen, Idle
<1> QED BY <1>1, <1>2 DEF SyncInv

-----------------------------------------------------------------------------
(* The steps of a request. *)

\* A step that leaves channels and loops alone and brings no request to make.
LEMMA QuietRequest ==
  ASSUME SyncInv, NEW h \in Handlers, NEW r \in Request, r.pc # "make",
         req' = [req EXCEPT ![h] = r], settings' \in Config, broken' \in BOOLEAN,
         UNCHANGED <<stop, open, loops>>
  PROVE  SyncInv'
<1>1. TypeOK'
  BY DEF SyncInv, TypeOK
<1>2. \A g \in Handlers : req'[g].pc = "make" => g # h /\ req[g].pc = "make"
  BY DEF SyncInv, TypeOK
<1>3. OneOpen'
  BY <1>2 DEF SyncInv, OneOpen
<1> QED BY <1>1, <1>3 DEF SyncInv

LEMMA SyncSave ==
  ASSUME SyncInv, NEW h \in Handlers, Submit(h) \/ SaveField(h) \/ SaveFails(h) \/ ReadStop(h)
  PROVE  SyncInv'
<1> USE DEF SyncInv, TypeOK
<1>1. CASE Submit(h)
  <2>1. PICK cfg \in Forms : req' = [req EXCEPT ![h] = Saving(cfg)]
    BY <1>1 DEF Submit
  <2>2. Saving(cfg) \in Request /\ Saving(cfg).pc # "make"
    BY <2>1, FormsType DEF Saving, Idle, Request, Off, Config, Fields, Types
  <2> QED BY <1>1, <2>1, <2>2, QuietRequest DEF Submit
<1>2. CASE SaveField(h)
  <2>1. PICK f \in req[h].left :
          /\ settings' = [settings EXCEPT ![f] = req[h].cfg[f]]
          /\ req' = [req EXCEPT ![h] = IF req[h].left = {f} THEN [Idle EXCEPT !.pc = "read"]
                                         ELSE [req[h] EXCEPT !.left = req[h].left \ {f}]]
    BY <1>2 DEF SaveField
  <2> DEFINE r == IF req[h].left = {f} THEN [Idle EXCEPT !.pc = "read"]
                  ELSE [req[h] EXCEPT !.left = req[h].left \ {f}]
  <2>2. req[h] \in Request /\ req[h].pc = "save"
    BY <1>2 DEF SaveField
  <2>3. r \in Request /\ r.pc # "make"
    BY <2>2 DEF Request, Idle, Off, Config, Types
  <2>4. f \in {"type", "auto"} /\ req[h].cfg \in Config
    BY <2>1, <2>2 DEF Request, Fields
  <2>5. settings' \in Config
    BY <2>1, <2>4 DEF Config
  <2> QED BY <1>2, <2>1, <2>3, <2>5, QuietRequest DEF SaveField
<1>3. CASE SaveFails(h)
  <2>1. Idle \in Request /\ Idle.pc # "make"
    BY DEF Idle, Request, Config, Off, Types
  <2> QED BY <1>3, <2>1, QuietRequest DEF SaveFails, Finish
<1>4. CASE ReadStop(h)
  <2> DEFINE r == [req[h] EXCEPT !.ch = stop, !.pc = "close"]
  <2>1. r \in Request /\ r.pc # "make"
    BY DEF Request
  <2>2. req' = [req EXCEPT ![h] = r]
    BY <1>4 DEF ReadStop
  <2> QED BY <1>4, <2>1, <2>2, QuietRequest DEF ReadStop
<1> QED BY <1>1, <1>2, <1>3, <1>4

\* The close: the request that finds the channel open is alone past it.
LEMMA SyncClose == ASSUME SyncInv, NEW h \in Handlers, CloseStop(h) PROVE SyncInv'
<1>1. CASE req[h].ch \notin open
  <2>1. Idle \in Request /\ Idle.pc # "make"
    BY DEF Idle, Request, Config, Off, Types
  <2> QED BY <1>1, <2>1, QuietRequest DEF CloseStop, Finish, SyncInv, TypeOK
<1>2. CASE req[h].ch \in open
  <2>1. /\ req' = [req EXCEPT ![h].ch = None, ![h].pc = "make"]
        /\ open' = open \ {req[h].ch}
        /\ UNCHANGED <<settings, stop, loops, broken>>
    BY <1>2 DEF CloseStop
  <2>2. req[h].ch = stop /\ \A g \in Handlers : req[g].pc # "make"
    BY <1>2 DEF SyncInv, OneOpen
  <2>3. req' \in [Handlers -> Request]
    BY <2>1 DEF SyncInv, TypeOK, Request
  <2>4. TypeOK'
    BY <2>1, <2>3 DEF SyncInv, TypeOK
  <2>5. open' = {} /\ \A g \in Handlers : req'[g].pc = "make" => g = h
    BY <2>1, <2>2 DEF SyncInv, OneOpen, TypeOK, Request
  <2>6. OneOpen'
    BY <2>5 DEF OneOpen
  <2> QED BY <2>4, <2>6 DEF SyncInv
<1> QED BY <1>1, <1>2

LEMMA SyncMake == ASSUME SyncInv, NEW h \in Handlers, MakeStop(h) PROVE SyncInv'
<1>1. NewChan \in Chans /\ NewLoop \in Loops
  <2>1. \E c \in Chans : Unused(c)
    BY DEF MakeStop
  <2>2. \E l \in Loops : Over(l)
    BY DEF MakeStop
  <2> QED BY <2>1, <2>2 DEF NewChan, NewLoop
<1>2. /\ req[h].pc = "make" /\ req' = [req EXCEPT ![h] = Idle]
      /\ stop' = NewChan /\ open' = open \cup {NewChan}
      /\ loops' = [loops EXCEPT ![NewLoop] = Born]
      /\ broken' = FALSE /\ settings' = settings
  BY DEF MakeStop, Finish
<1>3. Idle \in Request /\ Idle.pc # "make" /\ Born \in Loop
  BY DEF Idle, Request, Config, Off, Types, Loop, Born, Ended
<1>4. TypeOK'
  BY <1>1, <1>2, <1>3 DEF SyncInv, TypeOK
<1>5. open = {} /\ \A g \in Handlers : req[g].pc = "make" => g = h
  BY <1>2 DEF SyncInv, OneOpen
<1>6. \A g \in Handlers : req'[g].pc # "make"
  BY <1>2, <1>3, <1>5 DEF SyncInv, TypeOK
<1>7. OneOpen'
  BY <1>2, <1>5, <1>6 DEF OneOpen
<1> QED BY <1>4, <1>7 DEF SyncInv

-----------------------------------------------------------------------------
(* The steps of a loop change the loop only. *)

LEMMA LoopTyped ==
  ASSUME TypeOK, NEW l \in Loops, LoopRuns(l) \/ LoadFails(l) \/ ExportFails(l)
  PROVE  loops' \in [Loops -> Loop]
<1> USE DEF TypeOK
<1>0. loops[l] \in Loop
  OBVIOUS
<1>1. CASE Bind(l)
  BY <1>0, <1>1 DEF Bind, Loop
<1>2. CASE ReadType(l)
  BY <1>0, <1>2 DEF ReadType, Loop, Config
<1>3. CASE StopsWaiting(l) \/ LoadFails(l) \/ End(l)
  <2>1. Ended \in Loop
    BY DEF Ended, Loop, Types
  <2>2. loops' = [loops EXCEPT ![l] = Ended]
    BY <1>3 DEF StopsWaiting, LoadFails, End
  <2> QED BY <2>1, <2>2
<1>4. CASE Wakes(l) \/ Move(l, "export")
  BY <1>0, <1>4 DEF Wakes, Move, Loop
<1>5. CASE \E pc \in {"type", "sleep", "push"} : Forgetting(l, pc)
  <2>1. PICK pc \in {"type", "sleep", "push"} : Forgetting(l, pc)
    BY <1>5
  <2>2. [Ended EXCEPT !.pc = pc, !.ch = loops[l].ch] \in Loop
    BY <1>0, <2>1 DEF Ended, Loop, Types
  <2> QED BY <2>1, <2>2 DEF Forgetting
<1>6. CASE Push(l) \/ NoBackend(l) \/ Export(l) \/ ExportFails(l)
  BY <1>5, <1>6 DEF Push, NoBackend, Export, ExportFails, Around
<1>7. CASE ReadAuto(l)
  <2>1. End(l) \/ Move(l, "export") \/ Forgetting(l, "sleep")
    <3>1. loops[l].woken \in BOOLEAN
      BY <1>0 DEF Loop
    <3> DEFINE on == Enabled(loops[l].type) /\ settings.auto
    <3>2. CASE ~on
      BY <1>7, <3>2 DEF ReadAuto
    <3>3. CASE on
      BY <1>7, <3>1, <3>3 DEF ReadAuto
    <3> QED BY <3>2, <3>3
  <2> QED BY <2>1, <1>3, <1>4, <1>5
<1> QED BY <1>1, <1>2, <1>3, <1>4, <1>6, <1>7 DEF LoopRuns

LEMMA SyncLoop == ASSUME SyncInv, NEW l \in Loops, LoopStep(l) PROVE SyncInv'
<1>1. UNCHANGED <<settings, stop, open, req>> /\ broken' \in BOOLEAN
  BY DEF SyncInv, TypeOK, LoopStep, LoopRuns, LoopFails, LoadFails, ExportFails
<1>2. loops' \in [Loops -> Loop]
  BY LoopTyped DEF SyncInv, LoopStep, LoopFails
<1> QED BY <1>1, <1>2 DEF SyncInv, TypeOK, OneOpen

LEMMA SyncRestart == ASSUME SyncInv, Restart PROVE SyncInv'
<1>1. TypeOK'
  BY Chosen, StartTyped DEF Restart, SyncInv, TypeOK
<1>2. OneOpen'
  BY DEF Restart, OneOpen, Idle
<1> QED BY <1>1, <1>2 DEF SyncInv

LEMMA SyncStep == SyncInv /\ [Next]_vars => SyncInv'
<1> SUFFICES ASSUME SyncInv, [Next]_vars PROVE SyncInv' OBVIOUS
<1>1. ASSUME NEW h \in Handlers, Submit(h) \/ HandlerStep(h) PROVE SyncInv'
  BY <1>1, SyncSave, SyncClose, SyncMake DEF HandlerStep
<1>2. ASSUME NEW l \in Loops, LoopStep(l) PROVE SyncInv'
  BY <1>2, SyncLoop
<1>3. CASE Restart
  BY <1>3, SyncRestart
<1>4. CASE UNCHANGED vars
  BY <1>4 DEF vars, SyncInv, TypeOK, OneOpen
<1> QED BY <1>1, <1>2, <1>3, <1>4 DEF Next

-----------------------------------------------------------------------------
(* The theorems. *)

\* Settings, channels, loops and requests have their types, for any number of
\* requests, loops and channels.
THEOREM SyncTypeCorrect == Spec => []TypeOK
<1>1. SyncInv => TypeOK
  BY DEF SyncInv
<1> QED BY SyncInit, SyncStep, <1>1, PTL DEF Spec

\* A running loop listens to s.syncStop or to a channel that is closed, however
\* many restarts overlap: none is left that no later restart can stop.
THEOREM NoLoopEver == Spec => []NoLoopEscapes
<1>1. SyncInv => NoLoopEscapes
  BY DEF SyncInv, OneOpen, NoLoopEscapes
<1> QED BY SyncInit, SyncStep, <1>1, PTL DEF Spec
=============================================================================
