------------------------------ MODULE CloudSync ------------------------------
(***************************************************************************)
(* Cloud sync (sync_handler.go, sync/config.go, and the part of            *)
(* backup_transfer.go that restores the sync settings).                    *)
(*                                                                         *)
(* The settings are rows of app_settings that are written, and read, one   *)
(* at a time.  A background goroutine, the loop, pushes an export of the   *)
(* database every interval; saving the settings closes the channel that    *)
(* stops the loop, makes another channel and starts another loop.  Nothing *)
(* here takes a lock: what two requests do interleaves, and a loop reads   *)
(* the field s.syncStop only when it first runs.                           *)
(*                                                                         *)
(* Of the nine settings the two the loop branches on are kept.  The        *)
(* SyncStatus shown on the page decides nothing and is left out; what an   *)
(* export holds and an import does to the providers is ProviderImport's.   *)
(***************************************************************************)
EXTENDS Naturals

CONSTANTS
  Handlers,   \* requests in flight
  Loops,      \* goroutines running autoSyncLoop: a bound, the code has none
  Chans,      \* stop channels; one that nothing refers to any more is reused
  Forms,      \* the settings that forms and imported files ask for
  Faults,     \* whether statements on the database fail
  None

ASSUME FaultsType == Faults \in BOOLEAN
ASSUME NoneApart == None \notin Chans
ASSUME SomeToUse == Chans # {} /\ Loops # {}

\* webdav stands for s3 as well.  A form or an imported file may name a type that
\* the program has no backend for; nothing looks at it when it is saved.
Types == {"disabled", "webdav", "unknown"}
Config == [type : Types, auto : BOOLEAN]
ASSUME FormsType == Forms \subseteq Config

VARIABLES
  settings,   \* the rows sync_type and sync_auto
  stop,       \* s.syncStop
  open,       \* the channels that are made and not closed
  loops,      \* the loops
  req,        \* the requests
  broken      \* history: the settings could not be saved, or not be read by a
              \* loop, since the last start of a loop

vars == <<settings, stop, open, loops, req, broken>>

Fields == {"type", "auto"}
Off == [type |-> "disabled", auto |-> FALSE]

\* pc "type" and "auto": about to read that setting, after the wait if woken.
\* type: the type that was read.
Loop == [pc : {"none", "born", "type", "auto", "sleep", "export", "push"},
         ch : Chans \cup {None}, woken : BOOLEAN, type : Types]
Ended == [pc |-> "none", ch |-> None, woken |-> FALSE, type |-> "disabled"]
Born == [Ended EXCEPT !.pc = "born"]

\* left: the settings not written yet.  ch: the channel read from s.syncStop.
Request == [pc : {"idle", "save", "read", "close", "make"},
            cfg : Config, left : SUBSET Fields, ch : Chans \cup {None}]
Idle == [pc |-> "idle", cfg |-> Off, left |-> {}, ch |-> None]

Saving(cfg) == [Idle EXCEPT !.pc = "save", !.cfg = cfg, !.left = Fields]

TypeOK ==
  /\ settings \in Config
  /\ stop \in Chans
  /\ open \subseteq Chans
  /\ loops \in [Loops -> Loop]
  /\ req \in [Handlers -> Request]
  /\ broken \in BOOLEAN

\* main.go calls StartAutoSync before it serves: the first loop is on its way.
AChan == CHOOSE c \in Chans : TRUE
ALoop == CHOOSE l \in Loops : TRUE
FirstLoop == [l \in Loops |-> IF l = ALoop THEN Born ELSE Ended]

\* The settings are what an earlier run of the program has left.
Init ==
  /\ settings \in Config
  /\ stop = AChan
  /\ open = {AChan}
  /\ loops = FirstLoop
  /\ req = [h \in Handlers |-> Idle]
  /\ broken = FALSE

-----------------------------------------------------------------------------
(* Saving the settings and restarting the loop. *)

Goto(h, pc) == req' = [req EXCEPT ![h].pc = pc]
Finish(h) == req' = [req EXCEPT ![h] = Idle]

\* The settings come from the form of POST /sync/save, /sync/test, /sync/push or
\* /sync/pull, or from the backup file that a pull or an upload imports (a pull
\* may thus save twice).  What else these do leaves this state alone.
Submit(h) ==
  /\ req[h].pc = "idle"
  /\ \E cfg \in Forms : req' = [req EXCEPT ![h] = Saving(cfg)]
  /\ UNCHANGED <<settings, stop, open, loops, broken>>

\* SaveConfig ranges over a map: the order is any.
SaveField(h) ==
  /\ req[h].pc = "save"
  /\ \E f \in req[h].left :
       /\ settings' = [settings EXCEPT ![f] = req[h].cfg[f]]
       /\ req' = [req EXCEPT ![h] = IF req[h].left = {f} THEN [Idle EXCEPT !.pc = "read"]
                                    ELSE [req[h] EXCEPT !.left = req[h].left \ {f}]]
  /\ UNCHANGED <<stop, open, loops, broken>>

\* A statement fails: what was written stays, the loop is not restarted.
SaveFails(h) ==
  /\ Faults /\ req[h].pc = "save"
  /\ Finish(h)
  /\ broken' = TRUE
  /\ UNCHANGED <<settings, stop, open, loops>>

ReadStop(h) ==
  /\ req[h].pc = "read"
  /\ req' = [req EXCEPT ![h].ch = stop, ![h].pc = "close"]
  /\ UNCHANGED <<settings, stop, open, loops, broken>>

\* Mutant: a channel that is closed already is passed over.
CloseStop_Tolerant(h) ==
  /\ req[h].pc = "close"
  /\ req' = [req EXCEPT ![h].ch = None, ![h].pc = "make"]
  /\ open' = open \ {req[h].ch}
  /\ UNCHANGED <<settings, stop, loops, broken>>

\* Closing a closed channel panics, and net/http ends the request.
CloseStop(h) ==
  /\ req[h].pc = "close"
  /\ IF req[h].ch \notin open
     THEN Finish(h) /\ UNCHANGED open
     ELSE /\ req' = [req EXCEPT ![h].ch = None, ![h].pc = "make"]
          /\ open' = open \ {req[h].ch}
  /\ UNCHANGED <<settings, stop, loops, broken>>

Unused(c) ==
  /\ c # stop
  /\ \A l \in Loops : loops[l].ch # c
  /\ \A h \in Handlers : req[h].ch # c
Over(l) == loops[l].pc = "none"

NewChan == CHOOSE c \in Chans : Unused(c)
NewLoop == CHOOSE l \in Loops : Over(l)

MakeStop(h) ==
  /\ req[h].pc = "make"
  /\ \E c \in Chans : Unused(c)
  /\ \E l \in Loops : Over(l)
  /\ stop' = NewChan /\ open' = open \cup {NewChan}
  /\ loops' = [loops EXCEPT ![NewLoop] = Born]
  /\ Finish(h)
  /\ broken' = FALSE
  /\ UNCHANGED settings

HandlerStep(h) ==
  SaveField(h) \/ SaveFails(h) \/ ReadStop(h) \/ CloseStop(h) \/ MakeStop(h)

-----------------------------------------------------------------------------
(* autoSyncLoop *)

\* Mutant: the type is not looked at.
Enabled_Always(type) == TRUE

Enabled(type) == type # "disabled"

\* Mutant: the stop channel is not in the select.
Stopped_Never(l) == FALSE

Stopped(l) == loops[l].ch \notin open

Move(l, pc) == loops' = [loops EXCEPT ![l].pc = pc]
End(l) == loops' = [loops EXCEPT ![l] = Ended]

\* The loop goes on and has no use any more for what it has read.
Forgetting(l, pc) == loops' = [loops EXCEPT ![l] = [Ended EXCEPT !.pc = pc, !.ch = loops[l].ch]]
Around(l) == Forgetting(l, "type")

\* stop := s.syncStop, whenever the goroutine first runs.
Bind(l) ==
  /\ loops[l].pc = "born"
  /\ loops' = [loops EXCEPT ![l].ch = stop, ![l].pc = "type"]

ReadType(l) ==
  /\ loops[l].pc = "type"
  /\ loops' = [loops EXCEPT ![l].type = settings.type, ![l].pc = "auto"]

\* Before the wait: a channel closed by now ends the select at once, for the
\* timer has only been set.
ReadAuto(l) ==
  /\ loops[l].pc = "auto"
  /\ LET on == Enabled(loops[l].type) /\ settings.auto
     IN  CASE ~on -> End(l)
           [] on /\ loops[l].woken -> Move(l, "export")
           [] on /\ ~loops[l].woken -> IF Stopped(l) THEN End(l) ELSE Forgetting(l, "sleep")

StopsWaiting(l) ==
  /\ loops[l].pc = "sleep" /\ Stopped(l)
  /\ End(l)

\* A timer that fires as the channel is closed may win.
Wakes(l) ==
  /\ loops[l].pc = "sleep"
  /\ loops' = [loops EXCEPT ![l].woken = TRUE, ![l].pc = "type"]

\* NewBackend: a type that is not known is passed over until the next time.
Known(type) == type # "unknown"

NoBackend(l) ==
  /\ loops[l].pc = "export" /\ ~Known(loops[l].type)
  /\ Around(l)

Export(l) ==
  /\ loops[l].pc = "export" /\ Known(loops[l].type)
  /\ Forgetting(l, "push")

\* Mutant: a push that fails ends the loop.
Push_GivesUp(l) ==
  /\ loops[l].pc = "push"
  /\ Around(l) \/ End(l)

\* Done or failed, the status is noted and the loop goes round.
Push(l) ==
  /\ loops[l].pc = "push"
  /\ Around(l)

LoopRuns(l) ==
  /\ \/ Bind(l) \/ ReadType(l) \/ ReadAuto(l) \/ StopsWaiting(l) \/ Wakes(l)
     \/ NoBackend(l) \/ Export(l) \/ Push(l)
  /\ UNCHANGED <<settings, stop, open, req, broken>>

\* The settings cannot be read: the loop ends, whatever they say.
LoadFails(l) ==
  /\ loops[l].pc \in {"type", "auto"}
  /\ End(l)
  /\ broken' = TRUE

ExportFails(l) ==
  /\ loops[l].pc = "export" /\ Known(loops[l].type)
  /\ Around(l)
  /\ UNCHANGED broken

LoopFails(l) ==
  /\ Faults
  /\ LoadFails(l) \/ ExportFails(l)
  /\ UNCHANGED <<settings, stop, open, req>>

LoopStep(l) == LoopRuns(l) \/ LoopFails(l)

-----------------------------------------------------------------------------
(* The rest of the program. *)

\* The process dies and is started again.
Restart ==
  /\ stop' = AChan
  /\ open' = {AChan}
  /\ loops' = FirstLoop
  /\ req' = [h \in Handlers |-> Idle]
  /\ broken' = FALSE
  /\ UNCHANGED settings

Next ==
  \/ \E h \in Handlers : Submit(h) \/ HandlerStep(h)
  \/ \E l \in Loops : LoopStep(l)
  \/ Restart

Spec == Init /\ [][Next]_vars

\* Goroutines are scheduled, statements return, timers fire, and a push ends
\* within its time limit of 30 s.
FairSpec ==
  /\ Spec
  /\ \A h \in Handlers : WF_vars(HandlerStep(h))
  /\ \A l \in Loops : WF_vars(LoopStep(l))

-----------------------------------------------------------------------------
(* Properties. *)

\* A loop that runs listens to the channel the next restart will close, or to
\* one that is closed: no restart, however restarts overlap, leaves behind a
\* loop that nothing can stop.
NoLoopEscapes ==
  \A l \in Loops : loops[l].ch # None => loops[l].ch = stop \/ loops[l].ch \notin open

\* A loop whose channel is closed ends.
StoppedLoopsEnd ==
  \A l \in Loops : (loops[l].ch \notin open) ~> (loops[l].ch = None)

AutoOn == settings.type # "disabled" /\ settings.auto
OnlyLoopsRun == <>[][\E l \in Loops : LoopRuns(l)]_vars

\* With auto-sync on and of a known type, the settings saved and read without error
\* since the last restart, and the rest of the program at rest, the database is
\* pushed again and again: however the restarts before interleaved, one left a
\* loop that saw the final settings.
AutoSyncKeepsPushing ==
  OnlyLoopsRun /\ <>[](AutoOn /\ Known(settings.type) /\ ~broken) => []<>(\E l \in Loops : loops[l].pc = "push")

\* With auto-sync off and the rest at rest, all the loops end.
DisabledMeansSilent ==
  OnlyLoopsRun /\ <>[]~AutoOn => <>(\A l \in Loops : loops[l].pc = "none")
=============================================================================
