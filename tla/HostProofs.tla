----------------------------- MODULE HostProofs -----------------------------
(* Proofs about Host and the start-up it composes with. *)
EXTENDS Host, TLAPS

-----------------------------------------------------------------------------
(* The start and its secrets: every step of Host is one of these for them. *)

SecretsNext ==
  \/ StartSteps \/ UserSteps
  \/ End /\ UNCHANGED <<key, sealed, hash, creds>>
  \/ (proc.pc = "off" /\ proc' = Started) /\ UNCHANGED <<key, sealed, hash, creds, session, lost>>
  \/ (proc.pc = "listen" /\ Goto("serving")) /\ UNCHANGED <<key, sealed, hash, creds, session, lost>>
  \/ Import

LEMMA SecretsStep ==
  ASSUME [Next]_vars
  PROVE  SecretsNext \/ UNCHANGED secrets
<1>1. CASE ProcStep BY <1>1 DEF ProcStep, Exec, Listen, SecretsNext
<1>2. CASE UserStep BY <1>2 DEF UserStep, SecretsNext
<1>3. CASE StartFails /\ UNCHANGED hvars BY <1>3 DEF StartFails, SecretsNext
<1>4. CASE Crash BY <1>4 DEF Crash, SecretsNext
<1>5. CASE Publish \/ ToolsChange \/ UNCHANGED vars BY <1>5 DEF Publish, ToolsChange, vars
<1>6. ASSUME NEW t \in Tasks, TaskStep(t) \/ TaskFails(t) PROVE SecretsNext \/ UNCHANGED secrets
  BY <1>6 DEF TaskStep, TaskFails, SaveAddress, ReadUnit, Checkout, Build, CreateUnit, FillUnit, Reload,
              Restart, RestartRefused, SecretsNext
<1>7. ASSUME NEW h, ChangeAddress(h) \/ ChangeTLS(h) \/ SelfUpdate(h) PROVE UNCHANGED secrets
  BY <1>7 DEF ChangeAddress, ChangeTLS, SelfUpdate, Begin
<1> QED BY <1>1, <1>2, <1>3, <1>4, <1>5, <1>6, <1>7 DEF Next

\* Where the start is says what it has done: which key it has, which rows are stored.
KeyInv ==
  /\ key \notin Keys => sealed = {}
  /\ sealed \subseteq {key}
  /\ proc.pc \in {"rows", "password", "token", "file", "fillfile", "import", "listen", "serving"} =>
       key \in Keys /\ proc.key = key
  /\ proc.pc \in {"newkey", "fillkey"} => key \notin Keys
  /\ proc.pc = "newkey" => key = NoFile

InHand == PasswordInHand \/ TokenInHand

WayInv ==
  /\ hash.password # None /\ hash.token # None =>
       InHand \/ lost \/ proc.pc \in {"file", "fillfile"}
  /\ proc.pc = "rows" => proc.made = {}
  /\ proc.pc = "password" => proc.made = {} /\ hash.password = None
  /\ proc.pc = "token" => /\ hash.token = None /\ hash.password # None
                          /\ proc.made \subseteq {"password"}
                          /\ "password" \in proc.made => hash.password = "generated"
  /\ proc.pc \in {"file", "fillfile"} =>
       /\ hash.password # None /\ hash.token # None
       /\ proc.made # {}
       /\ "password" \in proc.made => hash.password = "generated"
       /\ "token" \in proc.made => hash.token = "generated"
  /\ proc.pc \in {"import", "listen", "serving"} => hash.password # None /\ hash.token # None
  /\ proc.pc \in {"off", "key", "newkey", "fillkey"} => proc.made = {}
  /\ session => Serving

SecretsInv == SecretsType /\ KeyInv /\ WayInv

Pc == Starting \cup {"off", "serving"}

LEMMA InitSecretsInv == InitSecrets => SecretsInv
<1> SUFFICES ASSUME InitSecrets PROVE SecretsInv OBVIOUS
<1>1. Off \in Process BY DEF Off, Process
<1>2. Unwritten \in Hashes BY DEF Unwritten, Hashes, Password, Token
<1>3. SecretsType BY <1>1, <1>2 DEF InitSecrets, SecretsType
<1>4. KeyInv BY DEF InitSecrets, KeyInv, Off
<1>5. WayInv BY DEF InitSecrets, WayInv, Off, Unwritten
<1> QED BY <1>3, <1>4, <1>5 DEF SecretsInv

\* A step of the process.
LEMMA ProcType ==
  ASSUME SecretsType, NEW pc \in Pc, NEW k \in Keys \cup {None}, NEW made \in SUBSET {"password", "token"},
         proc' = [proc EXCEPT !.pc = pc, !.key = k, !.made = made]
  PROVE  proc' \in Process /\ proc'.pc = pc /\ proc'.key = k /\ proc'.made = made
BY DEF SecretsType, Process, Pc

LEMMA GotoFields ==
  ASSUME SecretsType, NEW pc \in Pc, Goto(pc)
  PROVE  proc' \in Process /\ proc'.pc = pc /\ proc'.key = proc.key /\ proc'.made = proc.made
BY DEF Goto, SecretsType, Process, Pc

LEMMA HashFields ==
  ASSUME SecretsType
  PROVE  /\ hash.password \in Password /\ hash.token \in Token
         /\ \A v \in Password : /\ [hash EXCEPT !.password = v] \in Hashes
                                /\ [hash EXCEPT !.password = v].password = v
                                /\ [hash EXCEPT !.password = v].token = hash.token
         /\ \A v \in Token : /\ [hash EXCEPT !.token = v] \in Hashes
                             /\ [hash EXCEPT !.token = v].password = hash.password
                             /\ [hash EXCEPT !.token = v].token = v
BY DEF SecretsType, Hashes

LEMMA EndSecrets ==
  ASSUME SecretsInv, End, UNCHANGED <<key, sealed, hash, creds>>
  PROVE  SecretsInv'
<1>1. Off \in Process /\ Off.pc = "off" /\ Off.made = {} BY DEF Off, Process
<1>2. SecretsType' BY <1>1 DEF End, SecretsInv, SecretsType
<1>3. KeyInv' BY <1>1 DEF End, SecretsInv, KeyInv
<1>4. WayInv'
  <2>1. InHand' = InHand BY DEF InHand, PasswordInHand, TokenInHand
  <2> QED BY <1>1, <2>1 DEF End, SecretsInv, WayInv
<1> QED BY <1>2, <1>3, <1>4 DEF SecretsInv

LEMMA ReadKeyStep ==
  ASSUME SecretsInv, ReadKey
  PROVE  SecretsInv'
<1>1. proc.pc = "key" /\ UNCHANGED <<key, sealed, hash, creds, session, lost>> BY DEF ReadKey
<1>2. proc.made = {} /\ SecretsType BY <1>1 DEF SecretsInv, WayInv
<1>3. CASE key \in Keys
  <2>1. proc' = [proc EXCEPT !.pc = "rows", !.key = key] BY <1>3, KeysType, NoneApart DEF ReadKey, NoFile, Torn
  <2>2. proc' \in Process /\ proc'.pc = "rows" /\ proc'.key = key /\ proc'.made = {}
    BY <1>2, <1>3, <2>1 DEF SecretsType, Process, Starting
  <2> QED BY <1>1, <1>3, <2>2 DEF SecretsInv, SecretsType, KeyInv, WayInv, InHand, PasswordInHand,
                                TokenInHand, Serving
<1>4. CASE key = NoFile
  <2>1. Goto("newkey") BY <1>4, KeysType, NoneApart DEF ReadKey, NoFile, Torn
  <2>2. proc' \in Process /\ proc'.pc = "newkey" /\ proc'.made = {}
    BY <1>2, <2>1, GotoFields DEF Pc, Starting
  <2> QED BY <1>1, <1>4, <2>2, KeysType, NoneApart DEF SecretsInv, SecretsType, KeyInv, WayInv, InHand,
                                         PasswordInHand, TokenInHand, Serving, NoFile
<1>5. CASE key = Torn
  <2>1. proc' = Off BY <1>5, KeysType, NoneApart DEF ReadKey, NoFile, Torn
  <2>2. proc' \in Process /\ proc'.pc = "off" /\ proc'.made = {} BY <2>1 DEF Off, Process
  <2> QED BY <1>1, <2>2 DEF SecretsInv, SecretsType, KeyInv, WayInv, InHand, PasswordInHand, TokenInHand,
                           Serving
<1> QED BY <1>2, <1>3, <1>4, <1>5 DEF SecretsType

LEMMA StartSecrets ==
  ASSUME SecretsInv, StartSteps
  PROVE  SecretsInv'
<1>0. SecretsType BY DEF SecretsInv
<1>1. CASE ReadKey BY <1>1, ReadKeyStep
<1>2. CASE CreateKey
  <2>1. proc' \in Process /\ proc'.pc = "fillkey" /\ proc'.made = proc.made
    BY <1>0, <1>2, GotoFields DEF CreateKey, Pc, Starting
  <2> QED BY <1>2, <2>1, KeysType, NoneApart DEF CreateKey, SecretsInv, SecretsType, KeyInv, WayInv, InHand,
                                    PasswordInHand, TokenInHand, Serving, Torn
<1>3. CASE FillKey
  <2>1. PICK k \in Keys : key' = k /\ proc' = [proc EXCEPT !.pc = "rows", !.key = k] BY <1>3 DEF FillKey
  <2>2. proc' \in Process /\ proc'.pc = "rows" /\ proc'.key = k /\ proc'.made = proc.made
    BY <1>0, <2>1 DEF SecretsType, Process, Starting
  <2> QED BY <1>3, <2>1, <2>2 DEF FillKey, SecretsInv, SecretsType, KeyInv, WayInv, InHand,
                                 PasswordInHand, TokenInHand, Serving
<1>4. CASE ReadRows
  <2>1. PICK pc \in {"password", "token", "import"} :
          /\ Goto(pc)
          /\ pc = "password" => hash.password = None
          /\ pc = "token" => hash.password # None /\ hash.token = None
          /\ pc = "import" => hash.password # None /\ hash.token # None
    BY <1>4 DEF ReadRows
  <2>2. proc' \in Process /\ proc'.pc = pc /\ proc'.key = proc.key /\ proc'.made = proc.made
    BY <1>0, <2>1, GotoFields DEF Pc, Starting
  <2> QED BY <1>4, <2>1, <2>2 DEF ReadRows, SecretsInv, SecretsType, KeyInv, WayInv, InHand,
                                 PasswordInHand, TokenInHand, Serving
<1>5. CASE StorePassword
  <2> DEFINE pc == IF hash.token = None THEN "token" ELSE "file"
  <2>1. proc' \in Process /\ proc'.pc = pc /\ proc'.key = proc.key /\ proc'.made = {"password"}
    <3>1. proc' = [proc EXCEPT !.pc = pc, !.made = {"password"}]
      BY <1>5 DEF StorePassword, SecretsInv, WayInv, SecretsType, Process
    <3> QED BY <1>0, <3>1 DEF SecretsType, Process, Starting
  <2>2. hash' \in Hashes /\ hash'.password = "generated" /\ hash'.token = hash.token
    BY <1>0, <1>5, HashFields DEF StorePassword, Password
  <2>3. KeyInv' BY <1>5, <2>1, <2>2 DEF StorePassword, SecretsInv, KeyInv
  <2>4. WayInv' BY <1>5, <2>1, <2>2, NoneApart DEF StorePassword, SecretsInv, WayInv, Serving
  <2> QED BY <1>5, <2>1, <2>2, <2>3, <2>4 DEF StorePassword, SecretsInv, SecretsType
<1>6. CASE StoreToken
  <2> DEFINE made == proc.made \cup {"token"}
  <2>1. proc' \in Process /\ proc'.pc = "file" /\ proc'.key = proc.key /\ proc'.made = made
    BY <1>0, <1>6 DEF StoreToken, SecretsType, Process, Starting
  <2>2. hash' \in Hashes /\ hash'.password = hash.password /\ hash'.token = "generated"
    BY <1>0, <1>6, HashFields DEF StoreToken, Token
  <2>3. proc.made \subseteq {"password"} /\ hash.password # None
    BY <1>6 DEF StoreToken, SecretsInv, WayInv
  <2>4. "password" \in proc.made => hash.password = "generated"
    BY <1>6 DEF StoreToken, SecretsInv, WayInv
  <2>5. KeyInv' BY <1>6, <2>1, <2>2 DEF StoreToken, SecretsInv, KeyInv
  <2>6. made # {} /\ ("password" \in made => hash.password = "generated") BY <2>4
  <2> HIDE DEF made
  <2>7. WayInv'
    BY <1>6, <2>1, <2>2, <2>3, <2>6, NoneApart DEF StoreToken, SecretsInv, WayInv, Serving
  <2> QED BY <1>6, <2>1, <2>2, <2>5, <2>7 DEF StoreToken, SecretsInv, SecretsType
<1>7. CASE CreateFile
  <2>1. proc' \in Process /\ proc'.pc = "fillfile" /\ proc'.key = proc.key /\ proc'.made = proc.made
    BY <1>0, <1>7, GotoFields DEF CreateFile, Pc, Starting
  <2>2. creds' \in Hashes BY <1>7 DEF CreateFile, Unwritten, Hashes, Password, Token
  <2>3. KeyInv' BY <1>7, <2>1 DEF CreateFile, SecretsInv, KeyInv
  <2>4. WayInv' BY <1>7, <2>1 DEF CreateFile, SecretsInv, WayInv, Serving
  <2> QED BY <1>7, <2>1, <2>2, <2>3, <2>4 DEF CreateFile, SecretsInv, SecretsType
<1>8. CASE FillFile
  <2>1. proc' \in Process /\ proc'.pc = "import" /\ proc'.key = proc.key /\ proc'.made = proc.made
    BY <1>0, <1>8, GotoFields DEF FillFile, Pc, Starting
  <2>2. creds' = [c \in {"password", "token"} |-> IF c \in proc.made THEN "generated" ELSE None]
    BY <1>8 DEF FillFile
  <2>3. creds' \in Hashes BY <2>2 DEF Hashes, Password, Token
  <2>4. /\ creds'.password = IF "password" \in proc.made THEN "generated" ELSE None
        /\ creds'.token = IF "token" \in proc.made THEN "generated" ELSE None
    BY <2>2
  <2>5. proc.made \subseteq {"password", "token"} BY <1>0 DEF SecretsType, Process
  <2>6. InHand'
    BY <1>8, <2>4, <2>5 DEF FillFile, SecretsInv, WayInv, InHand, PasswordInHand, TokenInHand
  <2>7. KeyInv' BY <1>8, <2>1 DEF FillFile, SecretsInv, KeyInv
  <2>8. WayInv' BY <1>8, <2>1, <2>6 DEF FillFile, SecretsInv, WayInv, Serving
  <2> QED BY <1>8, <2>1, <2>3, <2>7, <2>8 DEF FillFile, SecretsInv, SecretsType
<1> QED BY <1>1, <1>2, <1>3, <1>4, <1>5, <1>6, <1>7, <1>8 DEF StartSteps

LEMMA UserSecrets ==
  ASSUME SecretsInv, UserSteps
  PROVE  SecretsInv'
<1>0. SecretsType BY DEF SecretsInv
<1>1. CASE SaveProvider
  <2>1. proc.key = key /\ key \in Keys BY <1>1 DEF SaveProvider, Serving, SecretsInv, KeyInv
  <2> QED BY <1>1, <2>1 DEF SaveProvider, SecretsInv, SecretsType, KeyInv, WayInv, InHand, PasswordInHand,
                           TokenInHand, Serving
<1>2. CASE Login \/ SessionEnds
  BY <1>2 DEF Login, SessionEnds, SecretsInv, SecretsType, KeyInv, WayInv, InHand, PasswordInHand,
              TokenInHand, Serving
<1>3. CASE UpdatePassword
  <2>1. hash' \in Hashes /\ hash'.password = "chosen" /\ hash'.token = hash.token
    BY <1>0, <1>3, HashFields DEF UpdatePassword, Password
  <2>2. Serving BY <1>3 DEF UpdatePassword, Authenticated
  <2>3. InHand' BY <2>1 DEF InHand, PasswordInHand
  <2>4. KeyInv' BY <1>3 DEF UpdatePassword, SecretsInv, KeyInv
  <2>5. WayInv' BY <1>3, <2>1, <2>2, <2>3, NoneApart DEF UpdatePassword, SecretsInv, WayInv, Serving
  <2> QED BY <1>3, <2>1, <2>4, <2>5 DEF UpdatePassword, SecretsInv, SecretsType
<1>4. CASE RotateAPIToken
  <2>1. PICK token \in {"shown", "unseen"} :
          /\ hash' = [hash EXCEPT !.token = token]
          /\ lost' = (lost \/ (token = "unseen" /\ ~PasswordInHand))
    BY <1>4 DEF RotateAPIToken
  <2>2. hash' \in Hashes /\ hash'.token = token /\ hash'.password = hash.password
    BY <1>0, <2>1, HashFields DEF Token
  <2>3. Serving BY <1>4 DEF RotateAPIToken, Authenticated
  <2>4. (InHand \/ lost)'
    BY <1>4, <2>1, <2>2 DEF RotateAPIToken, InHand, PasswordInHand, TokenInHand
  <2>5. KeyInv' BY <1>4 DEF RotateAPIToken, SecretsInv, KeyInv
  <2>6. WayInv' BY <1>4, <2>2, <2>3, <2>4, NoneApart DEF RotateAPIToken, SecretsInv, WayInv, Serving
  <2>7. lost' \in BOOLEAN BY <1>0, <2>1 DEF SecretsType
  <2> QED BY <1>4, <2>2, <2>5, <2>6, <2>7 DEF RotateAPIToken, SecretsInv, SecretsType
<1> QED BY <1>1, <1>2, <1>3, <1>4 DEF UserSteps

\* The import seals with the key of the process, which is the one in the file.
LEMMA ImportSecrets ==
  ASSUME SecretsInv, Import
  PROVE  SecretsInv'
<1>0. SecretsType /\ proc.pc = "import" /\ UNCHANGED <<key, hash, creds, session, lost>>
  BY DEF Import, SecretsInv
<1>1. proc.key = key /\ key \in Keys BY <1>0 DEF SecretsInv, KeyInv
<1>2. sealed' \subseteq {key} BY <1>1 DEF Import, SecretsInv, KeyInv
<1>3. ~session /\ InHand' = InHand
  BY <1>0 DEF SecretsInv, WayInv, Serving, InHand, PasswordInHand, TokenInHand
<1>4. CASE proc' = Off
  <2>1. proc' \in Process /\ proc'.pc = "off" /\ proc'.made = {} BY <1>4 DEF Off, Process
  <2> QED BY <1>0, <1>1, <1>2, <1>3, <2>1 DEF SecretsInv, SecretsType, KeyInv, WayInv
<1>5. CASE Goto("listen")
  <2>1. proc' \in Process /\ proc'.pc = "listen" /\ proc'.key = proc.key /\ proc'.made = proc.made
    BY <1>0, <1>5, GotoFields DEF Pc, Starting
  <2> QED BY <1>0, <1>1, <1>2, <1>3, <2>1 DEF SecretsInv, SecretsType, KeyInv, WayInv
<1> QED BY <1>4, <1>5 DEF Import

LEMMA SecretsKept ==
  ASSUME SecretsInv, [Next]_vars
  PROVE  SecretsInv'
<1>0. SecretsType BY DEF SecretsInv
<1>1. CASE UNCHANGED secrets
  BY <1>1 DEF secrets, SecretsInv, SecretsType, KeyInv, WayInv, InHand, PasswordInHand, TokenInHand, Serving
<1>2. CASE StartSteps BY <1>2, StartSecrets
<1>3. CASE UserSteps BY <1>3, UserSecrets
<1>4. CASE End /\ UNCHANGED <<key, sealed, hash, creds>> BY <1>4, EndSecrets
<1>5. CASE (proc.pc = "off" /\ proc' = Started) /\ UNCHANGED <<key, sealed, hash, creds, session, lost>>
  <2>1. proc' \in Process /\ proc'.pc = "key" /\ proc'.made = {}
    BY <1>5 DEF Started, Off, Process, Starting
  <2> QED BY <1>5, <2>1 DEF SecretsInv, SecretsType, KeyInv, WayInv, InHand, PasswordInHand, TokenInHand,
                           Serving
<1>6. CASE (proc.pc = "listen" /\ Goto("serving")) /\ UNCHANGED <<key, sealed, hash, creds, session, lost>>
  <2>1. proc' \in Process /\ proc'.pc = "serving" /\ proc'.key = proc.key /\ proc'.made = proc.made
    BY <1>0, <1>6, GotoFields DEF Pc
  <2> QED BY <1>6, <2>1 DEF SecretsInv, SecretsType, KeyInv, WayInv, InHand, PasswordInHand, TokenInHand,
                           Serving
<1>7. CASE Import BY <1>7, ImportSecrets
<1> QED BY <1>1, <1>2, <1>3, <1>4, <1>5, <1>6, <1>7, SecretsStep DEF SecretsNext

\* Whatever starts are cut short or fail, and whatever users and the host do,
\* every secret in the database can be unsealed with the key in the file
\* (secrets.go:17-43).
THEOREM KeyKept == Spec => []SecretsReadable
<1>1. Init => SecretsInv BY InitSecretsInv DEF Init
<1>2. SecretsInv /\ [Next]_vars => SecretsInv' BY SecretsKept
<1>3. SecretsInv => SecretsReadable BY DEF SecretsInv, KeyInv, SecretsReadable
<1> QED BY <1>1, <1>2, <1>3, PTL DEF Spec

\* Who can read the file of the first credentials has a way into the program that
\* serves, but for the cases WayIn names (store.go:473-533).
THEOREM WayInKept == Spec => []WayIn
<1>1. Init => SecretsInv BY InitSecretsInv DEF Init
<1>2. SecretsInv /\ [Next]_vars => SecretsInv' BY SecretsKept
<1>3. SecretsInv => WayIn BY DEF SecretsInv, WayInv, WayIn, Serving, InHand
<1> QED BY <1>1, <1>2, <1>3, PTL DEF Spec
-----------------------------------------------------------------------------
(* The host: what each change and each update has reached. *)

On == proc.pc # "off"

Changing == {"idle", "save", "read", "create", "fill", "reload", "restart"}
Updating == {"idle", "checkout", "build", "create", "fill", "reload", "restart"}

\* Only a change of the TLS settings has no address, and it writes none.
TaskInv(t) ==
  /\ t \in Handlers => task[t].pc \in Changing
  /\ t \in Jobs => task[t].pc \in Updating
  /\ task[t].pc = "idle" => task[t].to = None
  /\ task[t].pc # "idle" /\ task[t].to = None => t \in Handlers /\ task[t].pc \in {"reload", "restart"}

HostType ==
  /\ users \in Interests /\ refused \in BOOLEAN
  /\ row \in Addrs \cup {None}
  /\ unit \in Addrs \cup {Torn} /\ loaded \in Addrs \cup {Torn} /\ addr \in Addrs
  /\ remote \in Versions /\ repo \in Versions /\ binary \in Versions /\ running \in Versions
  /\ task \in [Tasks -> Task]
  /\ mixed \in BOOLEAN /\ stale \in BOOLEAN
  /\ \A t \in Tasks : TaskInv(t)

Busy(t) == task[t].pc # "idle"

\* All that has to do with the address says a.
Agree(a) ==
  /\ a \in Addrs
  /\ loaded = a
  /\ row \in {None, a}
  /\ On => addr = a

\* What a change of the address, a change of TLS and an update have done so far.
ChangeStage(pc, a) ==
  /\ pc # "save" => row = a
  /\ pc \in {"reload", "restart"} => unit = a
  /\ pc = "restart" => loaded = a

UpdateStage(pc, a) ==
  /\ Agree(a)
  /\ pc # "fill" => unit = a

Stage(t) ==
  IF t \in Handlers /\ task[t].to # None
  THEN ChangeStage(task[t].pc, task[t].to)
  ELSE UpdateStage(task[t].pc, IF t \in Handlers THEN unit ELSE task[t].to)

AddressInv ==
  ~mixed =>
    /\ \A t, s \in Tasks : Busy(t) /\ Busy(s) => t = s
    /\ (\A t \in Tasks : ~Busy(t)) => Agree(unit)
    /\ \A t \in Tasks : Busy(t) => Stage(t)

VersionInv ==
  ~stale =>
    /\ binary = repo \/ \E j \in Jobs : task[j].pc \in {"checkout", "build"}
    /\ running = binary \/ ~On \/ \E j \in Jobs : Busy(j)

HostInv == SecretsType /\ HostType /\ AddressInv /\ VersionInv

\* Task t is at pc with the address to, and the others are where they were.
Moved(t, pc, to) ==
  /\ task' \in [Tasks -> Task]
  /\ task'[t].pc = pc /\ task'[t].to = to
  /\ \A s \in Tasks : s # t => task'[s] = task[s]

LEMMA IdleFields == Idle \in Task /\ Idle.pc = "idle" /\ Idle.to = None
BY DEF Idle, Task, Pcs

LEMMA SetMoves ==
  ASSUME HostType, NEW t \in Tasks, NEW x \in Task, task' = [task EXCEPT ![t] = x]
  PROVE  Moved(t, x.pc, x.to)
BY DEF HostType, Moved

LEMMA ToMoves ==
  ASSUME HostType, NEW t \in Tasks, NEW pc \in Pcs, To(t, pc)
  PROVE  Moved(t, pc, task[t].to)
<1> DEFINE x == [task[t] EXCEPT !.pc = pc]
<1>1. task[t] \in Task BY DEF HostType
<1>2. x \in Task /\ x.pc = pc /\ x.to = task[t].to BY <1>1 DEF Task
<1>3. task' = [task EXCEPT ![t] = x] BY DEF To
<1> HIDE DEF x
<1> QED BY <1>2, <1>3, SetMoves

\* A busy task is not idle.
LEMMA BusyTask ==
  ASSUME HostType, NEW t \in Tasks
  PROVE  Busy(t) <=> task[t] # Idle
<1>1. task[t] \in Task /\ TaskInv(t) BY DEF HostType
<1>2. ASSUME task[t].pc = "idle" PROVE task[t] = Idle BY <1>1, <1>2 DEF Task, Idle, TaskInv
<1> QED BY <1>2, IdleFields DEF Busy

\* Handlers end with the process, and so does t.
LEMMA RequestsEnd ==
  ASSUME HostType, NEW t \in Tasks, task' = [EndRequests EXCEPT ![t] = Idle]
  PROVE  /\ task' \in [Tasks -> Task]
         /\ \A s \in Tasks : task'[s] = IF s = t \/ s \in Handlers THEN Idle ELSE task[s]
BY IdleFields DEF HostType, EndRequests

LEMMA AllRequestsEnd ==
  ASSUME HostType, task' = EndRequests
  PROVE  /\ task' \in [Tasks -> Task]
         /\ \A s \in Tasks : task'[s] = IF s \in Handlers THEN Idle ELSE task[s]
BY IdleFields DEF HostType, EndRequests

LEMMA InitHost == Init => HostInv
<1> SUFFICES ASSUME Init PROVE HostInv OBVIOUS
<1>1. \A t \in Tasks : task[t] = Idle BY DEF Init
<1>2. \A t \in Tasks : TaskInv(t) BY <1>1, IdleFields DEF TaskInv, Changing, Updating
<1>3. 1 \in Versions BY VersionsType DEF Versions
<1>4. HostType BY <1>1, <1>2, <1>3, AddrsType, IdleFields DEF Init, HostType
<1>5. ~On BY DEF Init, InitSecrets, Off, On
<1>6. AddressInv BY <1>1, <1>5, IdleFields, AddrsType DEF Init, AddressInv, Busy, Agree
<1>7. VersionInv BY <1>1 DEF Init, VersionInv
<1> QED BY <1>4, <1>6, <1>7, InitSecretsInv DEF HostInv, Init, SecretsInv

\* A step that leaves the host alone and starts no process.
LEMMA HostLeft ==
  ASSUME HostInv, UNCHANGED hvars, On' => On
  PROVE  HostType' /\ AddressInv' /\ VersionInv'
<1>1. /\ UNCHANGED <<users, refused, row, unit, loaded, addr, remote, repo, binary, running, task, mixed, stale>>
  BY DEF hvars, where, versions
<1>2. HostType'
  <2>1. \A t \in Tasks : TaskInv(t)' BY <1>1 DEF HostInv, HostType, TaskInv
  <2> QED BY <1>1, <2>1 DEF HostInv, HostType
<1>3. AddressInv'
  <2>1. \A a : Agree(a) => Agree(a)' BY <1>1 DEF Agree
  <2>2. \A t \in Tasks : Stage(t) => Stage(t)'
    BY <1>1, <2>1 DEF Stage, ChangeStage, UpdateStage
  <2>3. \A t \in Tasks : Busy(t)' <=> Busy(t) BY <1>1 DEF Busy
  <2> QED BY <1>1, <2>1, <2>2, <2>3 DEF HostInv, AddressInv
<1>4. VersionInv' BY <1>1 DEF HostInv, VersionInv, Busy
<1> QED BY <1>2, <1>3, <1>4

\* What starts and ends the process.
LEMMA Processes ==
  ASSUME HostInv, StartSteps \/ UserSteps \/ Import \/ Listen
  PROVE  On' => On
<1>1. CASE StartSteps
  BY <1>1 DEF StartSteps, ReadKey, CreateKey, FillKey, ReadRows, StorePassword, StoreToken, CreateFile,
              FillFile, On
<1>2. CASE UserSteps
  BY <1>2 DEF UserSteps, SaveProvider, Login, SessionEnds, UpdatePassword, RotateAPIToken, On
<1>3. CASE Import \/ Listen BY <1>3 DEF Import, Listen, On
<1> QED BY <1>1, <1>2, <1>3

LEMMA ExecHost ==
  ASSUME HostInv, Exec
  PROVE  HostType' /\ AddressInv' /\ VersionInv'
<1>1. /\ UNCHANGED <<users, refused, row, unit, loaded, remote, repo, binary, task, mixed, stale>>
      /\ addr' = loaded /\ loaded \in Addrs /\ running' = binary
  BY DEF Exec, HostInv, HostType
<1>2. HostType'
  <2>1. \A t \in Tasks : TaskInv(t)' BY <1>1 DEF HostInv, HostType, TaskInv
  <2> QED BY <1>1, <2>1 DEF HostInv, HostType
<1>3. AddressInv'
  <2>1. \A a : Agree(a) => Agree(a)' BY <1>1 DEF Agree
  <2>2. \A t \in Tasks : Stage(t) => Stage(t)'
    BY <1>1, <2>1 DEF Stage, ChangeStage, UpdateStage
  <2>3. \A t \in Tasks : Busy(t)' <=> Busy(t) BY <1>1 DEF Busy
  <2> QED BY <1>1, <2>1, <2>2, <2>3 DEF HostInv, AddressInv
<1>4. VersionInv' BY <1>1 DEF HostInv, VersionInv, Busy
<1> QED BY <1>2, <1>3, <1>4

\* A step of one task: what the others have reached does not count, for while
\* nothing is mixed there are none.
LEMMA OneTask ==
  ASSUME HostInv, NEW t \in Tasks, NEW pc \in Pcs, NEW to, Moved(t, pc, to), Busy(t) \/ AtRest, mixed' = mixed,
         ~mixed => IF pc = "idle" THEN Agree(unit)' ELSE Stage(t)'
  PROVE  AddressInv'
<1> SUFFICES ASSUME ~mixed PROVE AddressInv' BY DEF AddressInv
<1>1. \A s \in Tasks : s # t => ~Busy(s)'
  <2>1. \A s \in Tasks : s # t => ~Busy(s)
    BY IdleFields DEF HostInv, AddressInv, AtRest, Busy
  <2> QED BY <2>1 DEF Moved, Busy
<1>2. Busy(t)' <=> pc # "idle" BY DEF Moved, Busy
<1> QED BY <1>1, <1>2 DEF AddressInv

LEMMA StageOf ==
  ASSUME HostInv, NEW t \in Tasks, Busy(t), ~mixed
  PROVE  Stage(t)
BY DEF HostInv, AddressInv

\* The type invariant, and what has been built, of such a step.
LEMMA OneTaskType ==
  ASSUME HostInv, NEW t \in Tasks, NEW pc \in Pcs, NEW to, Moved(t, pc, to), TaskInv(t)'
  PROVE  task' \in [Tasks -> Task] /\ \A s \in Tasks : TaskInv(s)'
<1>1. \A s \in Tasks : s # t => TaskInv(s)' BY DEF Moved, HostInv, HostType, TaskInv
<1> QED BY <1>1 DEF Moved

LEMMA OneTaskVersion ==
  ASSUME HostInv, NEW t \in Tasks, NEW pc \in Pcs \ {"idle", "checkout", "build"}, NEW to, Moved(t, pc, to),
         Busy(t), task[t].pc \notin {"checkout", "build"}, UNCHANGED <<stale, versions>>, On' => On
  PROVE  VersionInv'
<1> SUFFICES ASSUME ~stale PROVE VersionInv' BY DEF VersionInv
<1>1. \A s \in Tasks : (task'[s].pc \in {"checkout", "build"}) <=> task[s].pc \in {"checkout", "build"}
  BY DEF Moved
<1>2. \A s \in Tasks : Busy(s) => Busy(s)' BY DEF Moved, Busy
<1> QED BY <1>1, <1>2 DEF HostInv, VersionInv, versions, Tasks

LEMMA TaskTyped ==
  ASSUME HostInv, NEW t \in Tasks
  PROVE  task[t] \in Task /\ task[t].to \in Addrs \cup {None} /\ TaskInv(t)
BY DEF HostInv, HostType, Task

LEMMA SaveHost ==
  ASSUME HostInv, NEW t \in Tasks, SaveAddress(t)
  PROVE  HostType' /\ AddressInv' /\ VersionInv'
<1>1. Moved(t, "read", task[t].to) BY ToMoves DEF SaveAddress, HostInv, Pcs
<1>2. /\ task[t].pc = "save" /\ row' = task[t].to
      /\ UNCHANGED <<proc, users, refused, unit, loaded, addr, remote, repo, binary, running, mixed, stale>>
  BY DEF SaveAddress, versions, secrets
<1>3. t \in Handlers /\ t \notin Jobs /\ task[t].to \in Addrs
  BY <1>2, TaskTyped DEF TaskInv, Updating, Tasks
<1>4. TaskInv(t)' BY <1>1, <1>3, AddrsType DEF Moved, TaskInv, Changing
<1>5. HostType' BY <1>1, <1>2, <1>3, <1>4, OneTaskType DEF HostInv, HostType, Pcs
<1>6. Stage(t)' BY <1>1, <1>2, <1>3, AddrsType DEF Moved, Stage, ChangeStage
<1>7. AddressInv' BY <1>1, <1>2, <1>6, OneTask DEF Pcs, Busy
<1>8. VersionInv' BY <1>1, <1>2, OneTaskVersion DEF Pcs, Busy, versions, On
<1> QED BY <1>5, <1>7, <1>8

LEMMA ReadHost ==
  ASSUME HostInv, NEW t \in Tasks, ReadUnit(t)
  PROVE  HostType' /\ AddressInv' /\ VersionInv'
<1>1. /\ task[t].pc = "read"
      /\ UNCHANGED <<proc, users, refused, row, unit, loaded, addr, remote, repo, binary, running, stale>>
  BY DEF ReadUnit, versions, where, secrets
<1>2. t \in Handlers /\ t \notin Jobs /\ task[t].to \in Addrs
  BY <1>1, TaskTyped DEF TaskInv, Updating, Tasks
<1>3. CASE unit # Torn
  <2>1. Moved(t, "create", task[t].to) /\ mixed' = mixed
    BY <1>3, ToMoves DEF ReadUnit, HostInv, Pcs
  <2>2. TaskInv(t)' BY <2>1, <1>2, AddrsType DEF Moved, TaskInv, Changing
  <2>3. HostType' BY <1>1, <2>1, <2>2, OneTaskType DEF HostInv, HostType, Pcs
  <2>4. ~mixed => Stage(t)'
    <3>1. ~mixed => Stage(t) BY <1>1, StageOf DEF Busy
    <3> QED BY <1>1, <1>2, <2>1, <3>1, AddrsType DEF Moved, Stage, ChangeStage
  <2>5. AddressInv' BY <1>1, <2>1, <2>4, OneTask DEF Pcs, Busy
  <2>6. VersionInv' BY <1>1, <2>1, OneTaskVersion DEF Pcs, Busy, versions, On
  <2> QED BY <2>3, <2>5, <2>6
<1>4. CASE unit = Torn
  <2>1. task' = [task EXCEPT ![t] = Idle] /\ mixed' = TRUE BY <1>4 DEF ReadUnit
  <2>2. Moved(t, "idle", None) BY <2>1, SetMoves, IdleFields DEF HostInv
  <2>3. TaskInv(t)' BY <1>2, <2>2 DEF Moved, TaskInv, Changing
  <2>4. HostType' BY <1>1, <2>1, <2>2, <2>3, OneTaskType DEF HostInv, HostType, Pcs
  <2>5. AddressInv' BY <2>1 DEF AddressInv
  <2>6. VersionInv'
    <3>1. \A j \in Jobs : task'[j] = task[j] BY <1>2, <2>2 DEF Moved, Tasks
    <3> QED BY <1>1, <3>1 DEF HostInv, VersionInv, On, Busy
  <2> QED BY <2>4, <2>5, <2>6
<1> QED BY <1>3, <1>4

LEMMA CheckoutHost ==
  ASSUME HostInv, NEW t \in Tasks, Checkout(t)
  PROVE  HostType' /\ AddressInv' /\ VersionInv'
<1>1. Moved(t, "build", task[t].to) BY ToMoves DEF Checkout, HostInv, Pcs
<1>2. /\ task[t].pc = "checkout" /\ repo' = remote
      /\ UNCHANGED <<proc, users, refused, row, unit, loaded, addr, remote, binary, running, mixed, stale>>
  BY DEF Checkout, where, secrets
<1>3. t \in Jobs /\ t \notin Handlers /\ task[t].to \in Addrs
  BY <1>2, TaskTyped DEF TaskInv, Changing, Tasks
<1>4. TaskInv(t)' BY <1>1, <1>3, AddrsType DEF Moved, TaskInv, Updating
<1>5. HostType' BY <1>1, <1>2, <1>4, OneTaskType DEF HostInv, HostType, Pcs
<1>6. ~mixed => Stage(t)'
  <2>1. ~mixed => Stage(t) BY <1>2, StageOf DEF Busy
  <2> QED BY <1>1, <1>2, <1>3, <2>1 DEF Moved, Stage, UpdateStage, Agree, On
<1>7. AddressInv' BY <1>1, <1>2, <1>6, OneTask DEF Pcs, Busy
<1>8. VersionInv'
  <2>1. task'[t].pc = "build" /\ Busy(t)' BY <1>1 DEF Moved, Busy
  <2> QED BY <1>2, <1>3, <2>1 DEF VersionInv
<1> QED BY <1>5, <1>7, <1>8

LEMMA BuildHost ==
  ASSUME HostInv, NEW t \in Tasks, Build(t)
  PROVE  HostType' /\ AddressInv' /\ VersionInv'
<1>1. Moved(t, "create", task[t].to) BY ToMoves DEF Build, HostInv, Pcs
<1>2. /\ task[t].pc = "build" /\ binary' = repo
      /\ UNCHANGED <<proc, users, refused, row, unit, loaded, addr, remote, repo, running, mixed, stale>>
  BY DEF Build, where, secrets
<1>3. t \in Jobs /\ t \notin Handlers /\ task[t].to \in Addrs
  BY <1>2, TaskTyped DEF TaskInv, Changing, Tasks
<1>4. TaskInv(t)' BY <1>1, <1>3, AddrsType DEF Moved, TaskInv, Updating
<1>5. HostType' BY <1>1, <1>2, <1>4, OneTaskType DEF HostInv, HostType, Pcs
<1>6. ~mixed => Stage(t)'
  <2>1. ~mixed => Stage(t) BY <1>2, StageOf DEF Busy
  <2> QED BY <1>1, <1>2, <1>3, <2>1 DEF Moved, Stage, UpdateStage, Agree, On
<1>7. AddressInv' BY <1>1, <1>2, <1>6, OneTask DEF Pcs, Busy
<1>8. VersionInv' BY <1>1, <1>2, <1>3 DEF Moved, VersionInv, Busy
<1> QED BY <1>5, <1>7, <1>8

LEMMA CreateHost ==
  ASSUME HostInv, NEW t \in Tasks, CreateUnit(t)
  PROVE  HostType' /\ AddressInv' /\ VersionInv'
<1>1. Moved(t, "fill", task[t].to) BY ToMoves DEF CreateUnit, HostInv, Pcs
<1>2. /\ task[t].pc = "create" /\ unit' = Torn
      /\ UNCHANGED <<proc, users, refused, row, loaded, addr, remote, repo, binary, running, mixed, stale>>
  BY DEF CreateUnit, versions, secrets
<1>3. task[t].to \in Addrs BY <1>2, TaskTyped DEF TaskInv, Changing
<1>4. TaskInv(t)' BY <1>1, <1>3, AddrsType DEF Moved, TaskInv, Updating, Changing
<1>5. HostType' BY <1>1, <1>2, <1>4, OneTaskType DEF HostInv, HostType, Pcs
<1>6. ~mixed => Stage(t)'
  <2>1. ~mixed => Stage(t) BY <1>2, StageOf DEF Busy
  <2> QED BY <1>1, <1>2, <1>3, <2>1, AddrsType DEF Moved, Stage, ChangeStage, UpdateStage, Agree, On, Tasks
<1>7. AddressInv' BY <1>1, <1>2, <1>6, OneTask DEF Pcs, Busy
<1>8. VersionInv' BY <1>1, <1>2, OneTaskVersion DEF Pcs, Busy, versions, On
<1> QED BY <1>5, <1>7, <1>8

LEMMA FillHost ==
  ASSUME HostInv, NEW t \in Tasks, FillUnit(t)
  PROVE  HostType' /\ AddressInv' /\ VersionInv'
<1>1. Moved(t, "reload", task[t].to) BY ToMoves DEF FillUnit, HostInv, Pcs
<1>2. /\ task[t].pc = "fill" /\ unit' = task[t].to
      /\ UNCHANGED <<proc, users, refused, row, loaded, addr, remote, repo, binary, running, mixed, stale>>
  BY DEF FillUnit, versions, secrets
<1>3. task[t].to \in Addrs BY <1>2, TaskTyped DEF TaskInv, Changing
<1>4. TaskInv(t)' BY <1>1, <1>3, AddrsType DEF Moved, TaskInv, Updating, Changing
<1>5. HostType' BY <1>1, <1>2, <1>3, <1>4, OneTaskType DEF HostInv, HostType, Pcs
<1>6. ~mixed => Stage(t)'
  <2>1. ~mixed => Stage(t) BY <1>2, StageOf DEF Busy
  <2> QED BY <1>1, <1>2, <1>3, <2>1, AddrsType DEF Moved, Stage, ChangeStage, UpdateStage, Agree, On, Tasks
<1>7. AddressInv' BY <1>1, <1>2, <1>6, OneTask DEF Pcs, Busy
<1>8. VersionInv' BY <1>1, <1>2, OneTaskVersion DEF Pcs, Busy, versions, On
<1> QED BY <1>5, <1>7, <1>8

LEMMA ReloadHost ==
  ASSUME HostInv, NEW t \in Tasks, Reload(t)
  PROVE  HostType' /\ AddressInv' /\ VersionInv'
<1>1. Moved(t, "restart", task[t].to) BY ToMoves DEF Reload, HostInv, Pcs
<1>2. /\ task[t].pc = "reload" /\ loaded' = unit
      /\ UNCHANGED <<proc, users, refused, row, unit, addr, remote, repo, binary, running, mixed, stale>>
  BY DEF Reload, versions, secrets
<1>3. TaskInv(t)' BY <1>1, <1>2, TaskTyped DEF Moved, TaskInv, Updating, Changing
<1>4. HostType' BY <1>1, <1>2, <1>3, OneTaskType DEF HostInv, HostType, Pcs
<1>5. ~mixed => Stage(t)'
  <2>1. ~mixed => Stage(t) BY <1>2, StageOf DEF Busy
  <2> QED BY <1>1, <1>2, <2>1 DEF Moved, Stage, ChangeStage, UpdateStage, Agree, On
<1>6. AddressInv' BY <1>1, <1>2, <1>5, OneTask DEF Pcs, Busy
<1>7. VersionInv' BY <1>1, <1>2, OneTaskVersion DEF Pcs, Busy, versions, On
<1> QED BY <1>4, <1>6, <1>7

LEMMA RestartHost ==
  ASSUME HostInv, NEW t \in Tasks, Restart(t)
  PROVE  HostType' /\ AddressInv' /\ VersionInv'
<1>1. /\ task' \in [Tasks -> Task]
      /\ \A s \in Tasks : task'[s] = IF s = t \/ s \in Handlers THEN Idle ELSE task[s]
  BY RequestsEnd DEF Restart, HostInv
<1>0. Off.pc = "off" BY DEF Off
<1>2. /\ task[t].pc = "restart" /\ ~On'
      /\ UNCHANGED <<users, refused, row, unit, loaded, addr, remote, repo, binary, running, mixed, stale>>
  BY <1>0 DEF Restart, End, On, where, versions
<1>3. \A s \in Tasks : TaskInv(s)'
  BY <1>1, IdleFields DEF HostInv, HostType, TaskInv, Changing, Updating
<1>4. HostType' BY <1>1, <1>2, <1>3 DEF HostInv, HostType
<1>5. AddressInv'
  <2> SUFFICES ASSUME ~mixed PROVE AddressInv' BY <1>2 DEF AddressInv
  <2>1. \A s \in Tasks : ~Busy(s)' BY <1>1, <1>2, IdleFields DEF HostInv, AddressInv, Busy
  <2>2. Stage(t) BY <1>2, StageOf DEF Busy
  <2>3. task[t].to # None => task[t].to \in Addrs BY TaskTyped
  <2>4. task[t].to = None => t \in Handlers BY <1>2, TaskTyped DEF TaskInv
  <2>5. Agree(unit)'
    BY <1>2, <2>2, <2>3, <2>4 DEF Stage, ChangeStage, UpdateStage, Agree
  <2> QED BY <2>1, <2>5 DEF AddressInv
<1>6. VersionInv'
  <2>1. \A j \in Jobs : task[j].pc \in {"checkout", "build"} => task'[j] = task[j]
    BY <1>1, <1>2, TasksApart DEF Tasks
  <2> QED BY <1>2, <2>1 DEF HostInv, VersionInv
<1> QED BY <1>4, <1>5, <1>6

\* Only what was mixed before comes to a unit that systemd refuses.
LEMMA RefusedHost ==
  ASSUME HostInv, NEW t \in Tasks, RestartRefused(t)
  PROVE  HostType' /\ AddressInv' /\ VersionInv'
<1>1. /\ UNCHANGED <<proc, users, refused, row, unit, loaded, addr, remote, repo, binary, running>>
      /\ mixed' = TRUE /\ stale' = (stale \/ t \in Jobs)
      /\ task[t].pc = "restart" /\ task' = [task EXCEPT ![t] = Idle]
  BY DEF RestartRefused, where, versions, secrets
<1>2. Moved(t, "idle", None) BY <1>1, SetMoves, IdleFields DEF HostInv
<1>3. TaskInv(t)' BY <1>2 DEF Moved, TaskInv, Changing, Updating
<1>4. stale' \in BOOLEAN BY <1>1 DEF HostInv, HostType
<1>5. HostType' BY <1>1, <1>2, <1>3, <1>4, OneTaskType DEF HostInv, HostType, Pcs
<1>6. AddressInv' BY <1>1 DEF AddressInv
<1>7. VersionInv'
  <2>1. t \notin Jobs => \A j \in Jobs : task'[j] = task[j] BY <1>2 DEF Moved, Tasks
  <2> QED BY <1>1, <2>1 DEF HostInv, VersionInv, On, Busy
<1> QED BY <1>5, <1>6, <1>7

\* Tasks that begin, fail or end together with the process.
LEMMA BeginHost ==
  ASSUME HostInv, NEW t \in Tasks, NEW first \in Task, Begin(t, first),
         t \in Handlers => first.pc \in {"save", "reload"} /\ (first.pc = "reload" => first.to = None),
         t \in Jobs => first.pc = "checkout",
         first.pc # "reload" => first.to # None,
         first.pc = "checkout" => first.to = addr
  PROVE  HostType' /\ AddressInv' /\ VersionInv'
<1>1. Moved(t, first.pc, first.to) /\ ~Busy(t) BY SetMoves, BusyTask DEF Begin, HostInv
<1>2. /\ UNCHANGED <<proc, users, refused, row, unit, loaded, addr, remote, repo, binary, running>>
      /\ On
      /\ mixed' = (~AtRest \/ (first.pc # "save" /\ mixed))
      /\ stale' = (stale /\ ~(first.pc = "checkout" /\ NoJobs))
  BY DEF Begin, Authenticated, Serving, On, where, versions, secrets
<1>3. first.pc \in {"save", "reload", "checkout"} /\ (first.pc = "reload" <=> first.to = None)
  BY TasksApart, AddrsType DEF Tasks, HostInv, HostType
<1>4. first.pc = "checkout" => t \notin Handlers BY DEF Tasks
<1>5. TaskInv(t)' BY <1>1, <1>3, <1>4 DEF Moved, TaskInv, Changing, Updating, Tasks
<1>6. HostType'
  <2>1. first.pc \in Pcs BY <1>3 DEF Pcs
  <2>2. mixed' \in BOOLEAN /\ stale' \in BOOLEAN BY <1>2
  <2> QED BY <1>1, <1>2, <1>5, <2>1, <2>2, OneTaskType DEF HostInv, HostType
<1>7. AddressInv'
  <2> SUFFICES ASSUME ~mixed' PROVE AddressInv' BY DEF AddressInv
  <2>1. AtRest /\ (first.pc # "save" => ~mixed) BY <1>2
  <2>2. \A s \in Tasks : ~Busy(s) BY <2>1, IdleFields DEF AtRest, Busy
  <2>3. \A s \in Tasks : s # t => ~Busy(s)' BY <1>1, <2>2 DEF Moved, Busy
  <2>4. first.pc # "save" => Agree(unit) BY <2>1, <2>2 DEF HostInv, AddressInv
  <2>5. first.pc # "save" => Agree(unit)' BY <1>2, <2>4 DEF Agree, On
  <2>6. first.pc = "checkout" => first.to = unit BY <1>2, <2>4 DEF Agree
  <2>7. first.pc = "save" => t \in Handlers /\ first.to # None BY <1>3 DEF Tasks
  <2>8. Stage(t)'
    <3>1. CASE first.pc = "save"
      BY <1>1, <2>7, <3>1 DEF Moved, Stage, ChangeStage
    <3>2. CASE first.pc = "reload"
      <4>1. t \in Handlers /\ task'[t].to = None BY <1>1, <1>3, <3>2 DEF Moved, Tasks
      <4> QED BY <2>5, <3>2, <4>1 DEF Stage, UpdateStage, Agree
    <3>3. CASE first.pc = "checkout"
      <4>1. t \notin Handlers /\ task'[t].to = unit /\ unit' = unit
        BY <1>1, <1>2, <1>4, <2>6, <3>3 DEF Moved
      <4> QED BY <2>5, <3>3, <4>1 DEF Stage, UpdateStage
    <3> QED BY <1>3, <3>1, <3>2, <3>3
  <2>9. Busy(t)' BY <1>1, <1>3 DEF Moved, Busy
  <2> QED BY <2>3, <2>8, <2>9 DEF AddressInv
<1>8. VersionInv'
  <2>1. CASE t \in Jobs
    <3>1. task'[t].pc = "checkout" /\ Busy(t)' BY <1>1, <2>1 DEF Moved, Busy
    <3> QED BY <2>1, <3>1 DEF VersionInv
  <2>2. CASE t \notin Jobs
    <3>1. \A j \in Jobs : task'[j] = task[j] BY <1>1, <2>2 DEF Moved, Tasks
    <3>2. stale' = stale BY <1>2, <2>2 DEF Tasks, HostInv, HostType
    <3> QED BY <1>2, <3>1, <3>2 DEF HostInv, VersionInv, On, Busy
  <2> QED BY <2>1, <2>2
<1> QED BY <1>6, <1>7, <1>8

LEMMA FailHost ==
  ASSUME HostInv, NEW t \in Tasks, TaskFails(t)
  PROVE  HostType' /\ AddressInv' /\ VersionInv'
<1>1. /\ UNCHANGED <<proc, users, refused, row, unit, loaded, addr, remote, repo, binary, running>>
      /\ mixed' = TRUE /\ stale' = (stale \/ t \in Jobs)
  BY DEF TaskFails, where, versions, secrets
<1>2. AddressInv' BY <1>1 DEF AddressInv
<1>3. CASE t \in Handlers /\ task[t].pc = "reload"
  <2> DEFINE x == [task[t] EXCEPT !.pc = "restart"]
  <2>1. task[t] \in Task BY DEF HostInv, HostType
  <2>2. x \in Task /\ x.pc = "restart" /\ x.to = task[t].to BY <2>1 DEF Task, Pcs
  <2>3. task' = [task EXCEPT ![t] = x] BY <1>3 DEF TaskFails
  <2> HIDE DEF x
  <2>4. Moved(t, "restart", task[t].to) BY <2>2, <2>3, SetMoves DEF HostInv
  <2>5. TaskInv(t)' BY <1>3, <2>4, TaskTyped, TasksApart DEF Moved, TaskInv, Changing
  <2>6. HostType' BY <1>1, <2>4, <2>5, OneTaskType DEF HostInv, HostType, Pcs
  <2>7. \A j \in Jobs : task'[j] = task[j] BY <1>3, <2>4, TasksApart DEF Moved, Tasks
  <2>8. VersionInv' BY <1>1, <2>7 DEF HostInv, VersionInv, On, Busy
  <2> QED BY <1>2, <2>6, <2>8
<1>4. CASE ~(t \in Handlers /\ task[t].pc = "reload")
  <2>1. task' = [task EXCEPT ![t] = Idle] BY <1>4 DEF TaskFails
  <2>2. Moved(t, "idle", None) BY <2>1, SetMoves, IdleFields DEF HostInv
  <2>3. TaskInv(t)' BY <2>2 DEF Moved, TaskInv, Changing, Updating
  <2>4. stale' \in BOOLEAN BY <1>1 DEF HostInv, HostType
  <2>5. HostType' BY <1>1, <2>2, <2>3, <2>4, OneTaskType DEF HostInv, HostType, Pcs
  <2>6. VersionInv'
    <3>1. t \notin Jobs => \A j \in Jobs : task'[j] = task[j] BY <2>2 DEF Moved, Tasks
    <3> QED BY <1>1, <3>1 DEF HostInv, VersionInv, On, Busy
  <2> QED BY <1>2, <2>5, <2>6
<1> QED BY <1>3, <1>4

LEMMA CrashHost ==
  ASSUME HostInv, Crash
  PROVE  HostType' /\ AddressInv' /\ VersionInv'
<1>0. Off.pc = "off" BY DEF Off
<1>1. /\ UNCHANGED <<users, refused, row, unit, loaded, addr, remote, repo, binary, running, stale>>
      /\ ~On'
      /\ mixed' = (mixed \/ \E h \in Handlers : task[h] # Idle)
  BY <1>0 DEF Crash, End, On, where, versions
<1>2. /\ task' \in [Tasks -> Task]
      /\ \A s \in Tasks : task'[s] = IF s \in Handlers THEN Idle ELSE task[s]
  BY AllRequestsEnd DEF Crash, HostInv
<1>3. \A s \in Tasks : TaskInv(s)'
  BY <1>2, IdleFields DEF HostInv, HostType, TaskInv, Changing, Updating
<1>4. mixed' \in BOOLEAN BY <1>1 DEF HostInv, HostType
<1>5. HostType' BY <1>1, <1>2, <1>3, <1>4 DEF HostInv, HostType
<1>6. AddressInv'
  <2> SUFFICES ASSUME ~mixed' PROVE AddressInv' BY DEF AddressInv
  <2>1. ~mixed /\ \A s \in Tasks : task'[s] = task[s] BY <1>1, <1>2
  <2>2. \A a : Agree(a) => Agree(a)' BY <1>1 DEF Agree
  <2>3. \A t \in Tasks : Stage(t) => Stage(t)'
    BY <1>1, <2>1, <2>2 DEF Stage, ChangeStage, UpdateStage
  <2>4. \A t \in Tasks : Busy(t)' <=> Busy(t) BY <2>1 DEF Busy
  <2> QED BY <1>1, <2>1, <2>2, <2>3, <2>4 DEF HostInv, AddressInv
<1>7. VersionInv'
  <2>1. \A j \in Jobs : task'[j] = task[j] BY <1>2, TasksApart DEF Tasks
  <2> QED BY <1>1, <2>1 DEF HostInv, VersionInv
<1> QED BY <1>5, <1>6, <1>7

LEMMA PublishHost ==
  ASSUME HostInv, Publish
  PROVE  HostType' /\ AddressInv' /\ VersionInv'
<1>1. /\ UNCHANGED <<proc, users, refused, row, unit, loaded, addr, repo, binary, running, task, mixed, stale>>
      /\ remote < LastVersion /\ remote' = remote + 1
  BY DEF Publish, where, secrets
<1>2. remote' \in Versions BY <1>1, VersionsType DEF HostInv, HostType, Versions
<1>3. HostType'
  <2>1. \A t \in Tasks : TaskInv(t)' BY <1>1 DEF HostInv, HostType, TaskInv
  <2> QED BY <1>1, <1>2, <2>1 DEF HostInv, HostType
<1>4. AddressInv'
  <2>1. \A a : Agree(a) => Agree(a)' BY <1>1 DEF Agree, On
  <2>2. \A t \in Tasks : Stage(t) => Stage(t)'
    BY <1>1, <2>1 DEF Stage, ChangeStage, UpdateStage
  <2>3. \A t \in Tasks : Busy(t)' <=> Busy(t) BY <1>1 DEF Busy
  <2> QED BY <1>1, <2>1, <2>2, <2>3 DEF HostInv, AddressInv
<1>5. VersionInv' BY <1>1 DEF HostInv, VersionInv, On, Busy
<1> QED BY <1>3, <1>4, <1>5

\* Nothing of the host depends on what the tools' files hold.
LEMMA ToolsHost ==
  ASSUME HostInv, ToolsChange
  PROVE  HostType' /\ AddressInv' /\ VersionInv'
<1>1. /\ UNCHANGED <<proc, users, row, unit, loaded, addr, remote, repo, binary, running, task, mixed, stale>>
      /\ refused' \in BOOLEAN
  BY DEF ToolsChange, where, versions, secrets, HostInv, HostType
<1>2. HostType'
  <2>1. \A t \in Tasks : TaskInv(t)' BY <1>1 DEF HostInv, HostType, TaskInv
  <2> QED BY <1>1, <2>1 DEF HostInv, HostType
<1>3. AddressInv'
  <2>1. \A a : Agree(a) => Agree(a)' BY <1>1 DEF Agree, On
  <2>2. \A t \in Tasks : Stage(t) => Stage(t)'
    BY <1>1, <2>1 DEF Stage, ChangeStage, UpdateStage
  <2>3. \A t \in Tasks : Busy(t)' <=> Busy(t) BY <1>1 DEF Busy
  <2> QED BY <1>1, <2>1, <2>2, <2>3 DEF HostInv, AddressInv
<1>4. VersionInv' BY <1>1 DEF HostInv, VersionInv, On, Busy
<1> QED BY <1>2, <1>3, <1>4

LEMMA HostKept ==
  ASSUME SecretsInv, HostInv, [Next]_vars
  PROVE  HostInv'
<1> SUFFICES HostType' /\ AddressInv' /\ VersionInv' BY SecretsKept DEF SecretsInv, HostInv
<1>1. CASE UNCHANGED vars BY <1>1, HostLeft DEF vars, secrets, On
<1>2. CASE ProcStep
  BY <1>2, ExecHost, HostLeft, Processes DEF ProcStep, Import, Listen
<1>3. CASE UserStep BY <1>3, HostLeft, Processes DEF UserStep
<1>4. CASE StartFails /\ UNCHANGED hvars
  <2>1. ~On' BY <1>4 DEF StartFails, End, Off, On
  <2> QED BY <1>4, <2>1, HostLeft
<1>5. ASSUME NEW h \in Handlers, ChangeAddress(h) \/ ChangeTLS(h)
      PROVE  HostType' /\ AddressInv' /\ VersionInv'
  <2>1. h \in Tasks /\ h \notin Jobs BY TasksApart DEF Tasks
  <2>2. CASE ChangeAddress(h)
    <3>1. PICK a \in Addrs : Begin(h, [pc |-> "save", to |-> a]) BY <2>2 DEF ChangeAddress
    <3> DEFINE x == [pc |-> "save", to |-> a]
    <3>2. x \in Task /\ x.pc = "save" /\ x.to = a /\ a # None BY AddrsType DEF Task, Pcs
    <3>3. Begin(h, x) BY <3>1
    <3> HIDE DEF x
    <3> QED BY <2>1, <3>2, <3>3, BeginHost
  <2>3. CASE ChangeTLS(h)
    <3> DEFINE x == [pc |-> "reload", to |-> None]
    <3>1. x \in Task /\ x.pc = "reload" /\ x.to = None BY DEF Task, Pcs
    <3>2. Begin(h, x) BY <2>3 DEF ChangeTLS
    <3> HIDE DEF x
    <3> QED BY <2>1, <3>1, <3>2, BeginHost
  <2> QED BY <1>5, <2>2, <2>3
<1>6. ASSUME NEW j \in Jobs, SelfUpdate(j) PROVE HostType' /\ AddressInv' /\ VersionInv'
  <2>1. j \in Tasks /\ j \notin Handlers BY TasksApart DEF Tasks
  <2> DEFINE x == [pc |-> "checkout", to |-> addr]
  <2>2. addr \in Addrs /\ addr # None BY AddrsType DEF HostInv, HostType
  <2>3. x \in Task /\ x.pc = "checkout" /\ x.to = addr BY <2>2 DEF Task, Pcs
  <2>4. Begin(j, x) BY <1>6 DEF SelfUpdate
  <2> HIDE DEF x
  <2> QED BY <2>1, <2>2, <2>3, <2>4, BeginHost
<1>7. ASSUME NEW t \in Tasks, TaskStep(t) \/ TaskFails(t) PROVE HostType' /\ AddressInv' /\ VersionInv'
  BY <1>7, SaveHost, ReadHost, CheckoutHost, BuildHost, CreateHost, FillHost, ReloadHost, RestartHost,
     RefusedHost, FailHost DEF TaskStep
<1>8. CASE Crash BY <1>8, CrashHost
<1>9. CASE Publish BY <1>9, PublishHost
<1>10. CASE ToolsChange BY <1>10, ToolsHost
<1> QED BY <1>1, <1>2, <1>3, <1>4, <1>5, <1>6, <1>7, <1>8, <1>9, <1>10 DEF Next

LEMMA HostInvariant == Spec => [](SecretsInv /\ HostInv)
<1>1. Init => SecretsInv /\ HostInv BY InitSecretsInv, InitHost DEF Init
<1>2. SecretsInv /\ HostInv /\ [Next]_vars => (SecretsInv /\ HostInv)' BY SecretsKept, HostKept
<1> QED BY <1>1, <1>2, PTL DEF Spec

\* Every step of the host, its program and its users keeps the types of their state.
THEOREM HostTypeCorrect == Spec => []TypeOK
<1>1. HostInv => TypeOK BY DEF HostInv, HostType, TypeOK
<1> QED BY <1>1, HostInvariant, PTL

\* The address that is shown, the one in the unit file, the one systemd has loaded
\* and the one the program listens at are one when nothing is in progress, for any
\* number of requests and updates that did not overlap and were not cut short
\* (server.go:841-920, install.sh:103-134).
THEOREM AddressKept == Spec => []AddressAgrees
<1>1. HostInv => AddressAgrees
  <2> SUFFICES ASSUME HostInv, AtRest, Serving, ~mixed
               PROVE  unit = addr /\ loaded = addr /\ row \in {None, addr}
    BY DEF AddressAgrees
  <2>1. \A t \in Tasks : ~Busy(t) BY IdleFields DEF AtRest, Busy
  <2>2. Agree(unit) /\ On BY <2>1 DEF HostInv, AddressInv, Serving, On
  <2> QED BY <2>2 DEF Agree
<1> QED BY <1>1, HostInvariant, PTL

\* When no update is in progress the version that is shown runs, unless the last
\* update has failed, whatever restarts and crashes there were (update.go:63).
THEOREM VersionKept == Spec => []VersionTold
<1>1. HostInv => VersionTold
  <2> SUFFICES ASSUME HostInv, NoJobs, Serving, ~stale PROVE running = repo BY DEF VersionTold
  <2>1. \A j \in Jobs : ~Busy(j) /\ task[j].pc = "idle" BY IdleFields DEF NoJobs, Busy
  <2>2. On BY DEF Serving, On
  <2> QED BY <2>1, <2>2 DEF HostInv, VersionInv
<1> QED BY <1>1, HostInvariant, PTL
=============================================================================
