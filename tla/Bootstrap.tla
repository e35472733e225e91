------------------------------ MODULE Bootstrap ------------------------------
(***************************************************************************)
(* The start of the program up to the moment it serves, and the secrets it *)
(* makes on its first start: the master key, in a file, under which the    *)
(* secrets of the providers are sealed, and the password and API token of  *)
(* its user, stored as hashes and written to a file for the user to read.  *)
(* A file is written by os.WriteFile, that is emptied and then filled.     *)
(*                                                                         *)
(* The start may fail, or the process end, between any two steps.  Its     *)
(* last two steps, the import of existing configurations and the listener, *)
(* and what starts it again are Host's.                                    *)
(***************************************************************************)

CONSTANTS
  Keys,     \* master keys
  None

ASSUME KeysType == Keys # {} /\ "torn" \notin Keys
ASSUME NoneApart == None \notin Keys \cup {"torn", "generated", "chosen", "shown", "unseen"}

VARIABLES
  key,      \* master.key
  sealed,   \* the keys under which secrets in the database are sealed
  hash,     \* the rows password_hash and api_token_hash: whose hash
  creds,    \* bootstrap-credentials.txt
  proc,     \* the process
  session,  \* whether a browser has a session
  lost      \* history: credentials were stored that nobody was told

secrets == <<key, sealed, hash, creds, proc, session, lost>>

NoFile == None
Torn == "torn"

\* The password is the generated one or one its user chose; a token that was
\* made later was shown to the user, or the page with it never arrived.
Password == {None, "generated", "chosen"}
Token == {None, "generated", "shown", "unseen"}
Hashes == [password : Password, token : Token]
Unwritten == [password |-> None, token |-> None]

Starting == {"key", "newkey", "fillkey", "rows", "password", "token", "file", "fillfile", "import", "listen"}

Process == [pc : Starting \cup {"off", "serving"}, key : Keys \cup {None},
            made : SUBSET {"password", "token"}]
Off == [pc |-> "off", key |-> None, made |-> {}]

Started == [Off EXCEPT !.pc = "key"]
Serving == proc.pc = "serving"

Goto(pc) == proc' = [proc EXCEPT !.pc = pc]

\* A start that ends between the second hash and the end of the file.
End ==
  /\ proc' = Off
  /\ session' = FALSE
  /\ lost' = (lost \/ proc.pc \in {"file", "fillfile"})

InitSecrets ==
  /\ key = NoFile
  /\ sealed = {}
  /\ hash = Unwritten
  /\ creds = Unwritten
  /\ proc = Off
  /\ session = FALSE
  /\ lost = FALSE

-----------------------------------------------------------------------------
(* EnsureMasterKey *)

\* Mutant: a key that cannot be read is made anew.
ReadKey_AnyError ==
  /\ proc.pc = "key"
  /\ \/ key \in Keys /\ proc' = [proc EXCEPT !.pc = "rows", !.key = key]
     \/ Goto("newkey")
  /\ UNCHANGED <<key, sealed, hash, creds, session, lost>>

\* A file that holds no key ends the start.
ReadKey ==
  /\ proc.pc = "key"
  /\ CASE key \in Keys -> proc' = [proc EXCEPT !.pc = "rows", !.key = key]
       [] key = NoFile -> Goto("newkey")
       [] key = Torn   -> proc' = Off
  /\ UNCHANGED <<key, sealed, hash, creds, session, lost>>

CreateKey ==
  /\ proc.pc = "newkey"
  /\ key' = Torn
  /\ Goto("fillkey")
  /\ UNCHANGED <<sealed, hash, creds, session, lost>>

FillKey ==
  /\ proc.pc = "fillkey"
  /\ \E k \in Keys : key' = k /\ proc' = [proc EXCEPT !.pc = "rows", !.key = k]
  /\ UNCHANGED <<sealed, hash, creds, session, lost>>

-----------------------------------------------------------------------------
(* EnsureBootstrapCredentials *)

\* Mutant: a database with one of the two is refused.
ReadRows_Refuses ==
  /\ proc.pc = "rows"
  /\ CASE hash = Unwritten -> Goto("password")
       [] hash.password # None /\ hash.token # None -> Goto("import")
       [] hash # Unwritten /\ None \in {hash.password, hash.token} -> proc' = Off
  /\ UNCHANGED <<key, sealed, hash, creds, session, lost>>

ReadRows ==
  /\ proc.pc = "rows"
  /\ Goto(CASE hash.password = None -> "password"
            [] hash.password # None /\ hash.token = None -> "token"
            [] hash.password # None /\ hash.token # None -> "import")
  /\ UNCHANGED <<key, sealed, hash, creds, session, lost>>

StorePassword ==
  /\ proc.pc = "password"
  /\ hash' = [hash EXCEPT !.password = "generated"]
  /\ proc' = [proc EXCEPT !.pc = IF hash.token = None THEN "token" ELSE "file",
                          !.made = @ \cup {"password"}]
  /\ UNCHANGED <<key, sealed, creds, session, lost>>

StoreToken ==
  /\ proc.pc = "token"
  /\ hash' = [hash EXCEPT !.token = "generated"]
  /\ proc' = [proc EXCEPT !.pc = "file", !.made = @ \cup {"token"}]
  /\ UNCHANGED <<key, sealed, creds, session, lost>>

CreateFile ==
  /\ proc.pc = "file"
  /\ creds' = Unwritten
  /\ Goto("fillfile")
  /\ UNCHANGED <<key, sealed, hash, session, lost>>

\* Mutant: a start that has found one of the two writes nothing.
FillFile_BothOnly ==
  /\ proc.pc = "fillfile"
  /\ creds' = IF proc.made = {"password", "token"}
              THEN [password |-> "generated", token |-> "generated"] ELSE creds
  /\ Goto("import")
  /\ UNCHANGED <<key, sealed, hash, session, lost>>

\* Only what this start has made: the file of an earlier one is replaced.
FillFile ==
  /\ proc.pc = "fillfile"
  /\ creds' = [c \in {"password", "token"} |-> IF c \in proc.made THEN "generated" ELSE None]
  /\ Goto("import")
  /\ UNCHANGED <<key, sealed, hash, session, lost>>

StartSteps ==
  ReadKey \/ CreateKey \/ FillKey \/ ReadRows \/ StorePassword \/ StoreToken \/ CreateFile \/ FillFile

\* An error ends the process.
StartFails ==
  /\ proc.pc \in Starting
  /\ End
  /\ UNCHANGED <<key, sealed, hash, creds>>

-----------------------------------------------------------------------------
(* Serving. *)

\* A provider's secret is stored.
SaveProvider ==
  /\ Serving
  /\ sealed' = sealed \cup {proc.key}
  /\ UNCHANGED <<key, hash, creds, proc, session, lost>>

\* The user has the password that is in force, or the token.
PasswordInHand == hash.password = "chosen" \/ creds.password = hash.password
TokenInHand == hash.token = "shown" \/ creds.token = hash.token

Authenticated == Serving /\ (session \/ TokenInHand)

Login ==
  /\ Serving /\ ~session
  /\ PasswordInHand
  /\ session' = TRUE
  /\ UNCHANGED <<key, sealed, hash, creds, proc, lost>>

\* A logout, or the end of the session's time.
SessionEnds ==
  /\ session
  /\ session' = FALSE
  /\ UNCHANGED <<key, sealed, hash, creds, proc, lost>>

UpdatePassword ==
  /\ Authenticated
  /\ hash' = [hash EXCEPT !.password = "chosen"]
  /\ UNCHANGED <<key, sealed, creds, proc, session, lost>>

\* The token is stored before the page that shows it is sent.
RotateAPIToken ==
  /\ Authenticated
  /\ \E token \in {"shown", "unseen"} :
       /\ hash' = [hash EXCEPT !.token = token]
       /\ lost' = (lost \/ (token = "unseen" /\ ~PasswordInHand))
  /\ UNCHANGED <<key, sealed, creds, proc, session>>

UserSteps == SaveProvider \/ Login \/ SessionEnds \/ UpdatePassword \/ RotateAPIToken

-----------------------------------------------------------------------------
(* Properties. *)

SecretsType ==
  /\ key \in Keys \cup {NoFile, Torn}
  /\ sealed \subseteq Keys
  /\ hash \in Hashes
  /\ creds \in Hashes
  /\ proc \in Process
  /\ session \in BOOLEAN
  /\ lost \in BOOLEAN

\* Every secret in the database can be unsealed with the key in the file,
\* whatever starts were cut short or failed on the way to it (secrets.go:17-43).
SecretsReadable == sealed \subseteq {key}

\* Who can read the file of the first credentials can get into a program that
\* serves - with what is in there or what was chosen or shown since - unless
\* credentials were stored that nobody was told: a start ended after it stored
\* the second hash and before the file was written, or the page with a new token
\* never arrived at one who had no other (store.go:473-533, README.md:16).
WayIn == Serving => PasswordInHand \/ TokenInHand \/ lost
=============================================================================
