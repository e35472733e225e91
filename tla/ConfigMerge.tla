----------------------------- MODULE ConfigMerge -----------------------------
(***************************************************************************)
(* What becomes of the text of a configuration file when a provider is     *)
(* applied to it: edited in place where every line to be edited is there,  *)
(* parsed, completed and written anew ("seeded") where not.                *)
(*                                                                         *)
(* A file is a document of fields; a field that is missing is None.        *)
(*   conn      claude: ANTHROPIC_BASE_URL and ANTHROPIC_AUTH_TOKEN,        *)
(*             codex: base_url of the section model_providers.custom       *)
(*   route     codex: model_provider                                       *)
(*   store     codex: cli_auth_credentials_store                           *)
(*   model     model (and codex: model_reasoning_effort)                   *)
(*   guard     claude: permissions.defaultMode,                            *)
(*             codex: approval_policy and sandbox_mode                     *)
(*   modifier  claude: IS_SANDBOX, skipDangerousModePermissionPrompt       *)
(*   nested    claude: a field of the user's named "model" further inside  *)
(*   native    whatever else the user keeps in the file                    *)
(*   valid     whether it can be parsed                                    *)
(* A file of credentials has an API key and the tokens of a login.         *)
(***************************************************************************)
EXTENDS Naturals

CONSTANTS
  Conns,      \* URL and key of a gateway
  Models, Guards, Modifiers, Natives, Logins,
  Expanded,   \* what a replacement template makes of it: not the same if it has a "$"
  None

Opt(S) == S \cup {None}

Doc == [conn : Opt(Conns), route : {None, "custom", "openai"}, store : {None, "file"},
        model : Opt(Models), guard : Opt(Guards), modifier : Opt(Modifiers),
        nested : Opt(Models), native : Opt(Natives), valid : BOOLEAN]

Empty == [conn |-> None, route |-> None, store |-> None, model |-> None, guard |-> None,
          modifier |-> None, nested |-> None, native |-> None, valid |-> TRUE]

Cred == [key : Opt(Conns), login : Opt(Logins)]

Declared == [source : {"gateway", "official"}, conn : Opt(Conns), model : Opt(Models),
             guard : Opt(Guards), modifier : Opt(Modifiers)]

\* A file that does not exist.
NoFile == None

ASSUME NoFileIsNone ==
  None \notin Doc \cup Cred \cup Conns \cup Logins \cup {"custom", "openai", "file"}
ASSUME ExpandedType == Expanded \in [Conns -> Conns]

\* A declared value takes the place of the old one.
Over(new, old) == IF new # None THEN new ELSE old

\* A declared value takes the place of an old one that is there.
Into(new, old) == IF old # None THEN Over(new, old) ELSE None

-----------------------------------------------------------------------------
(* A gateway. *)

\* A text the edit works on, also one that cannot be parsed.
SupportsEdit(kind, d) ==
  /\ d # NoFile
  /\ d.conn # None
  /\ kind = "codex" => d.route # None

\* codex gives the edit up when a declared approval policy or sandbox mode has
\* no line to be put in; a model without a line is passed over.
CanEdit(kind, d, r) ==
  /\ SupportsEdit(kind, d)
  /\ kind = "codex" => r.guard = None \/ d.guard # None

\* The edit takes the switches of the last provider out.
Edited_Unmodified(kind, d, r) ==
  [d EXCEPT !.conn = r.conn, !.model = Into(r.model, d.model), !.guard = Into(r.guard, d.guard),
            !.modifier = None]

\* The pattern that replaces a JSON field finds every field of its name, and
\* the new value is a template in which "$" names a group.
Edited(kind, d, r) ==
  [d EXCEPT !.conn = IF kind = "claude" THEN Expanded[r.conn] ELSE r.conn,
            !.route = IF kind = "codex" THEN "custom" ELSE d.route,
            !.store = IF kind = "codex" THEN None ELSE d.store,
            !.model = Into(r.model, d.model),
            !.guard = Into(r.guard, d.guard),
            !.nested = IF kind = "claude" THEN Into(r.model, d.nested) ELSE d.nested]

CanSeed(d) == d # NoFile => d.valid

\* What cannot be edited is thrown away.
Found_Afresh(d) == Empty

Found(d) == IF d = NoFile THEN Empty ELSE d

\* The section is written, but not what selects it.
Seeded_Unselected(kind, d, r) ==
  [Found(d) EXCEPT !.conn = r.conn, !.model = Over(r.model, Found(d).model),
                   !.guard = Over(r.guard, Found(d).guard)]

Seeded(kind, d, r) ==
  [Found(d) EXCEPT !.conn = r.conn,
                   !.route = IF kind = "codex" THEN "custom" ELSE Found(d).route,
                   !.store = IF kind = "codex" THEN None ELSE Found(d).store,
                   !.model = Over(r.model, Found(d).model),
                   !.guard = Over(r.guard, Found(d).guard),
                   !.modifier = IF kind = "claude" THEN r.modifier ELSE Found(d).modifier]

\* codex's auth.json with nothing but the key.
KeyOnly(r) == [key |-> r.conn, login |-> None]

\* The first write of auth.json keeps what is beside a key that is there.
EditedAuth(a, r) == IF a # NoFile /\ a.key # None THEN [a EXCEPT !.key = Expanded[r.conn]] ELSE KeyOnly(r)

-----------------------------------------------------------------------------
(* The configuration file in the private home of an official account. *)

Prepared(kind, d, r) ==
  [Found(d) EXCEPT !.conn = None,
                   !.route = IF kind = "codex" THEN "openai" ELSE Found(d).route,
                   !.store = IF kind = "codex" THEN "file" ELSE Found(d).store,
                   !.model = Over(r.model, Found(d).model),
                   !.guard = Over(r.guard, Found(d).guard),
                   !.modifier = IF kind = "claude" THEN r.modifier ELSE Found(d).modifier]

-----------------------------------------------------------------------------
(* A gateway applied to files nobody else touches. *)

AppliedMain(kind, m, r) ==
  IF CanEdit(kind, m, r) THEN Edited(kind, m, r) ELSE Seeded(kind, m, r)

AppliedCred(kind, m, a, r) ==
  CASE kind = "claude"                         -> a
    [] kind = "codex" /\ CanEdit(kind, m, r)    -> EditedAuth(a, r)
    [] kind = "codex" /\ ~CanEdit(kind, m, r)   -> KeyOnly(r)
=============================================================================
