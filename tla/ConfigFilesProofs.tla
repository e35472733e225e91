-------------------------- MODULE ConfigFilesProofs --------------------------
(* Proofs about ConfigFiles: types, what a switch's backup holds, what becomes of
   the user's fields, which provider is in force, and what switching to the same
   gateway again changes. *)
EXTENDS ConfigFiles, SequenceTheorems, TLAPS

Suffixes(k) == IF k = "codex" THEN {<<"main", "cred">>, <<"cred">>}
               ELSE {<<"main", "state", "cred">>, <<"state", "cred">>, <<"cred">>}

Rest(s) == {s[i] : i \in DOMAIN s}

LEMMA PathsAreSuffixes ==
  ASSUME NEW k \in {"claude", "codex"}
  PROVE  Paths(k) \in Suffixes(k) /\ Rest(Paths(k)) = Managed(k) /\ Managed(k) \subseteq Files
BY SMT DEF Paths, Suffixes, Rest, Managed, Files

LEMMA SuffixStep ==
  ASSUME NEW k \in {"claude", "codex"}, NEW s \in Suffixes(k)
  PROVE  /\ s \in Seq(Files) /\ Tail(s) \in Seq(Files)
         /\ Head(s) \in Files
         /\ Rest(s) = Rest(Tail(s)) \cup {Head(s)}
         /\ Len(s) = 1 => Rest(Tail(s)) = {}
         /\ Len(s) # 1 => Tail(s) \in Suffixes(k)
<1>1. CASE s = <<"cred">> BY <1>1, SMT DEF Suffixes, Rest, Files
<1>2. CASE s = <<"main", "cred">> BY <1>2, SMT DEF Suffixes, Rest, Files
<1>3. CASE s = <<"state", "cred">> BY <1>3, SMT DEF Suffixes, Rest, Files
<1>4. CASE s = <<"main", "state", "cred">> BY <1>4, SMT DEF Suffixes, Rest, Files
<1> QED BY <1>1, <1>2, <1>3, <1>4 DEF Suffixes

-----------------------------------------------------------------------------
(* Types. *)

Tools == {"claude", "codex"}

LEMMA Choices ==
  ASSUME NEW S, NEW x \in Opt(S), NEW y \in Opt(S)
  PROVE  Over(x, y) \in Opt(S) /\ Into(x, y) \in Opt(S)
BY DEF Over, Into, Opt

LEMMA DocFields ==
  ASSUME NEW d \in Doc
  PROVE  /\ d.conn \in Opt(Conns) /\ d.route \in {None, "custom", "openai"} /\ d.store \in {None, "file"}
         /\ d.model \in Opt(Models) /\ d.guard \in Opt(Guards) /\ d.modifier \in Opt(Modifiers)
         /\ d.nested \in Opt(Models)
BY DEF Doc

LEMMA RowFields ==
  ASSUME NEW r \in Declared
  PROVE  r.model \in Opt(Models) /\ r.guard \in Opt(Guards) /\ r.modifier \in Opt(Modifiers)
BY DEF Declared

LEMMA EditedType ==
  ASSUME NEW k \in Tools, NEW d \in Doc, NEW r \in Declared, r.conn \in Conns
  PROVE  Edited(k, d, r) \in Doc
<1> DEFINE c == IF k = "claude" THEN Expanded[r.conn] ELSE r.conn
           t == IF k = "codex" THEN "custom" ELSE d.route
           s == IF k = "codex" THEN None ELSE d.store
           n == IF k = "claude" THEN Into(r.model, d.nested) ELSE d.nested
<1>1. c \in Opt(Conns) BY ExpandedType DEF Opt
<1>2. t \in {None, "custom", "openai"} /\ s \in {None, "file"} BY DocFields
<1>3. n \in Opt(Models) BY DocFields, RowFields, Choices
<1>4. Into(r.model, d.model) \in Opt(Models) /\ Into(r.guard, d.guard) \in Opt(Guards)
  BY DocFields, RowFields, Choices
<1>5. Edited(k, d, r) = [d EXCEPT !.conn = c, !.route = t, !.store = s, !.model = Into(r.model, d.model),
                                 !.guard = Into(r.guard, d.guard), !.nested = n]
  BY DEF Edited
<1> HIDE DEF c, t, s, n
<1> QED BY <1>1, <1>2, <1>3, <1>4, <1>5 DEF Doc

LEMMA FoundType ==
  ASSUME NEW d \in Opt(Doc)
  PROVE  Found(d) \in Doc
<1>1. Empty \in Doc BY DEF Empty, Doc, Opt
<1> QED BY <1>1 DEF Found, Opt, NoFile

LEMMA SeededType ==
  ASSUME NEW k \in Tools, NEW d \in Opt(Doc), NEW r \in Declared, r.conn \in Conns
  PROVE  Seeded(k, d, r) \in Doc
<1> DEFINE e == Found(d)
           t == IF k = "codex" THEN "custom" ELSE e.route
           s == IF k = "codex" THEN None ELSE e.store
           x == IF k = "claude" THEN r.modifier ELSE e.modifier
<1>0. e \in Doc BY FoundType
<1>1. r.conn \in Opt(Conns) BY DEF Opt
<1>2. t \in {None, "custom", "openai"} /\ s \in {None, "file"} BY <1>0, DocFields
<1>3. x \in Opt(Modifiers) BY <1>0, DocFields, RowFields
<1>4. Over(r.model, e.model) \in Opt(Models) /\ Over(r.guard, e.guard) \in Opt(Guards)
  BY <1>0, DocFields, RowFields, Choices
<1>5. Seeded(k, d, r) = [e EXCEPT !.conn = r.conn, !.route = t, !.store = s, !.model = Over(r.model, e.model),
                                 !.guard = Over(r.guard, e.guard), !.modifier = x]
  BY DEF Seeded
<1> HIDE DEF e, t, s, x
<1> QED BY <1>0, <1>1, <1>2, <1>3, <1>4, <1>5 DEF Doc

LEMMA PreparedType ==
  ASSUME NEW k \in Tools, NEW d \in Opt(Doc), NEW r \in Declared
  PROVE  Prepared(k, d, r) \in Doc
<1> DEFINE e == Found(d)
           t == IF k = "codex" THEN "openai" ELSE e.route
           s == IF k = "codex" THEN "file" ELSE e.store
           x == IF k = "claude" THEN r.modifier ELSE e.modifier
<1>0. e \in Doc BY FoundType
<1>1. None \in Opt(Conns) BY DEF Opt
<1>2. t \in {None, "custom", "openai"} /\ s \in {None, "file"} BY <1>0, DocFields
<1>3. x \in Opt(Modifiers) BY <1>0, DocFields, RowFields
<1>4. Over(r.model, e.model) \in Opt(Models) /\ Over(r.guard, e.guard) \in Opt(Guards)
  BY <1>0, DocFields, RowFields, Choices
<1>5. Prepared(k, d, r) = [e EXCEPT !.conn = None, !.route = t, !.store = s, !.model = Over(r.model, e.model),
                                 !.guard = Over(r.guard, e.guard), !.modifier = x]
  BY DEF Prepared
<1> HIDE DEF e, t, s, x
<1> QED BY <1>0, <1>1, <1>2, <1>3, <1>4, <1>5 DEF Doc

LEMMA AuthType ==
  ASSUME NEW a \in Opt(Cred), NEW r \in Declared, r.conn \in Conns
  PROVE  EditedAuth(a, r) \in Cred /\ KeyOnly(r) \in Cred
BY ExpandedType, SMT DEF EditedAuth, KeyOnly, Cred, Declared, Opt, NoFile

LEMMA FileIn ==
  ASSUME NEW g \in FilesType, NEW f \in Files
  PROVE  g[f] \in FileOf(f)
BY DEF FilesType

LEMMA FileExcept ==
  ASSUME NEW g \in FilesType, NEW f \in Files, NEW c \in FileOf(f)
  PROVE  [g EXCEPT ![f] = c] \in FilesType
BY SMT DEF FilesType, FileOf, Opt, Files

\* What a request in progress carries.
Serves(k, r) ==
  /\ r.pc # "idle" => r.p \in Providers
  /\ r.pc \in {"read", "copy"} => r.todo \in Suffixes(k)
  /\ r.pc \in {"copy"} \cup Replacing => r.dir \in Seconds
  /\ r.pc = "write" => r.draft # <<>> /\ r.then \in {"edit", "finish"}
  /\ r.pc \in {"edit", "seed"} => Decl[r.p].source = "gateway"
  /\ r.pc = "write" => (r.then = "edit" => Decl[r.p].source = "gateway")

ServingInv == \A w \in Workers : Serves(kind, req[w])

TypeInv == TypeOK /\ ServingInv

LEMMA NoFilesType == NoFiles \in FilesType
BY DEF NoFiles, FilesType, FileOf, Opt, NoFile

LEMMA IdleType == Idle \in Request
BY NoFilesType, SMT DEF Idle, Request, Pcs, Opt

LEMMA TypeInit == Init => TypeInv
<1> SUFFICES ASSUME Init PROVE TypeInv OBVIOUS
<1>1. kind \in Tools BY KindsType DEF Init, Tools
<1>2. disk \in FilesType BY StartsType DEF Init
<1>3. home \in [Providers -> FilesType] BY StartsType DEF Init
<1>4. dirs \in [Seconds -> FilesType] BY NoFilesType DEF Init
<1>5. req \in [Workers -> Request] BY IdleType DEF Init
<1>6. intact \in [Workers -> SUBSET Managed(kind)] BY DEF Init
<1>7. ServingInv BY DEF Init, ServingInv, Serves, Idle, Replacing
<1> QED BY <1>1, <1>2, <1>3, <1>4, <1>5, <1>6, <1>7 DEF Init, TypeInv, TypeOK, Tools, Opt

LEMMA RowType ==
  ASSUME TypeInv, NEW w \in Workers, req[w].pc # "idle"
  PROVE  /\ req[w].p \in Providers /\ Row(w) \in Declared
         /\ Row(w).source = "gateway" => Row(w).conn \in Conns
BY DeclType DEF TypeInv, ServingInv, Serves, Row

LEMMA TypeReceive ==
  ASSUME TypeInv, NEW w \in Workers, NEW p \in Providers, Receive(w, p)
  PROVE  TypeInv'
<1>1. kind \in Tools BY DEF TypeInv, TypeOK, Tools
<1>2. Paths(kind) \in Suffixes(kind) /\ Paths(kind) \in Seq(Files)
  BY <1>1, PathsAreSuffixes, SuffixStep DEF Tools
<1>3. /\ \E a \in BOOLEAN :
           req' = [v \in Workers |->
                     IF v = w THEN [Idle EXCEPT !.pc = "read", !.p = p, !.todo = Paths(kind), !.alone = a]
                     ELSE [req[v] EXCEPT !.alone = req[v].pc = "idle"]]
      /\ kind' = kind
  BY DEF Receive
<1>4. PICK a \in BOOLEAN :
           req' = [v \in Workers |->
                     IF v = w THEN [Idle EXCEPT !.pc = "read", !.p = p, !.todo = Paths(kind), !.alone = a]
                     ELSE [req[v] EXCEPT !.alone = req[v].pc = "idle"]]
  BY <1>3
<1>5. ASSUME NEW v \in Workers
      PROVE  req'[v] \in Request /\ Serves(kind', req'[v])
  <2>1. CASE v = w
    <3>1. req'[v] = [Idle EXCEPT !.pc = "read", !.p = p, !.todo = Paths(kind), !.alone = a] BY <1>4, <2>1
    <3>2. req'[v] \in Request BY <3>1, <1>2, IdleType DEF Request, Pcs, Opt
    <3>3. req'[v].pc = "read" /\ req'[v].p = p /\ req'[v].todo = Paths(kind)
      BY <3>1 DEF Idle
    <3> QED BY <3>2, <3>3, <1>2, <1>3 DEF Serves, Replacing
  <2>2. CASE v # w
    <3>1. req'[v] = [req[v] EXCEPT !.alone = req[v].pc = "idle"] /\ req[v] \in Request
      BY <2>2, <1>4 DEF TypeInv, TypeOK
    <3>2. /\ req'[v].pc = req[v].pc /\ req'[v].p = req[v].p /\ req'[v].todo = req[v].todo
          /\ req'[v].dir = req[v].dir /\ req'[v].draft = req[v].draft /\ req'[v].then = req[v].then
          /\ req'[v] \in Request
      BY <3>1 DEF Request
    <3> QED BY <3>2, <1>3 DEF TypeInv, ServingInv, Serves
  <2> QED BY <2>1, <2>2
<1>6. req' \in [Workers -> Request] BY <1>4, <1>5
<1>7. ServingInv' BY <1>5 DEF ServingInv
<1>8. intact' \in [Workers -> SUBSET Managed(kind)'] BY DEF Receive, TypeInv, TypeOK, Managed, Paths
<1> QED BY <1>6, <1>7, <1>8 DEF Receive, TypeInv, TypeOK

\* A step that changes one request.
LEMMA OneRequest ==
  ASSUME TypeInv, NEW w \in Workers, NEW r \in Request, Serves(kind, r),
         req' = [req EXCEPT ![w] = r], kind' = kind
  PROVE  req' \in [Workers -> Request] /\ ServingInv'
<1>1. req \in [Workers -> Request] BY DEF TypeInv, TypeOK
<1>2. \A v \in Workers : Serves(kind', req'[v]) BY <1>1 DEF TypeInv, ServingInv
<1> QED BY <1>1, <1>2 DEF ServingInv

LEMMA RequestFields ==
  ASSUME TypeInv, NEW w \in Workers
  PROVE  /\ req[w] \in Request /\ Serves(kind, req[w])
         /\ req[w].pc \in Pcs /\ req[w].p \in Opt(Providers) /\ req[w].alone \in BOOLEAN
         /\ req[w].seen \in FilesType /\ req[w].dir \in Opt(Seconds) /\ req[w].todo \in Seq(Files)
         /\ req[w].draft \in Seq(Pending) /\ req[w].then \in Pcs
         /\ kind \in Tools /\ DOMAIN disk = Files /\ disk \in FilesType
BY DEF TypeInv, TypeOK, ServingInv, Request, FilesType, Tools

LEMMA IdleServes == ASSUME NEW k PROVE Serves(k, Idle)
BY DEF Serves, Idle, Replacing

LEMMA TypeReadCurrent ==
  ASSUME TypeInv, NEW w \in Workers, ReadCurrent(w)
  PROVE  TypeInv'
<1> DEFINE f == Head(req[w].todo)
           pc == IF Len(req[w].todo) = 1 THEN "compare" ELSE "read"
           r == [req[w] EXCEPT !.seen = [req[w].seen EXCEPT ![f] = disk[f]],
                               !.todo = Tail(req[w].todo), !.pc = pc]
<1>1. req[w].pc = "read" /\ req[w].todo \in Suffixes(kind) /\ req[w].p \in Providers
  BY RequestFields DEF ReadCurrent, Serves
<1>2. f \in Files /\ Tail(req[w].todo) \in Seq(Files)
      /\ (pc = "read" => Tail(req[w].todo) \in Suffixes(kind))
  BY <1>1, RequestFields, SuffixStep DEF Tools
<1>3. [req[w].seen EXCEPT ![f] = disk[f]] \in FilesType
  <2>1. disk[f] \in FileOf(f) BY <1>2, RequestFields, FileIn
  <2> QED BY <2>1, <1>2, RequestFields, FileExcept
<1>4. pc \in Pcs /\ pc \in {"compare", "read"} BY DEF Pcs
<1>5. req' = [req EXCEPT ![w] = r] /\ kind' = kind
  BY RequestFields DEF ReadCurrent, TypeInv, TypeOK, Request
<1> HIDE DEF pc, f
<1>6. r \in Request BY <1>2, <1>3, <1>4, RequestFields DEF Request
<1>7. Serves(kind, r)
  <2>1. r.pc = pc /\ r.p = req[w].p /\ r.todo = Tail(req[w].todo) BY RequestFields DEF Request
  <2> QED BY <2>1, <1>1, <1>2, <1>4 DEF Serves, Replacing
<1>8. req' \in [Workers -> Request] /\ ServingInv' BY <1>5, <1>6, <1>7, OneRequest
<1> QED BY <1>8 DEF ReadCurrent, TypeInv, TypeOK, Managed, Paths
LEMMA TypeReuseDir ==
  ASSUME TypeInv, NEW w \in Workers, ReuseDir(w)
  PROVE  TypeInv'
<1>1. PICK d \in made :
        req' = [req EXCEPT ![w] = [req[w] EXCEPT !.dir = d, !.pc = "apply", !.seen = NoFiles]]
  BY DEF ReuseDir, TypeInv, TypeOK, Request
<1> DEFINE r == [req[w] EXCEPT !.dir = d, !.pc = "apply", !.seen = NoFiles]
<1>2. d \in Seconds BY DEF TypeInv, TypeOK
<1>3. r \in Request BY <1>2, RequestFields, NoFilesType DEF Request, Pcs, Opt
<1>4. r.pc = "apply" /\ r.p = req[w].p /\ r.dir = d BY RequestFields DEF Request
<1>5. req[w].p \in Providers BY RequestFields DEF ReuseDir, Serves
<1>6. Serves(kind, r) BY <1>2, <1>4, <1>5 DEF Serves
<1>7. req' \in [Workers -> Request] /\ ServingInv'
  BY <1>1, <1>3, <1>6, OneRequest DEF ReuseDir
<1> QED BY <1>7 DEF ReuseDir, TypeInv, TypeOK, Managed, Paths

LEMMA TypeMakeDir ==
  ASSUME TypeInv, NEW w \in Workers, MakeDir(w)
  PROVE  TypeInv'
<1>1. PICK now \in Seconds :
        /\ made' = made \cup {now}
        /\ req' = [req EXCEPT ![w] = [req[w] EXCEPT !.dir = now, !.pc = "copy", !.todo = Paths(kind),
                                                   !.seen = NoFiles]]
  BY DEF MakeDir, TypeInv, TypeOK, Request
<1> DEFINE r == [req[w] EXCEPT !.dir = now, !.pc = "copy", !.todo = Paths(kind), !.seen = NoFiles]
<1>2. Paths(kind) \in Suffixes(kind) /\ Paths(kind) \in Seq(Files)
  BY RequestFields, PathsAreSuffixes, SuffixStep DEF Tools
<1>3. r \in Request BY <1>2, RequestFields, NoFilesType DEF Request, Pcs, Opt
<1>4. r.pc = "copy" /\ r.p = req[w].p /\ r.dir = now /\ r.todo = Paths(kind)
  BY RequestFields DEF Request
<1>5. req[w].p \in Providers BY RequestFields DEF MakeDir, Serves
<1>6. Serves(kind, r) BY <1>2, <1>4, <1>5 DEF Serves
<1>7. req' \in [Workers -> Request] /\ ServingInv'
  BY <1>1, <1>3, <1>6, OneRequest DEF MakeDir
<1> QED BY <1>1, <1>7 DEF MakeDir, TypeInv, TypeOK, Managed, Paths

LEMMA DisturbType ==
  ASSUME intact \in [Workers -> SUBSET Managed(kind)], kind' = kind, NEW W, NEW f, Disturb(W, f)
  PROVE  intact' \in [Workers -> SUBSET Managed(kind)']
BY DEF Disturb, Managed, Paths

LEMMA TypeCopy ==
  ASSUME TypeInv, NEW w \in Workers, Copy(w)
  PROVE  TypeInv'
<1> DEFINE f == Head(req[w].todo)
           d == req[w].dir
           pc == IF Len(req[w].todo) = 1 THEN "apply" ELSE "copy"
           r == [req[w] EXCEPT !.todo = Tail(req[w].todo), !.pc = pc]
<1>1. /\ req[w].pc = "copy" /\ req[w].todo \in Suffixes(kind) /\ req[w].p \in Providers
      /\ d \in Seconds
  BY RequestFields DEF Copy, Serves
<1>2. f \in Files /\ Tail(req[w].todo) \in Seq(Files)
      /\ (pc = "copy" => Tail(req[w].todo) \in Suffixes(kind))
  BY <1>1, RequestFields, SuffixStep DEF Tools
<1>3. dirs' \in [Seconds -> FilesType]
  <2>1. disk[f] \in FileOf(f) /\ dirs[d] \in FilesType
    BY <1>1, <1>2, RequestFields, FileIn DEF TypeInv, TypeOK
  <2>2. [dirs[d] EXCEPT ![f] = disk[f]] \in FilesType BY <2>1, <1>2, FileExcept
  <2>3. dirs' = dirs \/ dirs' = [dirs EXCEPT ![d] = [dirs[d] EXCEPT ![f] = disk[f]]]
    BY <1>1 DEF Copy, TypeInv, TypeOK
  <2> QED BY <2>2, <2>3 DEF TypeInv, TypeOK
<1>4. pc \in Pcs /\ pc \in {"apply", "copy"} BY DEF Pcs
<1>5. req' = [req EXCEPT ![w] = r] /\ kind' = kind
  BY RequestFields DEF Copy, TypeInv, TypeOK, Request
<1>0. intact' \in [Workers -> SUBSET Managed(kind)'] BY DisturbType DEF Copy, TypeInv, TypeOK
<1> HIDE DEF pc, f, d
<1>6. r \in Request BY <1>2, <1>4, RequestFields DEF Request
<1>7. Serves(kind, r)
  <2>1. r.pc = pc /\ r.p = req[w].p /\ r.todo = Tail(req[w].todo) /\ r.dir = req[w].dir
    BY RequestFields DEF Request
  <2>2. req[w].dir \in Seconds BY <1>1 DEF d
  <2> QED BY <2>1, <2>2, <1>1, <1>2, <1>4 DEF Serves
<1>8. req' \in [Workers -> Request] /\ ServingInv' BY <1>5, <1>6, <1>7, OneRequest
<1> QED BY <1>0, <1>3, <1>8 DEF Copy, TypeInv, TypeOK
LEMMA InPending ==
  ASSUME NEW f \in Files, NEW c \in FileOf(f)
  PROVE  <<f, c>> \in Pending
BY DEF Pending

LEMMA DraftType ==
  ASSUME TypeInv, NEW w \in Workers, req[w].pc \in Replacing, NEW ws \in Seq(Pending), ws # <<>>,
         NEW then \in {"edit", "finish"}, then = "edit" => Row(w).source = "gateway",
         Draft(w, ws, then), kind' = kind
  PROVE  req' \in [Workers -> Request] /\ ServingInv'
<1> DEFINE r == [req[w] EXCEPT !.draft = ws, !.pc = "write", !.then = then]
<1>1. req' = [req EXCEPT ![w] = r] BY DEF Draft, TypeInv, TypeOK, Request
<1>2. r \in Request BY RequestFields DEF Request, Pcs
<1>3. r.draft = ws /\ r.pc = "write" /\ r.then = then /\ r.p = req[w].p /\ r.dir = req[w].dir
  BY RequestFields DEF Request
<1>4. req[w].p \in Providers /\ req[w].dir \in Seconds BY RequestFields DEF Serves, Replacing
<1>5. Serves(kind, r) BY <1>3, <1>4 DEF Serves, Row
<1> QED BY <1>1, <1>2, <1>5, OneRequest

LEMMA GotoType ==
  ASSUME TypeInv, NEW w \in Workers, req[w].pc \in Replacing, NEW pc \in {"edit", "seed", "finish"},
         Row(w).source = "gateway", Goto(w, pc), kind' = kind
  PROVE  req' \in [Workers -> Request] /\ ServingInv'
<1> DEFINE r == [req[w] EXCEPT !.pc = pc]
<1>1. req' = [req EXCEPT ![w] = r] BY DEF Goto, TypeInv, TypeOK, Request
<1>2. r \in Request BY RequestFields DEF Request, Pcs
<1>3. r.pc = pc /\ r.p = req[w].p /\ r.dir = req[w].dir BY RequestFields DEF Request
<1>4. req[w].p \in Providers /\ req[w].dir \in Seconds BY RequestFields DEF Serves, Replacing
<1>5. Serves(kind, r) BY <1>3, <1>4 DEF Serves, Row
<1> QED BY <1>1, <1>2, <1>5, OneRequest

LEMMA DiskFiles ==
  ASSUME TypeInv
  PROVE  disk["main"] \in Opt(Doc) /\ disk["cred"] \in Opt(Cred)
BY FileIn DEF TypeInv, TypeOK, Files, FileOf

LEMMA TypeApplyGateway ==
  ASSUME TypeInv, NEW w \in Workers, ApplyGateway(w)
  PROVE  TypeInv'
<1>1. req[w].pc \in Replacing /\ Row(w).source = "gateway" /\ kind' = kind BY DEF ApplyGateway, Replacing
<1>2. Row(w) \in Declared /\ Row(w).conn \in Conns BY <1>1, RowType DEF Replacing
<1>3. EditedAuth(disk["cred"], Row(w)) \in FileOf("cred") BY <1>2, AuthType, DiskFiles DEF FileOf, Opt
<1>4. << <<"cred", EditedAuth(disk["cred"], Row(w))>> >> \in Seq(Pending)
  BY <1>3, InPending, "cred" \in Files DEF Files
<1>5. << <<"cred", EditedAuth(disk["cred"], Row(w))>> >> # <<>> OBVIOUS
<1>6. CASE kind = "codex"
  <2>1. Draft(w, << <<"cred", EditedAuth(disk["cred"], Row(w))>> >>, "edit") BY <1>6 DEF ApplyGateway
  <2> QED BY <2>1, <1>1, <1>4, <1>5, DraftType DEF ApplyGateway, TypeInv, TypeOK, Managed, Paths
<1>7. CASE kind # "codex"
  <2>1. Goto(w, "edit") BY <1>7 DEF ApplyGateway
  <2> QED BY <2>1, <1>1, GotoType DEF ApplyGateway, TypeInv, TypeOK, Managed, Paths
<1> QED BY <1>6, <1>7

LEMMA TypeEdit ==
  ASSUME TypeInv, NEW w \in Workers, Edit(w)
  PROVE  TypeInv'
<1>0. req[w].pc = "edit" /\ kind' = kind BY DEF Edit
<1>9. Serves(kind, req[w]) BY RequestFields
<1>8. req[w].pc \in {"edit", "seed"} BY <1>0
<1>7. Decl[req[w].p].source = "gateway" BY <1>8, <1>9 DEF Serves
<1>1. req[w].pc \in Replacing /\ Row(w).source = "gateway" /\ kind' = kind
  BY <1>0, <1>7 DEF Replacing, Row
<1>2. Row(w) \in Declared /\ Row(w).conn \in Conns BY <1>1, RowType DEF Replacing
<1> DEFINE ws == << <<"main", Edited(kind, disk["main"], Row(w))>> >>
<1>3. CASE CanEdit(kind, disk["main"], Row(w))
  <2>1. disk["main"] \in Doc BY <1>3, DiskFiles DEF CanEdit, SupportsEdit, Opt, NoFile
  <2>2. Edited(kind, disk["main"], Row(w)) \in FileOf("main")
    BY <2>1, <1>2, EditedType, RequestFields DEF FileOf, Opt
  <2>3. ws \in Seq(Pending) /\ ws # <<>> BY <2>2, InPending, "main" \in Files DEF Files
  <2>4. Draft(w, ws, "finish") BY <1>3 DEF Edit
  <2> HIDE DEF ws
  <2> QED BY <2>3, <2>4, <1>1, DraftType DEF Edit, TypeInv, TypeOK, Managed, Paths
<1>4. CASE ~CanEdit(kind, disk["main"], Row(w))
  <2>1. Goto(w, "seed") BY <1>4 DEF Edit
  <2> QED BY <2>1, <1>1, GotoType DEF Edit, TypeInv, TypeOK, Managed, Paths
<1> QED BY <1>3, <1>4

LEMMA TypeSeed ==
  ASSUME TypeInv, NEW w \in Workers, Seed(w)
  PROVE  TypeInv'
<1>0. req[w].pc = "seed" /\ kind' = kind BY DEF Seed
<1>9. Serves(kind, req[w]) BY RequestFields
<1>10. req[w].pc \in {"edit", "seed"} BY <1>0
<1>11. Decl[req[w].p].source = "gateway" BY <1>10, <1>9 DEF Serves
<1>1. req[w].pc \in Replacing /\ Row(w).source = "gateway" /\ kind' = kind
  BY <1>0, <1>11 DEF Replacing, Row
<1>2. Row(w) \in Declared /\ Row(w).conn \in Conns BY <1>1, RowType DEF Replacing
<1> DEFINE main == <<"main", Seeded(kind, disk["main"], Row(w))>>
           ws == IF kind = "codex" THEN << <<"cred", KeyOnly(Row(w))>>, main>> ELSE <<main>>
<1>3. Seeded(kind, disk["main"], Row(w)) \in FileOf("main")
  BY <1>2, DiskFiles, SeededType, RequestFields DEF FileOf, Opt
<1>4. KeyOnly(Row(w)) \in FileOf("cred") BY <1>2, AuthType, DiskFiles DEF FileOf, Opt
<1>5. main \in Pending /\ <<"cred", KeyOnly(Row(w))>> \in Pending BY <1>3, <1>4, InPending DEF Files
<1>6. Draft(w, ws, "finish") BY DEF Seed
<1> HIDE DEF main
<1>7. ws \in Seq(Pending) /\ ws # <<>> BY <1>5
<1> HIDE DEF ws
<1> QED BY <1>6, <1>7, <1>1, DraftType DEF Seed, TypeInv, TypeOK, Managed, Paths
\* A request that ends.
LEMMA EndType ==
  ASSUME TypeInv, NEW w \in Workers, req' = [req EXCEPT ![w] = Idle], kind' = kind
  PROVE  req' \in [Workers -> Request] /\ ServingInv'
<1>1. Idle \in Request /\ Serves(kind, Idle) BY IdleType, IdleServes
<1> QED BY <1>1, OneRequest

LEMMA TypeApplyOfficial ==
  ASSUME TypeInv, NEW w \in Workers, ApplyOfficial(w)
  PROVE  TypeInv'
<1> DEFINE p == req[w].p
           d == Prepared(kind, home[p]["main"], Row(w))
           h == [home[p] EXCEPT !["main"] = d]
           ws == StateCopy(kind, h) \o << <<"cred", h["cred"]>>, <<"main", h["main"]>> >>
<1>1. req[w].pc = "apply" /\ kind' = kind BY DEF ApplyOfficial
<1>2. p \in Providers /\ Row(w) \in Declared BY <1>1, RowType
<1>3. home[p] \in FilesType BY <1>2 DEF TypeInv, TypeOK
<1>4. home[p]["main"] \in Opt(Doc) BY <1>3, FileIn DEF Files, FileOf
<1>5. d \in FileOf("main") BY <1>2, <1>4, PreparedType, RequestFields DEF FileOf, Opt
<1> HIDE DEF d
<1>6. h \in FilesType BY <1>3, <1>5, FileExcept DEF Files
<1>7. home' = [home EXCEPT ![p] = h] BY DEF ApplyOfficial, d
<1>8. home' \in [Providers -> FilesType] BY <1>2, <1>6, <1>7 DEF TypeInv, TypeOK
<1>9. IF h["cred"] # NoFile THEN Draft(w, ws, "finish") ELSE req' = [req EXCEPT ![w] = Idle]
  BY DEF ApplyOfficial, d
<1> HIDE DEF h
<1>10. \A f \in Files : <<f, h[f]>> \in Pending BY <1>6, FileIn, InPending
<1>11. <<"cred", h["cred"]>> \in Pending /\ <<"main", h["main"]>> \in Pending
       /\ <<"state", h["state"]>> \in Pending
  BY <1>10 DEF Files
<1>12. StateCopy(kind, h) \in Seq(Pending) BY <1>11 DEF StateCopy
<1>13. << <<"cred", h["cred"]>>, <<"main", h["main"]>> >> \in Seq(Pending) BY <1>11
<1>14. ws \in Seq(Pending) /\ ws # <<>>
  <2> DEFINE a == StateCopy(kind, h)
             b == << <<"cred", h["cred"]>>, <<"main", h["main"]>> >>
  <2>1. a \in Seq(Pending) /\ b \in Seq(Pending) /\ Len(b) = 2 BY <1>12, <1>13
  <2> HIDE DEF a, b
  <2>2. a \o b \in Seq(Pending) /\ Len(a \o b) = Len(a) + Len(b) /\ Len(a) \in Nat
    BY <2>1, ConcatProperties, LenProperties
  <2>3. Len(a \o b) # 0 BY <2>1, <2>2
  <2> QED BY <2>2, <2>3 DEF a, b
<1> HIDE DEF ws
<1>15. req' \in [Workers -> Request] /\ ServingInv'
  <2>1. CASE h["cred"] # NoFile
    <3>1. Draft(w, ws, "finish") BY <2>1, <1>9
    <3>2. req[w].pc \in Replacing BY <1>1 DEF Replacing
    <3> QED BY <3>1, <3>2, <1>1, <1>14, DraftType
  <2>2. CASE h["cred"] = NoFile
    <3>1. req' = [req EXCEPT ![w] = Idle] BY <2>2, <1>9
    <3> QED BY <3>1, <1>1, EndType
  <2> QED BY <2>1, <2>2
<1> QED BY <1>8, <1>15 DEF ApplyOfficial, TypeInv, TypeOK, Managed, Paths

LEMMA TypeWrite ==
  ASSUME TypeInv, NEW w \in Workers, Write(w)
  PROVE  TypeInv'
<1> DEFINE ds == req[w].draft
           pc == IF Len(ds) = 1 THEN req[w].then ELSE "write"
           r == [req[w] EXCEPT !.draft = Tail(ds), !.pc = pc]
<1>1. req[w].pc = "write" /\ kind' = kind BY DEF Write
<1>2. Serves(kind, req[w]) BY RequestFields
<1>3. /\ ds # <<>> /\ ds \in Seq(Pending) /\ req[w].then \in {"edit", "finish"}
      /\ req[w].p \in Providers /\ req[w].dir \in Seconds
      /\ req[w].then = "edit" => Decl[req[w].p].source = "gateway"
  BY <1>1, <1>2, RequestFields DEF Serves, Replacing
<1>4. Head(ds) \in Pending /\ Tail(ds) \in Seq(Pending) /\ (Len(ds) # 1 => Tail(ds) # <<>>)
  <2>1. Head(ds) \in Pending /\ Tail(ds) \in Seq(Pending) /\ Len(Tail(ds)) = Len(ds) - 1 /\ Len(ds) \in Nat
    BY <1>3, HeadTailProperties, LenProperties
  <2>2. Tail(ds) = <<>> => Len(Tail(ds)) = 0 BY EmptySeq
  <2> QED BY <2>1, <2>2
<1>15. PICK f \in Files : \E c \in FileOf(f) : Head(ds) = <<f, c>> BY <1>4 DEF Pending
<1>5. PICK c \in FileOf(f) : Head(ds) = <<f, c>> BY <1>15
<1>6. disk' = [disk EXCEPT ![f] = c]
  <2>1. disk' = [disk EXCEPT ![Head(ds)[1]] = Head(ds)[2]] BY DEF Write
  <2>2. Head(ds)[1] = f /\ Head(ds)[2] = c BY <1>5
  <2> QED BY <2>1, <2>2
<1>7. disk' \in FilesType BY <1>6, FileExcept, RequestFields
<1>8. req' = [req EXCEPT ![w] = r] BY DEF Write, TypeInv, TypeOK, Request
<1>9. pc \in {"edit", "finish", "write"} /\ (pc = "write" => Len(ds) # 1) /\ (pc = "edit" => req[w].then = "edit")
  BY <1>3
<1>10. applied' \in Opt(Providers) BY DEF Write, TypeInv, TypeOK, Opt
<1>11. intact' \in [Workers -> SUBSET Managed(kind)'] BY DisturbType DEF Write, TypeInv, TypeOK
<1> HIDE DEF pc, ds
<1>12. r \in Request BY <1>4, <1>9, RequestFields DEF Request, Pcs
<1>13. Serves(kind, r)
  <2>1. r.pc = pc /\ r.draft = Tail(ds) /\ r.p = req[w].p /\ r.dir = req[w].dir /\ r.then = req[w].then
    BY RequestFields DEF Request
  <2> QED BY <2>1, <1>3, <1>4, <1>9 DEF Serves
<1>14. req' \in [Workers -> Request] /\ ServingInv' BY <1>1, <1>8, <1>12, <1>13, OneRequest
<1> QED BY <1>7, <1>10, <1>11, <1>14 DEF Write, TypeInv, TypeOK

LEMMA TypeFinish ==
  ASSUME TypeInv, NEW w \in Workers, Finish(w)
  PROVE  TypeInv'
<1>1. req[w].p \in Providers BY RowType DEF Finish
<1>2. req' \in [Workers -> Request] /\ ServingInv' BY EndType DEF Finish
<1> QED BY <1>1, <1>2 DEF Finish, TypeInv, TypeOK, Managed, Paths, Opt

LEMMA TypeFail ==
  ASSUME TypeInv, NEW w \in Workers, Fail(w)
  PROVE  TypeInv'
<1>1. req' \in [Workers -> Request] /\ ServingInv' BY EndType DEF Fail
<1> QED BY <1>1 DEF Fail, TypeInv, TypeOK, Managed, Paths

LEMMA TypeCrash ==
  ASSUME TypeInv, Crash
  PROVE  TypeInv'
<1>1. req' \in [Workers -> Request] BY IdleType DEF Crash
<1>2. ServingInv' BY IdleServes DEF Crash, ServingInv
<1> QED BY <1>1, <1>2 DEF Crash, TypeInv, TypeOK, Managed, Paths

LEMMA ForeignFiles ==
  ASSUME TypeInv, ForeignWrite
  PROVE  \E f \in Files : \E c \in FileOf(f) : Foreign(f, c)
<1>1. CASE \E n \in Natives : disk["main"] # NoFile /\ Foreign("main", [disk["main"] EXCEPT !.native = n])
  <2>1. PICK n \in Natives : disk["main"] # NoFile /\ Foreign("main", [disk["main"] EXCEPT !.native = n]) BY <1>1
  <2>2. disk["main"] \in Doc BY <2>1, DiskFiles DEF Opt, NoFile
  <2>3. [disk["main"] EXCEPT !.native = n] \in Doc BY <2>2 DEF Doc, Opt
  <2> QED BY <2>1, <2>3 DEF Files, FileOf, Opt
<1>2. CASE \E l \in Refreshed : disk["cred"] # NoFile /\ Foreign("cred", [disk["cred"] EXCEPT !.login = l])
  <2>1. PICK l \in Refreshed : disk["cred"] # NoFile /\ Foreign("cred", [disk["cred"] EXCEPT !.login = l]) BY <1>2
  <2>2. disk["cred"] \in Cred BY <2>1, DiskFiles DEF Opt, NoFile
  <2>3. [disk["cred"] EXCEPT !.login = l] \in Cred BY <2>2, StartsType DEF Cred, Opt
  <2> QED BY <2>1, <2>3 DEF Files, FileOf, Opt
<1> QED BY <1>1, <1>2 DEF ForeignWrite

LEMMA TypeForeign ==
  ASSUME TypeInv, ForeignWrite
  PROVE  TypeInv'
<1>0. PICK f \in Files : \E c \in FileOf(f) : Foreign(f, c) BY ForeignFiles
<1>1. PICK c \in FileOf(f) : Foreign(f, c) BY <1>0
<1>2. disk' \in FilesType BY <1>1, FileExcept, RequestFields DEF Foreign, TypeInv, TypeOK
<1>3. intact' \in [Workers -> SUBSET Managed(kind)'] BY <1>1, DisturbType DEF Foreign, TypeInv, TypeOK
<1>4. ServingInv' BY <1>1 DEF Foreign, TypeInv, ServingInv
<1> QED BY <1>1, <1>2, <1>3, <1>4 DEF Foreign, TypeInv, TypeOK

LEMMA TypeStutter ==
  ASSUME TypeInv, UNCHANGED vars
  PROVE  TypeInv'
<1>1. ServingInv' BY DEF TypeInv, ServingInv, vars
<1> QED BY <1>1 DEF TypeInv, TypeOK, vars, Managed, Paths

LEMMA TypeNext ==
  ASSUME TypeInv, [Next]_vars
  PROVE  TypeInv'
BY TypeReceive, TypeReadCurrent, TypeReuseDir, TypeMakeDir, TypeCopy, TypeApplyGateway, TypeEdit,
   TypeSeed, TypeApplyOfficial, TypeWrite, TypeFinish, TypeFail, TypeCrash, TypeForeign, TypeStutter
   DEF Next, BackUp, Apply

\* Types, for any providers, requests and contents (manager.go:336-534, 757-812).
THEOREM ConfigTypeCorrect == Spec => []TypeOK
<1>1. Init => TypeInv BY TypeInit
<1>2. TypeInv /\ [Next]_vars => TypeInv' BY TypeNext
<1>3. TypeInv => TypeOK BY DEF TypeInv
<1> QED BY <1>1, <1>2, <1>3, PTL DEF Spec

-----------------------------------------------------------------------------
(* What a backup holds. *)

\* BackupsHold says it of a switch that has its backup.  Before that, what it has
\* read is what is there, and what it has copied so far is in the directory.
Holds(r, i, files, saved) ==
  /\ r.pc = "read" => \A f \in i \ Rest(r.todo) : r.seen[f] = files[f]
  /\ r.pc = "compare" => \A f \in i : r.seen[f] = files[f]
  /\ r.pc = "copy" => \A f \in i \ Rest(r.todo) : files[f] # NoFile => saved[r.dir][f] = files[f]
  /\ r.pc \in Replacing => \A f \in i : files[f] # NoFile => saved[r.dir][f] = files[f]

BackupInv == \A w \in Workers : Holds(req[w], intact[w], disk, dirs)

\* A request that the step does not concern: what is still intact is as it was, on
\* the disk and in its directory.
LEMMA Frame ==
  ASSUME NEW r, NEW s, NEW i, NEW files, NEW saved, Holds(r, i, files, saved),
         s.pc = r.pc, s.todo = r.todo, s.seen = r.seen, s.dir = r.dir,
         NEW j \in SUBSET i, NEW files2, NEW saved2,
         \A f \in j : files2[f] = files[f],
         \A f \in j : saved2[r.dir][f] = saved[r.dir][f]
  PROVE  Holds(s, j, files2, saved2)
BY DEF Holds, Replacing

\* A step of one request.
LEMMA OneHolds ==
  ASSUME TypeInv, BackupInv, NEW w \in Workers, NEW r, req' = [req EXCEPT ![w] = r],
         Holds(r, intact'[w], disk', dirs'),
         \A v \in Workers \ {w} :
           /\ intact'[v] \subseteq intact[v]
           /\ \A f \in intact'[v] : disk'[f] = disk[f] /\ dirs'[req[v].dir][f] = dirs[req[v].dir][f]
  PROVE  BackupInv'
<1>1. req \in [Workers -> Request] BY DEF TypeInv, TypeOK
<1>2. ASSUME NEW v \in Workers
      PROVE  Holds(req'[v], intact'[v], disk', dirs')
  <2>1. CASE v = w BY <2>1, <1>1
  <2>2. CASE v # w
    <3>1. req'[v] = req[v] BY <2>2, <1>1
    <3>2. Holds(req[v], intact[v], disk, dirs) BY DEF BackupInv
    <3>3. v \in Workers \ {w} BY <2>2
    <3>4. intact'[v] \in SUBSET intact[v] BY <3>3
    <3>5. Holds(req[v], intact'[v], disk', dirs') BY <3>2, <3>3, <3>4, Frame
    <3> QED BY <3>1, <3>5
  <2> QED BY <2>1, <2>2
<1> QED BY <1>2 DEF BackupInv

\* A step of one request that changes no file and no backup.
LEMMA QuietHolds ==
  ASSUME TypeInv, BackupInv, NEW w \in Workers, NEW r, req' = [req EXCEPT ![w] = r],
         Holds(r, intact[w], disk, dirs), UNCHANGED <<disk, dirs, intact>>
  PROVE  BackupInv'
BY OneHolds

LEMMA HoldsReceive ==
  ASSUME TypeInv, BackupInv, NEW w \in Workers, NEW p \in Providers, Receive(w, p)
  PROVE  BackupInv'
<1>1. /\ \E a \in BOOLEAN :
           req' = [v \in Workers |->
                     IF v = w THEN [Idle EXCEPT !.pc = "read", !.p = p, !.todo = Paths(kind), !.alone = a]
                     ELSE [req[v] EXCEPT !.alone = req[v].pc = "idle"]]
      /\ intact' = [intact EXCEPT ![w] = Managed(kind)]
      /\ UNCHANGED <<kind, disk, dirs>>
  BY DEF Receive
<1>2. PICK a \in BOOLEAN :
        req' = [v \in Workers |->
                  IF v = w THEN [Idle EXCEPT !.pc = "read", !.p = p, !.todo = Paths(kind), !.alone = a]
                  ELSE [req[v] EXCEPT !.alone = req[v].pc = "idle"]]
  BY <1>1
<1>3. ASSUME NEW v \in Workers
      PROVE  Holds(req'[v], intact'[v], disk', dirs')
  <2>1. CASE v = w
    <3>1. req'[v] = [Idle EXCEPT !.pc = "read", !.p = p, !.todo = Paths(kind), !.alone = a] BY <1>2, <2>1
    <3>2. req'[v].pc = "read" /\ req'[v].todo = Paths(kind) BY <3>1 DEF Idle
    <3>3. intact'[v] = Managed(kind) BY <1>1, <2>1 DEF TypeInv, TypeOK
    <3>4. Rest(Paths(kind)) = Managed(kind) BY RequestFields, PathsAreSuffixes DEF Tools
    <3> QED BY <3>2, <3>3, <3>4 DEF Holds, Replacing
  <2>2. CASE v # w
    <3>1. req'[v] = [req[v] EXCEPT !.alone = req[v].pc = "idle"] /\ req[v] \in Request
      BY <2>2, <1>2 DEF TypeInv, TypeOK
    <3>2. /\ req'[v].pc = req[v].pc /\ req'[v].todo = req[v].todo
          /\ req'[v].seen = req[v].seen /\ req'[v].dir = req[v].dir
      BY <3>1 DEF Request
    <3>3. intact'[v] = intact[v] BY <1>1, <2>2 DEF TypeInv, TypeOK
    <3>4. Holds(req[v], intact[v], disk, dirs) BY DEF BackupInv
    <3>5. intact'[v] \in SUBSET intact[v] /\ disk' = disk /\ dirs' = dirs BY <1>1, <3>3
    <3> QED BY <3>2, <3>4, <3>5, Frame
  <2> QED BY <2>1, <2>2
<1> QED BY <1>3 DEF BackupInv

LEMMA HoldsReadCurrent ==
  ASSUME TypeInv, BackupInv, NEW w \in Workers, ReadCurrent(w)
  PROVE  BackupInv'
<1> DEFINE s == req[w].todo
           f == Head(s)
           pc == IF Len(s) = 1 THEN "compare" ELSE "read"
           seen == [req[w].seen EXCEPT ![f] = disk[f]]
           r == [req[w] EXCEPT !.seen = seen, !.todo = Tail(s), !.pc = pc]
<1>1. req[w].pc = "read" /\ s \in Suffixes(kind) BY RequestFields DEF ReadCurrent, Serves
<1>2. f \in Files /\ Rest(s) = Rest(Tail(s)) \cup {f} /\ (Len(s) = 1 => Rest(Tail(s)) = {})
  BY <1>1, RequestFields, SuffixStep DEF Tools
<1>3. req' = [req EXCEPT ![w] = r] /\ UNCHANGED <<disk, dirs, intact>>
  BY RequestFields DEF ReadCurrent, TypeInv, TypeOK, Request
<1>4. r.pc = pc /\ r.todo = Tail(s) /\ r.seen = seen BY RequestFields DEF Request
<1>5. \A g \in intact[w] \ Rest(Tail(s)) : seen[g] = disk[g]
  <2>1. \A g \in intact[w] \ Rest(s) : req[w].seen[g] = disk[g] BY <1>1 DEF BackupInv, Holds
  <2>2. \A g : g # f => seen[g] = req[w].seen[g] BY RequestFields DEF FilesType
  <2>3. seen[f] = disk[f] BY <1>2, RequestFields DEF FilesType
  <2> QED BY <1>2, <2>1, <2>2, <2>3
<1> HIDE DEF seen, s, f
<1>6. Holds(r, intact[w], disk, dirs)
  <2>1. pc = "compare" => Rest(Tail(s)) = {} BY <1>2
  <2>2. pc \in {"read", "compare"} OBVIOUS
  <2> HIDE DEF pc
  <2> QED BY <1>4, <1>5, <2>1, <2>2 DEF Holds, Replacing
<1> QED BY <1>3, <1>6, QuietHolds

LEMMA HoldsReuseDir ==
  ASSUME TypeInv, BackupInv, NEW w \in Workers, ReuseDir(w)
  PROVE  BackupInv'
<1>1. PICK d \in made :
        /\ Identical(w, d)
        /\ req' = [req EXCEPT ![w] = [req[w] EXCEPT !.dir = d, !.pc = "apply", !.seen = NoFiles]]
  BY DEF ReuseDir, TypeInv, TypeOK, Request
<1> DEFINE r == [req[w] EXCEPT !.dir = d, !.pc = "apply", !.seen = NoFiles]
<1>2. r.pc = "apply" /\ r.dir = d BY RequestFields DEF Request
<1>3. \A f \in intact[w] : req[w].seen[f] = disk[f] BY DEF ReuseDir, BackupInv, Holds
<1>4. \A f \in intact[w] : dirs[d][f] = req[w].seen[f] BY <1>1 DEF Identical, TypeInv, TypeOK
<1>5. Holds(r, intact[w], disk, dirs) BY <1>2, <1>3, <1>4 DEF Holds
<1> QED BY <1>1, <1>5, QuietHolds DEF ReuseDir

LEMMA HoldsMakeDir ==
  ASSUME TypeInv, BackupInv, NEW w \in Workers, MakeDir(w)
  PROVE  BackupInv'
<1>1. PICK now \in Seconds :
        req' = [req EXCEPT ![w] = [req[w] EXCEPT !.dir = now, !.pc = "copy", !.todo = Paths(kind),
                                                 !.seen = NoFiles]]
  BY DEF MakeDir, TypeInv, TypeOK, Request
<1> DEFINE r == [req[w] EXCEPT !.dir = now, !.pc = "copy", !.todo = Paths(kind), !.seen = NoFiles]
<1>2. r.pc = "copy" /\ r.todo = Paths(kind) BY RequestFields DEF Request
<1>3. intact[w] \subseteq Rest(Paths(kind))
  BY RequestFields, PathsAreSuffixes DEF Tools, TypeInv, TypeOK
<1>4. Holds(r, intact[w], disk, dirs) BY <1>2, <1>3 DEF Holds, Replacing
<1> QED BY <1>1, <1>4, QuietHolds DEF MakeDir

LEMMA HoldsCopy ==
  ASSUME TypeInv, BackupInv, NEW w \in Workers, Copy(w)
  PROVE  BackupInv'
<1> DEFINE s == req[w].todo
           f == Head(s)
           d == req[w].dir
           W == IF disk[f] = NoFile THEN {} ELSE {v \in Workers \ {w} : req[v].dir = d}
           pc == IF Len(s) = 1 THEN "apply" ELSE "copy"
           r == [req[w] EXCEPT !.todo = Tail(s), !.pc = pc]
<1>1. req[w].pc = "copy" /\ s \in Suffixes(kind) /\ d \in Seconds BY RequestFields DEF Copy, Serves
<1>2. f \in Files /\ Rest(s) = Rest(Tail(s)) \cup {f} /\ (Len(s) = 1 => Rest(Tail(s)) = {})
  BY <1>1, RequestFields, SuffixStep DEF Tools
<1>3. req' = [req EXCEPT ![w] = r] /\ disk' = disk
  BY RequestFields DEF Copy, TypeInv, TypeOK, Request
<1>4. r.pc = pc /\ r.todo = Tail(s) /\ r.dir = d BY RequestFields DEF Request
<1>5. dirs' = IF disk[f] = NoFile THEN dirs ELSE [dirs EXCEPT ![d] = [dirs[d] EXCEPT ![f] = disk[f]]]
  BY <1>1 DEF Copy, TypeInv, TypeOK
<1>6. \A v \in Workers : intact'[v] = IF v \in W THEN intact[v] \ {f} ELSE intact[v]
  BY DEF Copy, Disturb
<1>7. dirs \in [Seconds -> FilesType] /\ DOMAIN dirs[d] = Files
  BY <1>1 DEF TypeInv, TypeOK, FilesType
<1>8. disk[f] # NoFile => dirs'[d][f] = disk[f] BY <1>1, <1>2, <1>5, <1>7
<1>9. \A e, g : e # d \/ g # f \/ disk[f] = NoFile => dirs'[e][g] = dirs[e][g]
  <2>1. CASE disk[f] = NoFile BY <2>1, <1>5
  <2>2. CASE disk[f] # NoFile
    <3>1. dirs' = [dirs EXCEPT ![d] = [dirs[d] EXCEPT ![f] = disk[f]]] BY <2>2, <1>5
    <3>2. \A e : e # d => dirs'[e] = dirs[e] BY <3>1, <1>7
    <3>3. \A g : g # f => dirs'[d][g] = dirs[d][g] BY <3>1, <1>1, <1>7
    <3> QED BY <2>2, <3>2, <3>3
  <2> QED BY <2>1, <2>2
<1>10. intact'[w] = intact[w] BY <1>6
<1>11. \A g \in intact[w] \ Rest(s) : disk[g] # NoFile => dirs[d][g] = disk[g]
  BY <1>1 DEF BackupInv, Holds
<1>12. \A g \in intact[w] \ Rest(Tail(s)) : disk[g] # NoFile => dirs'[d][g] = disk[g]
  BY <1>2, <1>8, <1>9, <1>11
<1>13. \A v \in Workers \ {w} :
         /\ intact'[v] \subseteq intact[v]
         /\ \A g \in intact'[v] : dirs'[req[v].dir][g] = dirs[req[v].dir][g]
  <2> SUFFICES ASSUME NEW v \in Workers \ {w}
               PROVE  /\ intact'[v] \subseteq intact[v]
                      /\ \A g \in intact'[v] : dirs'[req[v].dir][g] = dirs[req[v].dir][g]
    OBVIOUS
  <2>1. CASE disk[f] = NoFile BY <2>1, <1>6, <1>9
  <2>2. CASE disk[f] # NoFile /\ req[v].dir = d BY <2>2, <1>6, <1>9
  <2>3. CASE disk[f] # NoFile /\ req[v].dir # d BY <2>3, <1>6, <1>9
  <2> QED BY <2>1, <2>2, <2>3
<1>14. Holds(r, intact'[w], disk', dirs')
  <2>1. pc = "apply" => Rest(Tail(s)) = {} BY <1>2
  <2>2. pc \in {"apply", "copy"} OBVIOUS
  <2> HIDE DEF pc, s, f, d, W
  <2> QED BY <1>3, <1>4, <1>10, <1>12, <2>1, <2>2 DEF Holds, Replacing
<1> HIDE DEF s, f, d, W, r
<1> QED BY <1>3, <1>13, <1>14, OneHolds

\* The steps between two writes.
LEMMA HoldsApply ==
  ASSUME TypeInv, BackupInv, NEW w \in Workers, req[w].pc \in Replacing, NEW r,
         r.pc \in Replacing, r.dir = req[w].dir,
         req' = [req EXCEPT ![w] = r], UNCHANGED <<disk, dirs, intact>>
  PROVE  BackupInv'
<1>1. \A f \in intact[w] : disk[f] # NoFile => dirs[req[w].dir][f] = disk[f]
  BY DEF BackupInv, Holds
<1>2. Holds(r, intact[w], disk, dirs) BY <1>1 DEF Holds, Replacing
<1> QED BY <1>2, QuietHolds

LEMMA HoldsDraft ==
  ASSUME TypeInv, BackupInv, NEW w \in Workers, req[w].pc \in Replacing, NEW ws, NEW then,
         Draft(w, ws, then), UNCHANGED <<disk, dirs, intact>>
  PROVE  BackupInv'
<1> DEFINE r == [req[w] EXCEPT !.draft = ws, !.pc = "write", !.then = then]
<1>1. req' = [req EXCEPT ![w] = r] BY DEF Draft, TypeInv, TypeOK, Request
<1>2. r.pc = "write" /\ r.dir = req[w].dir BY RequestFields DEF Request
<1>3. r.pc \in Replacing BY <1>2 DEF Replacing
<1> HIDE DEF r
<1> QED BY <1>1, <1>2, <1>3, HoldsApply

LEMMA HoldsGoto ==
  ASSUME TypeInv, BackupInv, NEW w \in Workers, req[w].pc \in Replacing, NEW pc \in {"edit", "seed"},
         Goto(w, pc), UNCHANGED <<disk, dirs, intact>>
  PROVE  BackupInv'
<1> DEFINE r == [req[w] EXCEPT !.pc = pc]
<1>1. req' = [req EXCEPT ![w] = r] BY DEF Goto, TypeInv, TypeOK, Request
<1>2. r.pc = pc /\ r.dir = req[w].dir BY RequestFields DEF Request
<1>3. r.pc \in Replacing BY <1>2 DEF Replacing
<1> HIDE DEF r
<1> QED BY <1>1, <1>2, <1>3, HoldsApply

LEMMA HoldsEnd ==
  ASSUME TypeInv, BackupInv, NEW w \in Workers, req' = [req EXCEPT ![w] = Idle],
         UNCHANGED <<disk, dirs, intact>>
  PROVE  BackupInv'
<1>1. Holds(Idle, intact[w], disk, dirs) BY DEF Holds, Idle, Replacing
<1> QED BY <1>1, QuietHolds

LEMMA HoldsWrite ==
  ASSUME TypeInv, BackupInv, NEW w \in Workers, Write(w)
  PROVE  BackupInv'
<1> DEFINE f == Head(req[w].draft)[1]
           pc == IF Len(req[w].draft) = 1 THEN req[w].then ELSE "write"
           r == [req[w] EXCEPT !.draft = Tail(req[w].draft), !.pc = pc]
<1>1. req[w].pc = "write" /\ dirs' = dirs BY DEF Write
<1>2. req[w].then \in {"edit", "finish"} BY <1>1, RequestFields DEF Serves
<1>3. req' = [req EXCEPT ![w] = r] BY DEF Write, TypeInv, TypeOK, Request
<1>4. r.pc = pc /\ r.dir = req[w].dir /\ pc \in {"edit", "finish", "write"}
  BY <1>2, RequestFields DEF Request
<1>5. \A v \in Workers : intact'[v] = intact[v] \ {f} BY DEF Write, Disturb
<1>6. \A g : g # f => disk'[g] = disk[g] BY RequestFields DEF Write
<1>7. \A g \in intact[w] : disk[g] # NoFile => dirs[req[w].dir][g] = disk[g]
  BY <1>1 DEF BackupInv, Holds, Replacing
<1> HIDE DEF f, pc
<1>8. Holds(r, intact'[w], disk', dirs')
  BY <1>1, <1>4, <1>5, <1>6, <1>7 DEF Holds, Replacing
<1>9. \A v \in Workers \ {w} :
        /\ intact'[v] \subseteq intact[v]
        /\ \A g \in intact'[v] : disk'[g] = disk[g] /\ dirs'[req[v].dir][g] = dirs[req[v].dir][g]
  BY <1>1, <1>5, <1>6
<1> HIDE DEF r
<1> QED BY <1>3, <1>8, <1>9, OneHolds

LEMMA HoldsForeign ==
  ASSUME TypeInv, BackupInv, ForeignWrite
  PROVE  BackupInv'
<1>0. PICK f \in Files : \E c \in FileOf(f) : Foreign(f, c) BY ForeignFiles
<1>1. PICK c \in FileOf(f) : Foreign(f, c) BY <1>0
<1>2. \A v \in Workers : intact'[v] = intact[v] \ {f} BY <1>1 DEF Foreign, Disturb
<1>3. \A g : g # f => disk'[g] = disk[g] BY <1>1, RequestFields DEF Foreign
<1>4. req' = req /\ dirs' = dirs BY <1>1 DEF Foreign
<1>5. ASSUME NEW v \in Workers
      PROVE  Holds(req'[v], intact'[v], disk', dirs')
  <2>1. Holds(req[v], intact[v], disk, dirs) BY DEF BackupInv
  <2>2. intact'[v] \in SUBSET intact[v] /\ \A g \in intact'[v] : disk'[g] = disk[g] BY <1>2, <1>3
  <2> QED BY <1>4, <2>1, <2>2, Frame
<1> QED BY <1>5 DEF BackupInv

LEMMA HoldsNext ==
  ASSUME TypeInv, BackupInv, [Next]_vars
  PROVE  BackupInv'
<1>1. ASSUME NEW w \in Workers, ApplyGateway(w) PROVE BackupInv'
  <2>1. req[w].pc \in Replacing BY <1>1 DEF ApplyGateway, Replacing
  <2> QED BY <1>1, <2>1, HoldsDraft, HoldsGoto DEF ApplyGateway
<1>2. ASSUME NEW w \in Workers, Edit(w) PROVE BackupInv'
  <2>1. req[w].pc \in Replacing BY <1>2 DEF Edit, Replacing
  <2> QED BY <1>2, <2>1, HoldsDraft, HoldsGoto DEF Edit
<1>3. ASSUME NEW w \in Workers, Seed(w) PROVE BackupInv'
  <2>1. req[w].pc \in Replacing BY <1>3 DEF Seed, Replacing
  <2> QED BY <1>3, <2>1, HoldsDraft DEF Seed
<1>4. ASSUME NEW w \in Workers, ApplyOfficial(w) PROVE BackupInv'
  <2>1. req[w].pc \in Replacing BY <1>4 DEF ApplyOfficial, Replacing
  <2>2. (\E ws : Draft(w, ws, "finish")) \/ req' = [req EXCEPT ![w] = Idle]
    BY <1>4 DEF ApplyOfficial
  <2> QED BY <1>4, <2>1, <2>2, HoldsDraft, HoldsEnd DEF ApplyOfficial
<1>5. ASSUME NEW w \in Workers, Finish(w) \/ Fail(w) PROVE BackupInv'
  BY <1>5, HoldsEnd DEF Finish, Fail
<1>6. ASSUME Crash PROVE BackupInv'
  BY <1>6 DEF Crash, BackupInv, Holds, Idle, Replacing
<1>7. CASE UNCHANGED vars BY <1>7 DEF vars, BackupInv
<1> QED BY <1>1, <1>2, <1>3, <1>4, <1>5, <1>6, <1>7, HoldsReceive, HoldsReadCurrent, HoldsReuseDir,
           HoldsMakeDir, HoldsCopy, HoldsWrite, HoldsForeign DEF Next, BackUp, Apply

\* What a switch is about to replace is in its backup directory, for any files,
\* number of switches at a time and readings of the clock (manager.go:67-107, 757-812).
THEOREM BackupsKept == Spec => []BackupsHold
<1>1. Init => TypeInv /\ BackupInv
  <2>1. Init => BackupInv BY DEF Init, BackupInv, Holds, Idle, Replacing
  <2> QED BY <2>1, TypeInit
<1>2. (TypeInv /\ BackupInv) /\ [Next]_vars => (TypeInv /\ BackupInv)' BY TypeNext, HoldsNext
<1>3. TypeInv /\ BackupInv => BackupsHold BY DEF BackupInv, Holds, BackupsHold
<1> QED BY <1>1, <1>2, <1>3, PTL DEF Spec

-----------------------------------------------------------------------------
(* What the user keeps in the file.  What a switch is about to write to the
   configuration was made from what is still in it, if nobody else wrote it. *)

MadeFrom(r, keep, main) ==
  r.pc = "write" /\ Decl[r.p].source = "gateway" /\ "main" \in keep =>
    \A i \in DOMAIN r.draft :
      r.draft[i][1] = "main" =>
        r.draft[i][2] \in {Edited(kind, main, Decl[r.p]), Seeded(kind, main, Decl[r.p])}

DraftInv == \A w \in Workers : MadeFrom(req[w], intact[w], disk["main"])

LEMMA DraftElsewhere ==
  ASSUME TypeInv, DraftInv, NEW w \in Workers, kind' = kind,
         MadeFrom(req[w], intact[w], disk["main"])',
         \A v \in Workers \ {w} :
           /\ req'[v] = req[v] /\ intact'[v] \subseteq intact[v]
           /\ "main" \in intact'[v] => disk'["main"] = disk["main"]
  PROVE  DraftInv'
<1> SUFFICES ASSUME NEW v \in Workers, v # w
             PROVE  MadeFrom(req[v], intact[v], disk["main"])'
  BY DEF DraftInv
<1>1. MadeFrom(req[v], intact[v], disk["main"]) BY DEF DraftInv
<1> QED BY <1>1 DEF MadeFrom

\* A request that is not about to write.
LEMMA DraftNone ==
  ASSUME TypeInv, DraftInv, NEW w \in Workers, NEW r, req' = [req EXCEPT ![w] = r], r.pc # "write",
         kind' = kind, disk' = disk, \A v \in Workers : intact'[v] \subseteq intact[v]
  PROVE  DraftInv'
<1>1. req'[w] = r /\ \A v \in Workers \ {w} : req'[v] = req[v] BY DEF TypeInv, TypeOK
<1>2. MadeFrom(req[w], intact[w], disk["main"])' BY <1>1 DEF MadeFrom
<1> QED BY <1>1, <1>2, DraftElsewhere

LEMMA DraftGoto ==
  ASSUME TypeInv, DraftInv, NEW w \in Workers, NEW pc, Goto(w, pc), pc # "write",
         UNCHANGED <<kind, disk, intact>>
  PROVE  DraftInv'
<1> DEFINE r == [req[w] EXCEPT !.pc = pc]
<1>1. req' = [req EXCEPT ![w] = r] /\ r.pc = pc
  BY RequestFields DEF Goto, TypeInv, TypeOK, Request
<1> HIDE DEF r
<1> QED BY <1>1, DraftNone

LEMMA DraftMade ==
  ASSUME TypeInv, DraftInv, NEW w \in Workers, req[w].pc # "idle", NEW ws, NEW then,
         Draft(w, ws, then), UNCHANGED <<kind, disk, intact>>,
         Row(w).source = "gateway" =>
           \A i \in DOMAIN ws : ws[i][1] = "main" =>
             ws[i][2] \in {Edited(kind, disk["main"], Row(w)), Seeded(kind, disk["main"], Row(w))}
  PROVE  DraftInv'
<1> DEFINE r == [req[w] EXCEPT !.draft = ws, !.pc = "write", !.then = then]
<1>1. req' = [req EXCEPT ![w] = r] BY DEF Draft, TypeInv, TypeOK, Request
<1>2. r.pc = "write" /\ r.p = req[w].p /\ r.draft = ws BY RequestFields DEF Request
<1> HIDE DEF r
<1>3. req'[w] = r /\ \A v \in Workers \ {w} : req'[v] = req[v] BY <1>1 DEF TypeInv, TypeOK
<1>4. MadeFrom(req[w], intact[w], disk["main"])' BY <1>2, <1>3 DEF MadeFrom, Row
<1> QED BY <1>3, <1>4, DraftElsewhere

LEMMA DraftWrite ==
  ASSUME TypeInv, DraftInv, NEW w \in Workers, Write(w)
  PROVE  DraftInv'
<1> DEFINE s == req[w].draft
           f == Head(s)[1]
           pc == IF Len(s) = 1 THEN req[w].then ELSE "write"
           r == [req[w] EXCEPT !.draft = Tail(s), !.pc = pc]
<1>1. req' = [req EXCEPT ![w] = r] /\ kind' = kind BY DEF Write, TypeInv, TypeOK, Request
<1>2. r.pc = pc /\ r.p = req[w].p /\ r.draft = Tail(s) /\ req[w].pc = "write"
  BY RequestFields DEF Write, Request
<1>3. s \in Seq(Pending) /\ s # <<>>
  BY RequestFields DEF Write, Serves
<1>4. req'[w] = r /\ \A v \in Workers \ {w} : req'[v] = req[v] BY <1>1 DEF TypeInv, TypeOK
<1>5. \A v \in Workers : intact'[v] = intact[v] \ {f} BY DEF Write, Disturb
<1>6. f # "main" => disk'["main"] = disk["main"] BY RequestFields DEF Write
<1>7. \A i \in DOMAIN Tail(s) : i + 1 \in DOMAIN s /\ Tail(s)[i] = s[i + 1]
  BY <1>3, HeadTailProperties
<1> HIDE DEF s, f, pc, r
<1>8. MadeFrom(req[w], intact[w], disk["main"])'
  <2>1. MadeFrom(req[w], intact[w], disk["main"]) BY DEF DraftInv
  <2>2. req[w].draft = s BY DEF s
  <2> SUFFICES ASSUME r.pc = "write", Decl[r.p].source = "gateway", "main" \in intact'[w],
                      NEW i \in DOMAIN Tail(s), Tail(s)[i][1] = "main"
               PROVE  Tail(s)[i][2] \in {Edited(kind, disk'["main"], Decl[r.p]),
                                         Seeded(kind, disk'["main"], Decl[r.p])}
    BY <1>1, <1>2, <1>4 DEF MadeFrom
  <2>3. "main" \in intact[w] /\ disk'["main"] = disk["main"] BY <1>5, <1>6
  <2>4. i + 1 \in DOMAIN s /\ Tail(s)[i] = s[i + 1] BY <1>7
  <2>5. \A j \in DOMAIN s : s[j][1] = "main" =>
          s[j][2] \in {Edited(kind, disk["main"], Decl[r.p]), Seeded(kind, disk["main"], Decl[r.p])}
    BY <1>2, <2>1, <2>2, <2>3 DEF MadeFrom
  <2> QED BY <2>3, <2>4, <2>5
<1>9. \A v \in Workers \ {w} :
        /\ req'[v] = req[v] /\ intact'[v] \subseteq intact[v]
        /\ "main" \in intact'[v] => disk'["main"] = disk["main"]
  BY <1>4, <1>5, <1>6
<1> QED BY <1>1, <1>8, <1>9, DraftElsewhere

LEMMA DraftNext ==
  ASSUME TypeInv, DraftInv, [Next]_vars
  PROVE  DraftInv'
<1>1. ASSUME NEW w \in Workers, NEW p \in Providers, Receive(w, p) PROVE DraftInv'
  <2>1. /\ disk' = disk /\ kind' = kind /\ req'[w].pc = "read"
        /\ \A v \in Workers \ {w} : intact'[v] = intact[v]
    BY <1>1 DEF Receive, Idle, TypeInv, TypeOK
  <2>2. \A v \in Workers \ {w} : req'[v].pc = req[v].pc /\ req'[v].p = req[v].p
                                 /\ req'[v].draft = req[v].draft
    BY <1>1, RequestFields DEF Receive, Request
  <2> QED BY <2>1, <2>2 DEF DraftInv, MadeFrom
<1>2. ASSUME NEW w \in Workers, ReadCurrent(w) PROVE DraftInv'
  <2> DEFINE r == [req[w] EXCEPT !.seen[Head(req[w].todo)] = disk[Head(req[w].todo)],
                                 !.todo = Tail(req[w].todo),
                                 !.pc = IF Len(req[w].todo) = 1 THEN "compare" ELSE "read"]
  <2>1. req' = [req EXCEPT ![w] = r] /\ r.pc # "write"
    BY <1>2, RequestFields DEF ReadCurrent, TypeInv, TypeOK, Request
  <2> HIDE DEF r
  <2> QED BY <1>2, <2>1, DraftNone DEF ReadCurrent
<1>3. ASSUME NEW w \in Workers, ReuseDir(w) PROVE DraftInv'
  <2>1. PICK d \in made :
          req' = [req EXCEPT ![w] = [req[w] EXCEPT !.dir = d, !.pc = "apply", !.seen = NoFiles]]
    BY <1>3 DEF ReuseDir, TypeInv, TypeOK, Request
  <2>2. [req[w] EXCEPT !.dir = d, !.pc = "apply", !.seen = NoFiles].pc # "write"
    BY RequestFields DEF Request
  <2> QED BY <1>3, <2>1, <2>2, DraftNone DEF ReuseDir
<1>4. ASSUME NEW w \in Workers, MakeDir(w) PROVE DraftInv'
  <2>1. PICK now \in Seconds :
          req' = [req EXCEPT ![w] = [req[w] EXCEPT !.dir = now, !.pc = "copy", !.todo = Paths(kind),
                                                   !.seen = NoFiles]]
    BY <1>4 DEF MakeDir, TypeInv, TypeOK, Request
  <2>2. [req[w] EXCEPT !.dir = now, !.pc = "copy", !.todo = Paths(kind), !.seen = NoFiles].pc # "write"
    BY RequestFields DEF Request
  <2> QED BY <1>4, <2>1, <2>2, DraftNone DEF MakeDir
<1>5. ASSUME NEW w \in Workers, Copy(w) PROVE DraftInv'
  <2> DEFINE r == [req[w] EXCEPT !.todo = Tail(req[w].todo),
                                 !.pc = IF Len(req[w].todo) = 1 THEN "apply" ELSE "copy"]
  <2>1. req' = [req EXCEPT ![w] = r] /\ r.pc # "write"
    BY <1>5, RequestFields DEF Copy, TypeInv, TypeOK, Request
  <2>2. \A v \in Workers : intact'[v] \subseteq intact[v]
    BY <1>5 DEF Copy, Disturb
  <2> HIDE DEF r
  <2> QED BY <1>5, <2>1, <2>2, DraftNone DEF Copy
<1>6. ASSUME NEW w \in Workers, ApplyGateway(w) PROVE DraftInv'
  <2>1. req[w].pc # "idle" /\ UNCHANGED <<kind, disk, intact>>
    BY <1>6 DEF ApplyGateway
  <2>2. CASE Draft(w, << <<"cred", EditedAuth(disk["cred"], Row(w))>> >>, "edit")
    BY <2>1, <2>2, DraftMade
  <2> QED BY <1>6, <2>1, <2>2, DraftGoto DEF ApplyGateway
<1>7. ASSUME NEW w \in Workers, Edit(w) PROVE DraftInv'
  <2>1. req[w].pc # "idle" /\ UNCHANGED <<kind, disk, intact>>
    BY <1>7 DEF Edit
  <2>2. CASE Draft(w, << <<"main", Edited(kind, disk["main"], Row(w))>> >>, "finish")
    BY <2>1, <2>2, DraftMade
  <2> QED BY <1>7, <2>1, <2>2, DraftGoto DEF Edit
<1>8. ASSUME NEW w \in Workers, Seed(w) PROVE DraftInv'
  <2>1. req[w].pc # "idle" /\ UNCHANGED <<kind, disk, intact>>
    BY <1>8 DEF Seed
  <2> DEFINE main == <<"main", Seeded(kind, disk["main"], Row(w))>>
             ws == IF kind = "codex" THEN << <<"cred", KeyOnly(Row(w))>>, main>> ELSE <<main>>
  <2>2. Draft(w, ws, "finish") BY <1>8 DEF Seed
  <2>3. \A i \in DOMAIN ws : ws[i][1] = "main" => ws[i] = main OBVIOUS
  <2>4. main[2] = Seeded(kind, disk["main"], Row(w)) OBVIOUS
  <2> HIDE DEF ws, main
  <2> QED BY <2>1, <2>2, <2>3, <2>4, DraftMade
<1>9. ASSUME NEW w \in Workers, ApplyOfficial(w) PROVE DraftInv'
  <2>1. req[w].pc # "idle" /\ Row(w).source = "official" /\ UNCHANGED <<kind, disk, intact>>
    BY <1>9 DEF ApplyOfficial
  <2>2. CASE \E ws : Draft(w, ws, "finish")
    BY <2>1, <2>2, DraftMade
  <2>3. CASE req' = [req EXCEPT ![w] = Idle]
    <3>1. Idle.pc # "write" BY DEF Idle
    <3>2. \A v \in Workers : intact'[v] \subseteq intact[v] BY <2>1
    <3> QED BY <2>1, <2>3, <3>1, <3>2, DraftNone
  <2> QED BY <1>9, <2>2, <2>3 DEF ApplyOfficial
<1>10. ASSUME NEW w \in Workers, Finish(w) \/ Fail(w) PROVE DraftInv'
  BY <1>10, DraftNone DEF Finish, Fail, Idle
<1>11. CASE Crash BY <1>11 DEF Crash, DraftInv, MadeFrom, Idle
<1>12. CASE ForeignWrite
  <2>0. PICK f \in Files : \E c \in FileOf(f) : Foreign(f, c) BY <1>12, ForeignFiles
  <2>1. PICK c \in FileOf(f) : Foreign(f, c) BY <2>0
  <2>2. \A v \in Workers : intact'[v] = intact[v] \ {f} BY <2>1 DEF Foreign, Disturb
  <2>3. f # "main" => disk'["main"] = disk["main"] BY <2>1, RequestFields DEF Foreign
  <2>4. req' = req /\ kind' = kind BY <2>1 DEF Foreign
  <2> QED BY <2>2, <2>3, <2>4 DEF DraftInv, MadeFrom
<1>13. CASE UNCHANGED vars BY <1>13 DEF vars, DraftInv, MadeFrom
<1> QED BY <1>1, <1>2, <1>3, <1>4, <1>5, <1>6, <1>7, <1>8, <1>9, <1>10, <1>11, <1>12, <1>13, DraftWrite
    DEF Next, BackUp, Apply

\* Whichever way a gateway goes into a file, the user's part of it stays.
LEMMA NativeStays ==
  ASSUME NEW m \in Doc, NEW r \in Declared, NEW k \in Tools, r.conn \in Conns,
         NEW d \in {Edited(k, m, r), Seeded(k, m, r)}
  PROVE  d.native = m.native /\ d.nested \in {m.nested, r.model}
<1>1. m # NoFile BY NoFileIsNone DEF NoFile
<1>2. Found(m) = m BY <1>1 DEF Found
<1>3. Edited(k, m, r).native = m.native /\ Seeded(k, m, r).native = m.native
  BY <1>2 DEF Edited, Seeded, Doc
<1>4. Seeded(k, m, r).nested = m.nested
  BY <1>2 DEF Seeded, Doc
<1>5. Edited(k, m, r).nested \in {m.nested, r.model}
  BY DEF Edited, Doc, Into, Over
<1> QED BY <1>3, <1>4, <1>5

\* Only a write takes the first entry off what is to be written.
LEMMA OnlyWrites ==
  ASSUME TypeInv, [Next]_vars, NEW w \in Workers, req[w].pc = "write",
         req'[w].draft # req[w].draft, req'[w].pc # "idle"
  PROVE  Write(w)
<1>0. req \in [Workers -> Request] BY DEF TypeInv, TypeOK
<1>1. ASSUME NEW v \in Workers, NEW p \in Providers, Receive(v, p) PROVE FALSE
  <2>1. v # w BY <1>1 DEF Receive
  <2>2. req'[w] = [req[w] EXCEPT !.alone = req[w].pc = "idle"] BY <1>1, <2>1 DEF Receive
  <2>3. req'[w].draft = req[w].draft BY <2>2, RequestFields DEF Request
  <2> QED BY <2>3
<1>2. ASSUME NEW v \in Workers,
             \/ ReadCurrent(v) \/ ReuseDir(v) \/ MakeDir(v) \/ Copy(v) \/ ApplyGateway(v) \/ Edit(v)
             \/ Seed(v) \/ ApplyOfficial(v) \/ Finish(v)
      PROVE  FALSE
  <2>1. v # w
    BY <1>2 DEF ReadCurrent, ReuseDir, MakeDir, Copy, ApplyGateway, Edit, Seed, ApplyOfficial, Finish
  <2>2. CASE ReadCurrent(v) BY <1>0, <2>1, <2>2 DEF ReadCurrent
  <2>3. CASE ReuseDir(v) BY <1>0, <2>1, <2>3 DEF ReuseDir
  <2>4. CASE MakeDir(v) BY <1>0, <2>1, <2>4 DEF MakeDir
  <2>5. CASE Copy(v) BY <1>0, <2>1, <2>5 DEF Copy
  <2>6. CASE ApplyGateway(v) BY <1>0, <2>1, <2>6 DEF ApplyGateway, Draft, Goto
  <2>7. CASE Edit(v) BY <1>0, <2>1, <2>7 DEF Edit, Draft, Goto
  <2>8. CASE Seed(v) BY <1>0, <2>1, <2>8 DEF Seed, Draft
  <2>9. CASE ApplyOfficial(v) BY <1>0, <2>1, <2>9 DEF ApplyOfficial, Draft
  <2>10. CASE Finish(v) BY <1>0, <2>1, <2>10 DEF Finish
  <2> QED BY <1>2, <2>2, <2>3, <2>4, <2>5, <2>6, <2>7, <2>8, <2>9, <2>10
<1>3. ASSUME NEW v \in Workers, Fail(v) PROVE FALSE
  <2>1. req' = [req EXCEPT ![v] = Idle] BY <1>3 DEF Fail
  <2>2. req'[w] = req[w] \/ req'[w] = Idle BY <1>0, <2>1
  <2> QED BY <2>2 DEF Idle
<1>4. ASSUME NEW v \in Workers, Write(v) PROVE v = w
  <2>1. v # w => req'[w] = req[w] BY <1>0, <1>4 DEF Write
  <2> QED BY <2>1
<1>5. CASE Crash BY <1>5 DEF Crash, Idle
<1>6. CASE ForeignWrite BY <1>6 DEF ForeignWrite, Foreign
<1>7. CASE UNCHANGED vars BY <1>7 DEF vars
<1> QED BY <1>1, <1>2, <1>3, <1>4, <1>5, <1>6, <1>7 DEF Next, BackUp, Apply

LEMMA WritingStep ==
  ASSUME TypeInv, [Next]_vars, NEW w \in Workers, Writes(w)
  PROVE  Write(w) /\ 1 \in DOMAIN req[w].draft /\ Head(req[w].draft) = req[w].draft[1]
<1> DEFINE s == req[w].draft
<1>1. s \in Seq(Pending) /\ s # <<>> /\ req[w].pc = "write" /\ req'[w].pc # "idle"
      /\ req'[w].draft = Tail(s)
  BY RequestFields DEF Writes, Serves
<1>2. Tail(s) # s /\ 1 \in DOMAIN s /\ Head(s) = s[1]
  <2> HIDE DEF s
  <2>1. Len(s) \in Nat /\ Len(Tail(s)) = Len(s) - 1 BY <1>1, HeadTailProperties
  <2>2. Tail(s) # s
    <3>1. \A n \in Nat : n - 1 # n OBVIOUS
    <3>2. Len(Tail(s)) # Len(s) BY <2>1, <3>1, Zenon
    <3> QED BY <3>2, Zenon
  <2>3. 1 \in DOMAIN s /\ Head(s) = s[1] BY <1>1
  <2> QED BY <2>2, <2>3
<1> QED BY <1>1, <1>2, OnlyWrites

\* For any files, rows and number of switches at a time: a gateway leaves what the
\* user keeps in the configuration as it was when the switch wrote it, unless
\* somebody else has written the file since the switch began.
THEOREM NativeAlwaysKept == Spec => NativeKept
<1> DEFINE A == \A w \in Workers :
                  /\ Writes(w) /\ "main" \in intact[w]
                  /\ Head(req[w].draft)[1] = "main" /\ disk["main"] # NoFile
                  /\ Row(w).source = "gateway"
                  => /\ disk'["main"].native = disk["main"].native
                     /\ disk'["main"].nested \in {disk["main"].nested, Row(w).model}
<1>1. Init => TypeInv /\ DraftInv
  <2>1. Init => DraftInv BY DEF Init, DraftInv, MadeFrom, Idle
  <2> QED BY <2>1, TypeInit
<1>2. (TypeInv /\ DraftInv) /\ [Next]_vars => (TypeInv /\ DraftInv)' BY TypeNext, DraftNext
<1>3. (TypeInv /\ DraftInv) /\ [Next]_vars => A
  <2> SUFFICES ASSUME TypeInv, DraftInv, [Next]_vars, NEW w \in Workers, Writes(w), "main" \in intact[w],
                      Head(req[w].draft)[1] = "main", disk["main"] # NoFile,
                      Row(w).source = "gateway"
               PROVE  /\ disk'["main"].native = disk["main"].native
                      /\ disk'["main"].nested \in {disk["main"].nested, Row(w).model}
    OBVIOUS
  <2> DEFINE s == req[w].draft
  <2>1. req[w].pc = "write" BY DEF Writes
  <2>2. 1 \in DOMAIN s /\ Head(s) = s[1] BY WritingStep
  <2>3. Write(w) BY WritingStep
  <2>4. disk'["main"] = s[1][2]
    BY <2>2, <2>3, RequestFields DEF Write, Files
  <2>5. s[1][2] \in {Edited(kind, disk["main"], Row(w)), Seeded(kind, disk["main"], Row(w))}
    BY <2>1, <2>2 DEF DraftInv, MadeFrom, Row
  <2>6. disk["main"] \in Doc
    BY RequestFields, FileIn DEF Files, FileOf, Opt, NoFile
  <2>7. Row(w) \in Declared /\ Row(w).conn \in Conns
    BY <2>1, RowType
  <2> QED BY <2>4, <2>5, <2>6, <2>7, NativeStays, RequestFields
<1>4. Spec => [][A]_vars
  BY <1>1, <1>2, <1>3, PTL DEF Spec
<1> QED BY <1>4 DEF NativeKept

-----------------------------------------------------------------------------
(* Applying a gateway twice. *)

\* A gateway's row whose key has no "$", and a document with no nested field of an
\* edited name.
PlainRow(m, r) ==
  /\ r.conn \in Conns /\ Expanded[r.conn] = r.conn
  /\ m # NoFile => m.nested = None \/ r.model = None

LEMMA EditTwice ==
  ASSUME NEW k \in Tools, NEW d \in Doc, NEW r \in Declared, r.conn \in Conns, CanEdit(k, d, r)
  PROVE  /\ CanEdit(k, Edited(k, d, r), r)
         /\ Edited(k, Edited(k, d, r), r) = Edited(k, d, r)
<1> DEFINE e == Edited(k, d, r)
           c == IF k = "claude" THEN Expanded[r.conn] ELSE r.conn
<1>1. e \in Doc BY EditedType
<1>2. /\ e.conn = c /\ e.route = IF k = "codex" THEN "custom" ELSE d.route
      /\ e.store = IF k = "codex" THEN None ELSE d.store
      /\ e.model = Into(r.model, d.model) /\ e.guard = Into(r.guard, d.guard)
      /\ e.nested = IF k = "claude" THEN Into(r.model, d.nested) ELSE d.nested
  BY DEF Edited, Doc
<1>3. /\ Into(r.model, e.model) = e.model /\ Into(r.guard, e.guard) = e.guard
      /\ k = "claude" => Into(r.model, e.nested) = e.nested
  BY <1>2 DEF Into, Over
<1>4. c \in Conns BY ExpandedType
<1>5. e.conn # None /\ e # NoFile /\ (k = "codex" => e.route # None)
  BY <1>1, <1>2, <1>4, NoFileIsNone DEF NoFile
<1>6. k = "codex" => r.guard = None \/ e.guard # None
  BY <1>2 DEF CanEdit, Into, Over
<1>7. CanEdit(k, e, r) BY <1>5, <1>6 DEF CanEdit, SupportsEdit
<1>8. Edited(k, e, r) = e
  <2> DEFINE n == IF k = "claude" THEN Into(r.model, e.nested) ELSE e.nested
             t == IF k = "codex" THEN "custom" ELSE e.route
             o == IF k = "codex" THEN None ELSE e.store
  <2>1. Edited(k, e, r) = [e EXCEPT !.conn = c, !.route = t, !.store = o,
                              !.model = e.model, !.guard = e.guard, !.nested = n]
    BY <1>3 DEF Edited
  <2>2. c = e.conn /\ t = e.route /\ o = e.store /\ n = e.nested
    BY <1>2, <1>3
  <2> HIDE DEF e, c, t, o, n
  <2> QED BY <1>1, <2>1, <2>2 DEF Doc
<1> QED BY <1>7, <1>8

LEMMA SeedThenEdit ==
  ASSUME NEW k \in Tools, NEW m \in Opt(Doc), NEW r \in Declared, PlainRow(m, r)
  PROVE  /\ CanEdit(k, Seeded(k, m, r), r)
         /\ Edited(k, Seeded(k, m, r), r) = Seeded(k, m, r)
<1> DEFINE s == Seeded(k, m, r)
           d == Found(m)
<1>1. s \in Doc /\ d \in Doc BY SeededType, FoundType DEF PlainRow
<1>2. /\ s.conn = r.conn /\ s.route = IF k = "codex" THEN "custom" ELSE d.route
      /\ s.store = IF k = "codex" THEN None ELSE d.store
      /\ s.model = Over(r.model, d.model) /\ s.guard = Over(r.guard, d.guard)
      /\ s.nested = d.nested
  BY <1>1 DEF Seeded, Doc
<1>3. d.nested = None \/ r.model = None BY DEF PlainRow, Found, Empty
<1>4. /\ Into(r.model, s.model) = s.model /\ Into(r.guard, s.guard) = s.guard
      /\ Into(r.model, s.nested) = s.nested
  BY <1>2, <1>3 DEF Into, Over
<1>5. s.conn # None /\ s # NoFile /\ (k = "codex" => s.route # None)
  BY <1>1, <1>2, NoFileIsNone DEF NoFile, PlainRow
<1>6. r.guard = None \/ s.guard # None BY <1>2 DEF Over
<1>7. CanEdit(k, s, r) BY <1>5, <1>6 DEF CanEdit, SupportsEdit
<1>8. Edited(k, s, r) = s
  <2> DEFINE c == IF k = "claude" THEN Expanded[r.conn] ELSE r.conn
             n == IF k = "claude" THEN Into(r.model, s.nested) ELSE s.nested
             t == IF k = "codex" THEN "custom" ELSE s.route
             o == IF k = "codex" THEN None ELSE s.store
  <2>1. Edited(k, s, r) = [s EXCEPT !.conn = c, !.route = t, !.store = o,
                              !.model = s.model, !.guard = s.guard, !.nested = n]
    BY <1>4 DEF Edited
  <2>2. c = s.conn /\ t = s.route /\ o = s.store /\ n = s.nested
    BY <1>2, <1>4 DEF PlainRow
  <2> HIDE DEF s, c, t, o, n
  <2> QED BY <1>1, <2>1, <2>2 DEF Doc
<1> QED BY <1>7, <1>8

\* A gateway applied to the files it left changes neither of them, whichever of the
\* two ways it went the first time: what seeding writes the edit finds, and leaves
\* (manager.go:336-398, 404-448, 478-517, 1222-1299).
THEOREM ApplyTwice ==
  ASSUME NEW k \in {"claude", "codex"}, NEW m \in Opt(Doc), NEW a \in Opt(Cred), NEW r \in Declared,
         PlainRow(m, r)
  PROVE  LET main == AppliedMain(k, m, r)
             cred == AppliedCred(k, m, a, r)
         IN /\ AppliedMain(k, main, r) = main
            /\ AppliedCred(k, main, cred, r) = cred
<1> DEFINE main == AppliedMain(k, m, r)
           cred == AppliedCred(k, m, a, r)
<1>1. CanEdit(k, m, r) => m \in Doc BY DEF CanEdit, SupportsEdit, Opt, NoFile
<1>2. CanEdit(k, main, r) /\ Edited(k, main, r) = main
  BY <1>1, EditTwice, SeedThenEdit DEF AppliedMain, PlainRow, Tools
<1>3. AppliedMain(k, main, r) = main BY <1>2 DEF AppliedMain
<1>4. AppliedCred(k, main, cred, r) = cred
  <2>1. CASE k = "claude" BY <2>1 DEF AppliedCred
  <2>2. CASE k = "codex"
    <3>1. cred = EditedAuth(a, r) \/ cred = KeyOnly(r) BY <2>2 DEF AppliedCred
    <3>2. cred \in Cred /\ cred.key = r.conn
      BY <3>1, AuthType DEF PlainRow, EditedAuth, KeyOnly, Cred, Opt, NoFile
    <3>3. EditedAuth(cred, r) = [cred EXCEPT !.key = r.conn]
      BY <3>2, NoFileIsNone DEF PlainRow, EditedAuth, NoFile
    <3>4. AppliedCred(k, main, cred, r) = EditedAuth(cred, r) BY <2>2, <1>2 DEF AppliedCred
    <3> HIDE DEF cred
    <3> QED BY <3>2, <3>3, <3>4 DEF Cred
  <2> QED BY <2>1, <2>2
<1> QED BY <1>3, <1>4

-----------------------------------------------------------------------------
(* The provider in force.  A switch that is served alone brings its files there
   (WayInv), whatever it finds; then they say what its row says, and an edit for
   the same gateway leaves them (AppliedInv); so what a second switch to that
   gateway is about to write is there already (AgainInv). *)

Gate(r) == r.source = "gateway" /\ Expanded[r.conn] = r.conn
PlainDoc(m, r) == m # NoFile => m.nested = None \/ r.model = None
FixedDoc(k, m, r) == m # NoFile /\ CanEdit(k, m, r) /\ Edited(k, m, r) = m
GoodDoc(k, m, r) == Says(k, m, r) /\ (Gate(r) /\ PlainDoc(m, r) => FixedDoc(k, m, r))
GoodDraft(k, e, r, own) ==
  /\ e[1] \in Files
  /\ e[1] = "cred" => Unlocks(k, e[2], r, own)
  /\ e[1] = "main" => GoodDoc(k, e[2], r)

\* How far a switch that is served alone has brought its files.
OnWay(k, q, files, r, own) ==
  q.alone =>
    /\ q.pc = "write" =>
         /\ \A i \in DOMAIN q.draft : GoodDraft(k, q.draft[i], r, own)
         /\ (\A i \in DOMAIN q.draft : q.draft[i][1] # "cred") => Unlocks(k, files["cred"], r, own)
         /\ q.then = "finish" => q.draft[Len(q.draft)][1] = "main"
    /\ q.pc \in {"edit", "seed", "finish"} => Unlocks(k, files["cred"], r, own)
    /\ q.pc = "finish" => GoodDoc(k, files["main"], r)

\* A switch to the provider p that is in force.
Repeats(q, p, keep, files) ==
  q.p = p /\ p # None /\ Gate(Decl[p]) /\ PlainDoc(files["main"], Decl[p]) =>
    /\ q.pc # "seed"
    /\ q.pc = "write" =>
         \A i \in DOMAIN q.draft : q.draft[i][1] \in keep => q.draft[i][2] = files[q.draft[i][1]]

\* The credentials in the private home of an account: no switch changes them.
Own(p) == home[p]["cred"]

AloneInv ==
  \A w \in Workers : req[w].alone /\ req[w].pc # "idle" =>
    \A v \in Workers \ {w} : req[v].pc = "idle"
WayInv ==
  \A w \in Workers : req[w].pc # "idle" => OnWay(kind, req[w], disk, Row(w), Own(req[w].p))
AppliedInv ==
  applied # None =>
    GoodDoc(kind, disk["main"], Decl[applied]) /\ Unlocks(kind, disk["cred"], Decl[applied], Own(applied))
AgainInv == \A w \in Workers : Repeats(req[w], applied, intact[w], disk)

StableInv == AloneInv /\ WayInv /\ AppliedInv /\ AgainInv

LEMMA KeyMade ==
  ASSUME NEW k \in Tools, NEW a \in Opt(Cred), NEW r \in Declared, r.conn \in Conns,
         r.source = "gateway", NEW own
  PROVE  /\ Unlocks(k, EditedAuth(a, r), r, own) /\ Unlocks(k, KeyOnly(r), r, own)
         /\ k = "codex" /\ Gate(r) /\ Unlocks(k, a, r, own) => EditedAuth(a, r) = a
<1>1. EditedAuth(a, r) \in Cred /\ KeyOnly(r) \in Cred BY AuthType
<1>2. EditedAuth(a, r) # NoFile /\ KeyOnly(r) # NoFile BY <1>1, NoFileIsNone DEF NoFile
<1>3. EditedAuth(a, r).key \in {r.conn, Expanded[r.conn]} /\ KeyOnly(r).key = r.conn
  BY DEF EditedAuth, KeyOnly, Cred, Opt, NoFile
<1>4. ASSUME a # NoFile, a.key = r.conn, Gate(r) PROVE EditedAuth(a, r) = a
  <2>1. a \in Cred /\ a.key # None BY <1>4, NoFileIsNone DEF Opt, NoFile
  <2>2. EditedAuth(a, r) = [a EXCEPT !.key = r.conn] BY <1>4, <2>1 DEF EditedAuth, Gate
  <2> QED BY <1>4, <2>1, <2>2 DEF Cred
<1>5. Gate(r) => {r.conn, Expanded[r.conn]} = {r.conn} BY DEF Gate
<1> QED BY <1>2, <1>3, <1>4, <1>5 DEF Unlocks

\* What an edit, and what seeding, makes of a document says what the row says.
LEMMA EditedSays ==
  ASSUME NEW k \in Tools, NEW m \in Doc, NEW r \in Declared, r.conn \in Conns,
         r.source = "gateway", CanEdit(k, m, r)
  PROVE  Says(k, Edited(k, m, r), r)
<1> DEFINE e == Edited(k, m, r)
<1>6. \A x, y : Sources(r, x, y) = x BY DEF Sources
<1>1. e # NoFile BY EditedType, NoFileIsNone DEF NoFile
<1>2. /\ e.conn \in {r.conn, Expanded[r.conn]}
      /\ e.model = Into(r.model, m.model) /\ e.guard = Into(r.guard, m.guard)
      /\ k = "codex" => e.route = "custom" /\ e.store = None
  BY DEF Edited, Doc
<1>3. r.model # None => e.model \in {r.model, None} BY <1>2 DEF Into, Over
<1>4. r.guard # None => e.guard \in {r.guard, None} BY <1>2 DEF Into, Over
<1>5. k = "codex" /\ r.guard # None => e.guard = r.guard BY <1>2 DEF CanEdit, Into, Over
<1>7. k = "claude" \/ k = "codex" BY DEF Tools
<1>8. r.guard # None => e.guard \in {r.guard} \cup IF k = "claude" THEN {None} ELSE {}
  BY <1>4, <1>5, <1>7
<1> SUFFICES Says(k, e, r) OBVIOUS
<1> HIDE DEF e
<1> QED BY <1>1, <1>2, <1>3, <1>6, <1>8 DEF Says

LEMMA SeededSays ==
  ASSUME NEW k \in Tools, NEW m \in Opt(Doc), NEW r \in Declared, r.conn \in Conns,
         r.source = "gateway"
  PROVE  Says(k, Seeded(k, m, r), r)
<1> DEFINE e == Seeded(k, m, r)
<1>5. \A x, y : Sources(r, x, y) = x BY DEF Sources
<1>1. e # NoFile BY SeededType, NoFileIsNone DEF NoFile
<1>2. Found(m) \in Doc BY FoundType
<1>3. /\ e.conn = r.conn
      /\ e.model = Over(r.model, Found(m).model) /\ e.guard = Over(r.guard, Found(m).guard)
      /\ k = "codex" => e.route = "custom" /\ e.store = None
  BY <1>2 DEF Seeded, Doc
<1>4. (r.model # None => e.model = r.model) /\ (r.guard # None => e.guard = r.guard)
  BY <1>3 DEF Over
<1> SUFFICES Says(k, e, r) OBVIOUS
<1> HIDE DEF e
<1> QED BY <1>1, <1>3, <1>4, <1>5 DEF Says

LEMMA PreparedSays ==
  ASSUME NEW k \in Tools, NEW m \in Opt(Doc), NEW r \in Declared, r.source = "official"
  PROVE  Says(k, Prepared(k, m, r), r)
<1> DEFINE e == Prepared(k, m, r)
<1>5. \A x, y : Sources(r, x, y) = y BY DEF Sources
<1>1. e # NoFile BY PreparedType, NoFileIsNone DEF NoFile
<1>2. Found(m) \in Doc BY FoundType
<1>3. /\ e.conn = None
      /\ e.model = Over(r.model, Found(m).model) /\ e.guard = Over(r.guard, Found(m).guard)
      /\ k = "codex" => e.route = "openai" /\ e.store = "file"
  BY <1>2 DEF Prepared, Doc
<1>4. (r.model # None => e.model = r.model) /\ (r.guard # None => e.guard = r.guard)
  BY <1>3 DEF Over
<1> SUFFICES Says(k, e, r) OBVIOUS
<1> HIDE DEF e
<1> QED BY <1>1, <1>3, <1>4, <1>5 DEF Says

LEMMA DocMade ==
  ASSUME NEW k \in Tools, NEW m \in Opt(Doc), NEW r \in Declared, r.conn \in Conns,
         r.source = "gateway"
  PROVE  /\ CanEdit(k, m, r) => GoodDoc(k, Edited(k, m, r), r)
         /\ GoodDoc(k, Seeded(k, m, r), r)
<1>1. ASSUME CanEdit(k, m, r) PROVE FixedDoc(k, Edited(k, m, r), r) /\ Says(k, Edited(k, m, r), r)
  <2>1. m \in Doc BY <1>1 DEF CanEdit, SupportsEdit, Opt, NoFile
  <2>2. Edited(k, m, r) # NoFile BY <2>1, EditedType, NoFileIsNone DEF NoFile
  <2> QED BY <1>1, <2>1, <2>2, EditTwice, EditedSays DEF FixedDoc
<1>2. ASSUME Gate(r), PlainDoc(Seeded(k, m, r), r) PROVE FixedDoc(k, Seeded(k, m, r), r)
  <2>1. Seeded(k, m, r) \in Doc BY SeededType
  <2>2. Seeded(k, m, r) # NoFile BY <2>1, NoFileIsNone DEF NoFile
  <2>3. Found(m) \in Doc BY FoundType
  <2>4. Seeded(k, m, r).nested = Found(m).nested BY <2>3 DEF Seeded, Doc
  <2>5. PlainRow(m, r) BY <1>2, <2>2, <2>4 DEF PlainRow, PlainDoc, Found, Gate
  <2> QED BY <2>2, <2>5, SeedThenEdit DEF FixedDoc
<1> QED BY <1>1, <1>2, SeededSays DEF GoodDoc

\* What the user keeps in the file makes no difference.
LEMMA DocNative ==
  ASSUME NEW k \in Tools, NEW m \in Doc, NEW r \in Declared, NEW n \in Natives, GoodDoc(k, m, r)
  PROVE  GoodDoc(k, [m EXCEPT !.native = n], r)
<1> DEFINE e == [m EXCEPT !.native = n]
<1>1. /\ e.conn = m.conn /\ e.route = m.route /\ e.store = m.store /\ e.model = m.model
      /\ e.guard = m.guard /\ e.modifier = m.modifier /\ e.nested = m.nested /\ e.valid = m.valid
      /\ e.native = n
  BY DEF Doc
<1>2. m # NoFile BY NoFileIsNone DEF NoFile
<1>7. e \in Doc BY DEF Doc, Opt
<1>3. e # NoFile BY <1>7, NoFileIsNone DEF NoFile
<1>4. Gate(r) /\ PlainDoc(e, r) => FixedDoc(k, m, r) BY <1>1, <1>2, <1>3 DEF GoodDoc, PlainDoc
<1>5. ASSUME FixedDoc(k, m, r) PROVE FixedDoc(k, e, r)
  <2>1. CanEdit(k, e, r) BY <1>1, <1>3, <1>5 DEF FixedDoc, CanEdit, SupportsEdit
  <2>2. Edited(k, e, r) = [Edited(k, m, r) EXCEPT !.native = n]
    BY <1>1 DEF Edited, Doc
  <2>3. Edited(k, e, r) = e BY <1>5, <2>2 DEF FixedDoc
  <2> QED BY <1>3, <2>1, <2>3 DEF FixedDoc
<1>6. Says(k, e, r)
  <2>1. Says(k, m, r) BY DEF GoodDoc
  <2> HIDE DEF e
  <2> QED BY <1>1, <1>3, <2>1 DEF Says
<1> QED BY <1>4, <1>5, <1>6 DEF GoodDoc

\* A step that changes one request.
LEMMA OneStable ==
  ASSUME TypeInv, StableInv, NEW w \in Workers, NEW r, req' = [req EXCEPT ![w] = r],
         UNCHANGED <<kind, disk, applied>>, \A v \in Workers : intact'[v] \subseteq intact[v],
         \A p \in Providers : Own(p)' = Own(p),
         r.pc # "idle" =>
           /\ req[w].pc # "idle" /\ r.alone = req[w].alone /\ r.p = req[w].p
           /\ OnWay(kind, r, disk, Row(w), Own(req[w].p)),
         Repeats(r, applied, intact[w], disk)
  PROVE  StableInv'
<1>1. req'[w] = r /\ \A v \in Workers \ {w} : req'[v] = req[v] BY DEF TypeInv, TypeOK
<1>2. AloneInv' BY <1>1 DEF StableInv, AloneInv
<1>3. WayInv'
  <2> SUFFICES ASSUME NEW v \in Workers, req'[v].pc # "idle"
               PROVE  OnWay(kind, req'[v], disk, Decl[req'[v].p], home'[req'[v].p]["cred"])
    BY DEF WayInv, Row, Own
  <2>1. req'[v].p = req[v].p /\ req[v].pc # "idle" BY <1>1
  <2>2. home'[req'[v].p]["cred"] = Own(req[v].p) BY <2>1, RowType DEF Own
  <2>3. CASE v = w BY <1>1, <2>1, <2>2, <2>3 DEF Row
  <2>4. CASE v # w BY <1>1, <2>1, <2>2, <2>4 DEF StableInv, WayInv, Row
  <2> QED BY <2>3, <2>4
<1>4. AppliedInv'
  <2>1. applied # None => home'[applied]["cred"] = Own(applied)
    BY DEF TypeInv, TypeOK, Opt, Own
  <2> QED BY <2>1 DEF StableInv, AppliedInv, Own
<1>5. AgainInv'
  <2> SUFFICES ASSUME NEW v \in Workers
               PROVE  Repeats(req'[v], applied, intact'[v], disk)
    BY DEF AgainInv
  <2>1. Repeats(req'[v], applied, intact[v], disk)
    BY <1>1 DEF StableInv, AgainInv
  <2>2. intact'[v] \subseteq intact[v] OBVIOUS
  <2> QED BY <2>1, <2>2 DEF Repeats
<1> QED BY <1>2, <1>3, <1>4, <1>5 DEF StableInv

\* A request that has nothing to write yet.
LEMMA QuietStable ==
  ASSUME TypeInv, StableInv, NEW w \in Workers, NEW r, req' = [req EXCEPT ![w] = r],
         UNCHANGED <<kind, disk, home, applied>>, \A v \in Workers : intact'[v] \subseteq intact[v],
         req[w].pc # "idle", r.alone = req[w].alone, r.p = req[w].p,
         r.pc \in {"read", "compare", "copy", "apply"}
  PROVE  StableInv'
<1>1. OnWay(kind, r, disk, Row(w), Own(req[w].p)) BY DEF OnWay
<1>2. Repeats(r, applied, intact[w], disk) BY DEF Repeats
<1>3. \A p \in Providers : Own(p)' = Own(p) BY DEF Own
<1> QED BY <1>1, <1>2, <1>3, OneStable

LEMMA EndStable ==
  ASSUME TypeInv, StableInv, NEW w \in Workers, req' = [req EXCEPT ![w] = Idle],
         UNCHANGED <<kind, disk, applied, intact>>, \A p \in Providers : Own(p)' = Own(p)
  PROVE  StableInv'
<1>1. Repeats(Idle, applied, intact[w], disk) BY DEF Repeats, Idle
<1>2. Idle.pc = "idle" BY DEF Idle
<1> QED BY <1>1, <1>2, OneStable

LEMMA GotoStable ==
  ASSUME TypeInv, StableInv, NEW w \in Workers, req[w].pc # "idle", NEW pc \in {"edit", "seed"}, Goto(w, pc),
         UNCHANGED <<kind, disk, home, applied, intact>>,
         req[w].alone => Unlocks(kind, disk["cred"], Row(w), Own(req[w].p)),
         pc = "seed" =>
           ~ (req[w].p = applied /\ applied # None /\ Gate(Row(w)) /\ PlainDoc(disk["main"], Row(w)))
  PROVE  StableInv'
<1> DEFINE r == [req[w] EXCEPT !.pc = pc]
<1>1. req' = [req EXCEPT ![w] = r] BY DEF Goto, TypeInv, TypeOK, Request
<1>2. r.pc = pc /\ r.p = req[w].p /\ r.alone = req[w].alone BY RequestFields DEF Request
<1> HIDE DEF r
<1>3. OnWay(kind, r, disk, Row(w), Own(req[w].p)) BY <1>2 DEF OnWay
<1>4. Repeats(r, applied, intact[w], disk) BY <1>2 DEF Repeats, Row
<1>5. \A p \in Providers : Own(p)' = Own(p) BY DEF Own
<1> QED BY <1>1, <1>2, <1>3, <1>4, <1>5, OneStable

LEMMA DraftStable ==
  ASSUME TypeInv, StableInv, NEW w \in Workers, req[w].pc # "idle", NEW ws, NEW then, Draft(w, ws, then),
         UNCHANGED <<kind, disk, applied, intact>>, \A p \in Providers : Own(p)' = Own(p),
         \A i \in DOMAIN ws : GoodDraft(kind, ws[i], Row(w), Own(req[w].p)),
         req[w].alone /\ (\A i \in DOMAIN ws : ws[i][1] # "cred") =>
           Unlocks(kind, disk["cred"], Row(w), Own(req[w].p)),
         then = "finish" => ws[Len(ws)][1] = "main",
         req[w].p = applied /\ applied # None /\ Gate(Row(w)) /\ PlainDoc(disk["main"], Row(w)) =>
           \A i \in DOMAIN ws : ws[i][2] = disk[ws[i][1]]
  PROVE  StableInv'
<1> DEFINE r == [req[w] EXCEPT !.draft = ws, !.pc = "write", !.then = then]
<1>1. req' = [req EXCEPT ![w] = r] BY DEF Draft, TypeInv, TypeOK, Request
<1>2. r.pc = "write" /\ r.p = req[w].p /\ r.alone = req[w].alone /\ r.draft = ws /\ r.then = then
  BY RequestFields DEF Request
<1> HIDE DEF r
<1>3. OnWay(kind, r, disk, Row(w), Own(req[w].p)) BY <1>2 DEF OnWay
<1>4. Repeats(r, applied, intact[w], disk) BY <1>2 DEF Repeats, Row
<1> QED BY <1>1, <1>2, <1>3, <1>4, OneStable

\* What a switch finds that repeats the last.
LEMMA InForce ==
  ASSUME StableInv, NEW w \in Workers, req[w].p = applied, applied # None, Gate(Row(w)),
         PlainDoc(disk["main"], Row(w))
  PROVE  /\ FixedDoc(kind, disk["main"], Row(w))
         /\ Unlocks(kind, disk["cred"], Row(w), Own(req[w].p))
BY DEF StableInv, AppliedInv, Row, GoodDoc

LEMMA StableApplyGateway ==
  ASSUME TypeInv, StableInv, NEW w \in Workers, ApplyGateway(w)
  PROVE  StableInv'
<1>1. req[w].pc # "idle" /\ UNCHANGED <<kind, disk, home, applied, intact>> /\ Row(w).source = "gateway"
  BY DEF ApplyGateway
<1>2. Row(w) \in Declared /\ Row(w).conn \in Conns /\ kind \in Tools BY <1>1, RowType, RequestFields
<1> DEFINE a == EditedAuth(disk["cred"], Row(w))
           ws == << <<"cred", a>> >>
<1>3. Unlocks(kind, a, Row(w), Own(req[w].p)) BY <1>1, <1>2, DiskFiles, KeyMade
<1>4. CASE kind = "codex"
  <2>1. Draft(w, ws, "edit") BY <1>4 DEF ApplyGateway
  <2>2. req[w].p = applied /\ applied # None /\ Gate(Row(w)) /\ PlainDoc(disk["main"], Row(w)) =>
          a = disk["cred"]
    BY <1>1, <1>2, <1>4, DiskFiles, KeyMade, InForce
  <2> HIDE DEF a
  <2>3. \A i \in DOMAIN ws : GoodDraft(kind, ws[i], Row(w), Own(req[w].p))
    BY <1>3 DEF GoodDraft, Files
  <2>4. ~ \A i \in DOMAIN ws : ws[i][1] # "cred" OBVIOUS
  <2>5. req[w].p = applied /\ applied # None /\ Gate(Row(w)) /\ PlainDoc(disk["main"], Row(w)) =>
          \A i \in DOMAIN ws : ws[i][2] = disk[ws[i][1]]
    BY <2>2
  <2>6. \A p \in Providers : Own(p)' = Own(p) BY <1>1 DEF Own
  <2> HIDE DEF ws
  <2> QED BY <1>1, <2>1, <2>3, <2>4, <2>5, <2>6, DraftStable
<1>5. CASE kind # "codex"
  <2>1. Goto(w, "edit") BY <1>5 DEF ApplyGateway
  <2>2. Unlocks(kind, disk["cred"], Row(w), Own(req[w].p)) BY <1>1, <1>5 DEF Unlocks
  <2> QED BY <1>1, <2>1, <2>2, GotoStable
<1> QED BY <1>4, <1>5

LEMMA StableEdit ==
  ASSUME TypeInv, StableInv, NEW w \in Workers, Edit(w)
  PROVE  StableInv'
<1>1. req[w].pc = "edit" /\ UNCHANGED <<kind, disk, home, applied, intact>> BY DEF Edit
<1>2. Row(w) \in Declared /\ Row(w).source = "gateway" /\ Row(w).conn \in Conns /\ kind \in Tools
  BY <1>1, RowType, RequestFields DEF Serves, Row
<1>3. req[w].alone => Unlocks(kind, disk["cred"], Row(w), Own(req[w].p))
  BY <1>1 DEF StableInv, WayInv, OnWay
<1>4. req[w].p = applied /\ applied # None /\ Gate(Row(w)) /\ PlainDoc(disk["main"], Row(w)) =>
        FixedDoc(kind, disk["main"], Row(w))
  BY InForce
<1>5. \A p \in Providers : Own(p)' = Own(p) BY <1>1 DEF Own
<1> DEFINE e == Edited(kind, disk["main"], Row(w))
           ws == << <<"main", e>> >>
<1>6. CASE CanEdit(kind, disk["main"], Row(w))
  <2>1. Draft(w, ws, "finish") BY <1>6 DEF Edit
  <2>2. GoodDoc(kind, e, Row(w)) BY <1>2, <1>6, DiskFiles, DocMade
  <2>3. req[w].p = applied /\ applied # None /\ Gate(Row(w)) /\ PlainDoc(disk["main"], Row(w)) =>
          e = disk["main"]
    BY <1>4 DEF FixedDoc
  <2> HIDE DEF e
  <2>4. \A i \in DOMAIN ws : GoodDraft(kind, ws[i], Row(w), Own(req[w].p))
    BY <2>2 DEF GoodDraft, Files
  <2>5. ws[Len(ws)][1] = "main" OBVIOUS
  <2>6. req[w].p = applied /\ applied # None /\ Gate(Row(w)) /\ PlainDoc(disk["main"], Row(w)) =>
          \A i \in DOMAIN ws : ws[i][2] = disk[ws[i][1]]
    BY <2>3
  <2> HIDE DEF ws
  <2> QED BY <1>1, <1>3, <1>5, <2>1, <2>4, <2>5, <2>6, DraftStable
<1>7. CASE ~CanEdit(kind, disk["main"], Row(w))
  <2>1. Goto(w, "seed") BY <1>7 DEF Edit
  <2>2. ~ (req[w].p = applied /\ applied # None /\ Gate(Row(w)) /\ PlainDoc(disk["main"], Row(w)))
    BY <1>4, <1>7 DEF FixedDoc
  <2> QED BY <1>1, <1>3, <2>1, <2>2, GotoStable
<1> QED BY <1>6, <1>7

LEMMA StableSeed ==
  ASSUME TypeInv, StableInv, NEW w \in Workers, Seed(w)
  PROVE  StableInv'
<1>1. req[w].pc = "seed" /\ UNCHANGED <<kind, disk, home, applied, intact>> BY DEF Seed
<1>2. Row(w) \in Declared /\ Row(w).source = "gateway" /\ Row(w).conn \in Conns /\ kind \in Tools
  BY <1>1, RowType, RequestFields DEF Serves, Row
<1>3. req[w].alone => Unlocks(kind, disk["cred"], Row(w), Own(req[w].p))
  BY <1>1 DEF StableInv, WayInv, OnWay
<1>4. ~ (req[w].p = applied /\ applied # None /\ Gate(Row(w)) /\ PlainDoc(disk["main"], Row(w)))
  BY <1>1 DEF StableInv, AgainInv, Repeats, Row
<1>5. \A p \in Providers : Own(p)' = Own(p) BY <1>1 DEF Own
<1> DEFINE main == <<"main", Seeded(kind, disk["main"], Row(w))>>
           cred == <<"cred", KeyOnly(Row(w))>>
           ws == IF kind = "codex" THEN <<cred, main>> ELSE <<main>>
<1>6. GoodDraft(kind, main, Row(w), Own(req[w].p)) /\ GoodDraft(kind, cred, Row(w), Own(req[w].p))
  BY <1>2, DiskFiles, DocMade, KeyMade DEF GoodDraft, Files
<1>7. main[1] = "main" /\ Draft(w, ws, "finish") BY DEF Seed
<1> HIDE DEF main, cred
<1>8. \A i \in DOMAIN ws : GoodDraft(kind, ws[i], Row(w), Own(req[w].p)) BY <1>6
<1>9. ws[Len(ws)][1] = "main" BY <1>7
<1> HIDE DEF ws
<1> QED BY <1>1, <1>3, <1>4, <1>5, <1>7, <1>8, <1>9, DraftStable

\* An account's files, with the credentials among them and the configuration last.
LEMMA StableApplyOfficial ==
  ASSUME TypeInv, StableInv, NEW w \in Workers, ApplyOfficial(w)
  PROVE  StableInv'
<1> DEFINE p == req[w].p
           d == Prepared(kind, home[p]["main"], Row(w))
           h == [home[p] EXCEPT !["main"] = d]
           ws == StateCopy(kind, h) \o << <<"cred", h["cred"]>>, <<"main", h["main"]>> >>
<1>1. /\ req[w].pc = "apply" /\ UNCHANGED <<kind, disk, applied, intact>>
      /\ Row(w).source = "official" /\ home' = [home EXCEPT ![p] = h]
      /\ IF h["cred"] # NoFile THEN Draft(w, ws, "finish") ELSE req' = [req EXCEPT ![w] = Idle]
  BY DEF ApplyOfficial
<1>2. p \in Providers /\ Row(w) \in Declared /\ kind \in Tools BY <1>1, RowType, RequestFields
<1>3. home[p] \in FilesType /\ home \in [Providers -> FilesType] BY <1>2 DEF TypeInv, TypeOK
<1>4. home[p]["main"] \in Opt(Doc) BY <1>3, FileIn DEF Files, FileOf
<1>5. Says(kind, d, Row(w)) BY <1>1, <1>2, <1>4, PreparedSays
<1> HIDE DEF d
<1>6. h["cred"] = Own(p) /\ h["main"] = d BY <1>3 DEF FilesType, Files, Own
<1>7. \A q \in Providers : Own(q)' = Own(q)
  <2> SUFFICES ASSUME NEW q \in Providers PROVE home'[q]["cred"] = home[q]["cred"]
    BY DEF Own
  <2>1. home'[q] = IF q = p THEN h ELSE home[q] BY <1>1, <1>2, <1>3
  <2> QED BY <1>6, <2>1 DEF Own
<1> HIDE DEF h
<1>8. CASE h["cred"] # NoFile
  <2> DEFINE cred == <<"cred", h["cred"]>>
             main == <<"main", h["main"]>>
             state == <<"state", h["state"]>>
  <2>1. /\ \A i \in DOMAIN ws : ws[i] \in {cred, main, state}
        /\ \E i \in DOMAIN ws : ws[i] = cred
        /\ ws[Len(ws)] = main
    <3> DEFINE a == StateCopy(kind, h)
               b == <<cred, main>>
               S == {cred, main, state}
    <3>1. a = <<>> \/ a = <<state>> BY DEF StateCopy
    <3>2. ws = a \o b OBVIOUS
    <3> HIDE DEF cred, main, state, ws, a
    <3>3. /\ a \in Seq(S) /\ Len(a) \in {0, 1} /\ (Len(a) = 1 => a[1] = state)
          /\ b \in Seq(S) /\ Len(b) = 2 /\ b[1] = cred /\ b[2] = main
      <4>1. CASE a = <<>> BY <4>1
      <4>2. CASE a = <<state>> BY <4>2
      <4> QED BY <3>1, <4>1, <4>2
    <3> HIDE DEF b, S
    <3>4. /\ ws \in Seq(S) /\ Len(ws) = Len(a) + 2
          /\ \A i \in 1 .. Len(a) + 2 : ws[i] = IF i <= Len(a) THEN a[i] ELSE b[i - Len(a)]
      BY <3>2, <3>3, ConcatProperties
    <3>5. ws[Len(a) + 1] = cred /\ ws[Len(ws)] = main BY <3>3, <3>4
    <3>6. DOMAIN ws = 1 .. Len(ws) /\ \A i \in DOMAIN ws : ws[i] \in S BY <3>4
    <3>7. Len(a) + 1 \in DOMAIN ws BY <3>3, <3>4, <3>6
    <3> QED BY <3>5, <3>6, <3>7 DEF S
  <2>2. Unlocks(kind, h["cred"], Row(w), Own(p)) BY <1>1, <1>6, <1>8 DEF Unlocks
  <2>3. GoodDoc(kind, h["main"], Row(w)) BY <1>1, <1>5, <1>6 DEF GoodDoc, Gate
  <2>4. /\ GoodDraft(kind, cred, Row(w), Own(p)) /\ GoodDraft(kind, main, Row(w), Own(p))
        /\ GoodDraft(kind, state, Row(w), Own(p)) /\ cred[1] = "cred" /\ main[1] = "main"
    BY <2>2, <2>3 DEF GoodDraft, Files
  <2>5. Draft(w, ws, "finish") BY <1>1, <1>8
  <2> HIDE DEF cred, main, state, ws
  <2>6. \A i \in DOMAIN ws : GoodDraft(kind, ws[i], Row(w), Own(p)) BY <2>1, <2>4
  <2>7. ws[Len(ws)][1] = "main" /\ ~ \A i \in DOMAIN ws : ws[i][1] # "cred" BY <2>1, <2>4
  <2>8. ~Gate(Row(w)) BY <1>1 DEF Gate
  <2> QED BY <1>1, <1>7, <2>5, <2>6, <2>7, <2>8, DraftStable
<1>9. CASE h["cred"] = NoFile
  BY <1>1, <1>7, <1>9, EndStable
<1> QED BY <1>8, <1>9

LEMMA StableFinish ==
  ASSUME TypeInv, StableInv, NEW w \in Workers, Finish(w)
  PROVE  StableInv'
<1>1. req[w].pc = "finish" /\ UNCHANGED <<kind, disk, home, intact>> /\ req' = [req EXCEPT ![w] = Idle]
  BY DEF Finish
<1>4. \A p \in Providers : Own(p)' = Own(p) BY <1>1 DEF Own
<1>2. CASE ~req[w].alone
  <2>1. applied' = applied BY <1>2 DEF Finish
  <2> QED BY <1>1, <1>4, <2>1, EndStable
<1>3. CASE req[w].alone
  <2>1. applied' = req[w].p BY <1>3 DEF Finish
  <2>2. \A v \in Workers : req'[v].pc = "idle"
    BY <1>1, <1>3 DEF StableInv, AloneInv, Idle, TypeInv, TypeOK
  <2>3. /\ Unlocks(kind, disk["cred"], Row(w), Own(req[w].p))
        /\ GoodDoc(kind, disk["main"], Row(w))
    BY <1>1, <1>3 DEF StableInv, WayInv, OnWay
  <2>4. AppliedInv' BY <1>1, <2>1, <2>3 DEF AppliedInv, Row, Own
  <2>5. AloneInv' /\ WayInv' BY <2>2 DEF AloneInv, WayInv
  <2>6. AgainInv' BY <2>2 DEF AgainInv, Repeats
  <2> QED BY <2>4, <2>5, <2>6 DEF StableInv
<1> QED BY <1>2, <1>3

LEMMA StableReceive ==
  ASSUME TypeInv, StableInv, NEW w \in Workers, NEW p \in Providers, Receive(w, p)
  PROVE  StableInv'
<1>1. PICK a \in BOOLEAN :
        /\ a = \A v \in Workers : req[v].pc = "idle"
        /\ req' = [v \in Workers |->
                     IF v = w THEN [Idle EXCEPT !.pc = "read", !.p = p, !.todo = Paths(kind), !.alone = a]
                     ELSE [req[v] EXCEPT !.alone = req[v].pc = "idle"]]
  BY DEF Receive
<1>2. UNCHANGED <<kind, disk, home, applied>> /\ \A v \in Workers \ {w} : intact'[v] = intact[v]
  BY DEF Receive, TypeInv, TypeOK
<1>3. req'[w].pc = "read" /\ req'[w].alone = a BY <1>1 DEF Idle
<1>4. ASSUME NEW v \in Workers, v # w
      PROVE  /\ req'[v].pc = req[v].pc /\ req'[v].p = req[v].p /\ req'[v].draft = req[v].draft
             /\ req'[v].alone = (req[v].pc = "idle")
  <2>1. req'[v] = [req[v] EXCEPT !.alone = req[v].pc = "idle"] BY <1>1, <1>4
  <2> QED BY <2>1, RequestFields DEF Request
<1>5. AloneInv' BY <1>1, <1>3, <1>4 DEF AloneInv
<1>6. WayInv'
  <2> SUFFICES ASSUME NEW v \in Workers, req'[v].pc # "idle", req'[v].alone
               PROVE  OnWay(kind, req[v], disk, Row(v), Own(req[v].p))'
    BY DEF WayInv, OnWay
  <2>1. v = w BY <1>4
  <2> QED BY <1>3, <2>1 DEF OnWay
<1>7. AppliedInv' BY <1>2 DEF StableInv, AppliedInv, Own
<1>8. AgainInv'
  <2> SUFFICES ASSUME NEW v \in Workers PROVE Repeats(req[v], applied, intact[v], disk)'
    BY DEF AgainInv
  <2>1. CASE v = w BY <1>3, <2>1 DEF Repeats
  <2>2. CASE v # w BY <1>2, <1>4, <2>2 DEF StableInv, AgainInv, Repeats
  <2> QED BY <2>1, <2>2
<1> QED BY <1>5, <1>6, <1>7, <1>8 DEF StableInv

LEMMA TailOf ==
  ASSUME NEW S, NEW s \in Seq(S), s # <<>>
  PROVE  /\ 1 \in DOMAIN s /\ Head(s) = s[1]
         /\ \A i \in DOMAIN Tail(s) : i + 1 \in DOMAIN s /\ Tail(s)[i] = s[i + 1]
         /\ \A i \in DOMAIN s : i # 1 => i - 1 \in DOMAIN Tail(s) /\ Tail(s)[i - 1] = s[i]
         /\ IF Len(s) = 1 THEN DOMAIN Tail(s) = {} ELSE Tail(s)[Len(Tail(s))] = s[Len(s)]
<1>1. /\ Tail(s) \in Seq(S) /\ Len(s) \in Nat \ {0} /\ Len(Tail(s)) = Len(s) - 1
      /\ \A i \in 1 .. Len(Tail(s)) : Tail(s)[i] = s[i + 1]
      /\ DOMAIN s = 1 .. Len(s) /\ DOMAIN Tail(s) = 1 .. Len(Tail(s))
  BY HeadTailProperties, LenProperties, EmptySeq
<1>2. \A i \in DOMAIN Tail(s) : i + 1 \in DOMAIN s /\ Tail(s)[i] = s[i + 1] BY <1>1
<1>3. ASSUME NEW i \in DOMAIN s, i # 1 PROVE i - 1 \in DOMAIN Tail(s) /\ Tail(s)[i - 1] = s[i]
  <2>1. i \in 2 .. Len(s) BY <1>1, <1>3
  <2>2. i - 1 \in 1 .. Len(Tail(s)) /\ (i - 1) + 1 = i BY <1>1, <2>1
  <2> QED BY <1>1, <2>2
<1>4. CASE Len(s) = 1
  <2>1. DOMAIN Tail(s) = {}
    <3>1. Len(Tail(s)) = 0 BY <1>1, <1>4
    <3>2. DOMAIN Tail(s) = 1 .. 0 BY <1>1, <3>1, Zenon
    <3> QED BY <3>2, SMT
  <2> QED BY <1>1, <1>2, <1>3, <1>4, <2>1
<1>5. CASE Len(s) # 1
  <2>1. Len(Tail(s)) \in 1 .. Len(Tail(s)) /\ Len(Tail(s)) + 1 = Len(s) BY <1>1, <1>5
  <2>2. Tail(s)[Len(Tail(s))] = s[Len(s)] BY <1>1, <2>1
  <2> QED BY <1>1, <1>2, <1>3, <1>5, <2>2
<1> QED BY <1>4, <1>5

\* What is true of the files after a write by a switch that is served alone.
LEMMA WayWrite ==
  ASSUME TypeInv, StableInv, NEW w \in Workers, Write(w), req[w].alone
  PROVE  OnWay(kind, req'[w], disk', Row(w), Own(req[w].p))
<1> DEFINE s == req[w].draft
           f == Head(s)[1]
           c == Head(s)[2]
           own == Own(req[w].p)
           pc == IF Len(s) = 1 THEN req[w].then ELSE "write"
           r == [req[w] EXCEPT !.draft = Tail(s), !.pc = pc]
<1>1. req'[w] = r /\ req[w].pc = "write" BY DEF Write, TypeInv, TypeOK, Request
<1>2. r.pc = pc /\ r.draft = Tail(s) /\ r.then = req[w].then BY RequestFields DEF Request
<1>3. s \in Seq(Pending) /\ s # <<>> /\ req[w].then \in {"edit", "finish"}
  BY <1>1, RequestFields DEF Serves
<1>4. disk' = [disk EXCEPT ![f] = c] BY DEF Write
<1>5. /\ \A i \in DOMAIN s : GoodDraft(kind, s[i], Row(w), own)
      /\ (\A i \in DOMAIN s : s[i][1] # "cred") => Unlocks(kind, disk["cred"], Row(w), own)
      /\ req[w].then = "finish" => s[Len(s)][1] = "main"
  BY <1>1 DEF StableInv, WayInv, OnWay
<1> HIDE DEF r, s, own
<1>6. /\ 1 \in DOMAIN s /\ f = s[1][1] /\ c = s[1][2]
      /\ \A i \in DOMAIN Tail(s) : i + 1 \in DOMAIN s /\ Tail(s)[i] = s[i + 1]
      /\ \A i \in DOMAIN s : i # 1 => i - 1 \in DOMAIN Tail(s) /\ Tail(s)[i - 1] = s[i]
      /\ IF Len(s) = 1 THEN DOMAIN Tail(s) = {} ELSE Tail(s)[Len(Tail(s))] = s[Len(s)]
  BY <1>3, TailOf
<1> HIDE DEF f, c
<1>7. GoodDraft(kind, s[1], Row(w), own) BY <1>5, <1>6
<1>8. disk'[f] = c /\ \A g \in Files \ {f} : disk'[g] = disk[g]
  BY <1>4, <1>6, <1>7, RequestFields DEF GoodDraft, Files
<1>9. ASSUME \A i \in DOMAIN Tail(s) : Tail(s)[i][1] # "cred" PROVE Unlocks(kind, disk'["cred"], Row(w), own)
  <2>1. CASE f = "cred" BY <1>6, <1>7, <1>8, <2>1 DEF GoodDraft
  <2>2. CASE f # "cred"
    <3>1. ASSUME NEW i \in DOMAIN s PROVE s[i][1] # "cred" BY <1>6, <1>9, <2>2, <3>1
    <3> QED BY <1>5, <1>8, <2>2, <3>1 DEF Files
  <2> QED BY <2>1, <2>2
<1>10. CASE Len(s) = 1
  <2>1. pc = req[w].then BY <1>10
  <2>2. Unlocks(kind, disk'["cred"], Row(w), own) BY <1>6, <1>9, <1>10
  <2>3. pc = "finish" => GoodDoc(kind, disk'["main"], Row(w))
    BY <1>5, <1>6, <1>7, <1>8, <1>10, <2>1 DEF GoodDraft
  <2>4. pc # "write" BY <1>3, <2>1
  <2> HIDE DEF pc
  <2> QED BY <1>1, <1>2, <2>2, <2>3, <2>4 DEF OnWay, own
<1>11. CASE Len(s) # 1
  <2>1. pc = "write" BY <1>11
  <2> HIDE DEF pc
  <2>2. \A i \in DOMAIN Tail(s) : GoodDraft(kind, Tail(s)[i], Row(w), own) BY <1>5, <1>6
  <2>3. req[w].then = "finish" => Tail(s)[Len(Tail(s))][1] = "main" BY <1>5, <1>6, <1>11
  <2> QED BY <1>1, <1>2, <1>9, <2>1, <2>2, <2>3 DEF OnWay, own
<1> QED BY <1>10, <1>11

LEMMA StableWrite ==
  ASSUME TypeInv, StableInv, NEW w \in Workers, Write(w)
  PROVE  StableInv'
<1> DEFINE s == req[w].draft
           pc == IF Len(s) = 1 THEN req[w].then ELSE "write"
           r == [req[w] EXCEPT !.draft = Tail(s), !.pc = pc]
<1>1. /\ req'[w] = r /\ \A v \in Workers \ {w} : req'[v] = req[v]
      /\ req[w].pc = "write" /\ UNCHANGED <<kind, home>>
      /\ \A v \in Workers : intact'[v] \subseteq intact[v]
      /\ applied' # None => applied' = applied /\ disk' = disk
  BY DEF Write, Disturb, TypeInv, TypeOK, Request
<1>2. r.pc = pc /\ r.draft = Tail(s) /\ r.p = req[w].p /\ r.alone = req[w].alone
  BY RequestFields DEF Request
<1>3. s \in Seq(Pending) /\ s # <<>> /\ pc \in {"edit", "finish", "write"}
  BY <1>1, RequestFields DEF Serves
<1> HIDE DEF r, s, pc
<1>4. AloneInv' BY <1>1, <1>2 DEF StableInv, AloneInv
<1>5. WayInv'
  <2> SUFFICES ASSUME NEW v \in Workers, req'[v].pc # "idle", req'[v].alone
               PROVE  OnWay(kind, req'[v], disk', Decl[req'[v].p], home'[req'[v].p]["cred"])
    BY <1>1 DEF WayInv, OnWay, Row, Own
  <2>1. v = w BY <1>1 DEF StableInv, AloneInv
  <2>2. Decl[req'[v].p] = Row(w) /\ home'[req'[v].p]["cred"] = Own(req[w].p)
    BY <1>1, <1>2, <2>1 DEF Row, Own
  <2> QED BY <1>1, <1>2, <2>1, <2>2, WayWrite
<1>6. AppliedInv' BY <1>1 DEF StableInv, AppliedInv, Own
<1>7. AgainInv'
  <2> SUFFICES ASSUME NEW v \in Workers, applied' # None
               PROVE  Repeats(req[v], applied, intact[v], disk)'
    BY DEF AgainInv, Repeats
  <2>1. Repeats(req[v], applied, intact[v], disk) BY DEF StableInv, AgainInv
  <2>2. CASE v # w BY <1>1, <2>1, <2>2 DEF Repeats
  <2>3. CASE v = w
    <3>1. \A i \in DOMAIN Tail(s) : i + 1 \in DOMAIN s /\ Tail(s)[i] = s[i + 1] BY <1>3, TailOf
    <3>2. req[w].draft = s BY DEF s
    <3>3. pc # "seed" BY <1>3
    <3> SUFFICES ASSUME Repeats(req[w], applied, intact[w], disk)
                 PROVE  Repeats(r, applied, intact'[w], disk)
      BY <1>1, <2>1, <2>3
    <3> QED BY <1>1, <1>2, <3>1, <3>2, <3>3 DEF Repeats
  <2> QED BY <2>2, <2>3
<1> QED BY <1>4, <1>5, <1>6, <1>7 DEF StableInv

\* What the tool or its user writes leaves the keys and the edited fields.
LEMMA StableForeign ==
  ASSUME TypeInv, StableInv, ForeignWrite
  PROVE  StableInv'
<1>1. PICK f \in {"main", "cred"} :
        /\ UNCHANGED <<kind, req, home, applied>>
        /\ \A g \in Files \ {f} : disk'[g] = disk[g]
        /\ \A v \in Workers : intact'[v] = intact[v] \ {f}
        /\ \A r \in Declared :
             /\ \A own : Unlocks(kind, disk["cred"], r, own) => Unlocks(kind, disk'["cred"], r, own)
             /\ GoodDoc(kind, disk["main"], r) => GoodDoc(kind, disk'["main"], r)
             /\ PlainDoc(disk'["main"], r) => PlainDoc(disk["main"], r)
  <2>1. CASE \E n \in Natives : disk["main"] # NoFile /\ Foreign("main", [disk["main"] EXCEPT !.native = n])
    <3>1. PICK n \in Natives : disk["main"] # NoFile /\ Foreign("main", [disk["main"] EXCEPT !.native = n])
      BY <2>1
    <3> DEFINE e == [disk["main"] EXCEPT !.native = n]
    <3>8. kind \in Tools BY DEF TypeInv, TypeOK, Tools
    <3>9. disk["main"] \in Doc BY <3>1, DiskFiles DEF Opt, NoFile
    <3>2. disk["main"] \in Doc /\ kind \in Tools BY <3>8, <3>9
    <3>3. disk'["main"] = e /\ \A g \in Files \ {"main"} : disk'[g] = disk[g]
      BY <3>1, RequestFields DEF Foreign, Files, TypeInv, TypeOK, FilesType
    <3>4. \A r \in Declared : GoodDoc(kind, disk["main"], r) => GoodDoc(kind, e, r)
      BY <3>2, DocNative
    <3>5. e.nested = disk["main"].nested /\ e \in Doc
      <4>1. e \in Doc BY <3>2 DEF Doc, Opt
      <4>2. e.nested = disk["main"].nested BY <3>2 DEF Doc
      <4> QED BY <4>1, <4>2
    <3>6. e # NoFile /\ disk["main"] # NoFile BY <3>2, <3>5, NoFileIsNone DEF NoFile
    <3>7. UNCHANGED <<kind, req, home, applied>> /\ \A v \in Workers : intact'[v] = intact[v] \ {"main"}
      BY <3>1 DEF Foreign, Disturb
    <3> HIDE DEF e
    <3> QED BY <3>3, <3>4, <3>5, <3>6, <3>7 DEF PlainDoc, Files
  <2>2. CASE \E l \in Refreshed : disk["cred"] # NoFile /\ Foreign("cred", [disk["cred"] EXCEPT !.login = l])
    <3>1. PICK l \in Refreshed : disk["cred"] # NoFile /\ Foreign("cred", [disk["cred"] EXCEPT !.login = l])
      BY <2>2
    <3> DEFINE a == [disk["cred"] EXCEPT !.login = l]
    <3>2. disk["cred"] \in Cred BY <3>1, DiskFiles DEF Opt, NoFile
    <3>3. disk'["cred"] = a /\ \A g \in Files \ {"cred"} : disk'[g] = disk[g]
      BY <3>1, RequestFields DEF Foreign, Files, TypeInv, TypeOK, FilesType
    <3>4. a.key = disk["cred"].key /\ a.login \in Refreshed /\ a \in Cred BY <3>2, StartsType DEF Cred, Opt
    <3>5. a # NoFile BY <3>4, NoFileIsNone DEF NoFile
    <3>6. UNCHANGED <<kind, req, home, applied>> /\ \A v \in Workers : intact'[v] = intact[v] \ {"cred"}
      BY <3>1 DEF Foreign, Disturb
    <3> HIDE DEF a
    <3> QED BY <3>3, <3>4, <3>5, <3>6 DEF Unlocks, Files
  <2> QED BY <2>1, <2>2 DEF ForeignWrite
<1>2. \A w \in Workers : req[w].pc # "idle" => Row(w) \in Declared BY RowType
<1>3. applied # None => Decl[applied] \in Declared BY DeclType DEF TypeInv, TypeOK, Opt
<1>4. AloneInv' BY <1>1 DEF StableInv, AloneInv
<1>5. WayInv'
  <2> SUFFICES ASSUME NEW w \in Workers, req[w].pc # "idle"
               PROVE  OnWay(kind, req[w], disk', Row(w), Own(req[w].p))
    BY <1>1 DEF WayInv, Row, Own
  <2>1. OnWay(kind, req[w], disk, Row(w), Own(req[w].p)) BY DEF StableInv, WayInv
  <2>2. Row(w) \in Declared BY <1>2
  <2> QED BY <1>1, <2>1, <2>2 DEF OnWay
<1>6. AppliedInv' BY <1>1, <1>3 DEF StableInv, AppliedInv, Own
<1>7. AgainInv'
  <2> SUFFICES ASSUME NEW w \in Workers, applied # None
               PROVE  Repeats(req[w], applied, intact'[w], disk')
    BY <1>1 DEF AgainInv, Repeats
  <2>1. Repeats(req[w], applied, intact[w], disk) BY DEF StableInv, AgainInv
  <2>2. PlainDoc(disk'["main"], Decl[applied]) => PlainDoc(disk["main"], Decl[applied])
    BY <1>1, <1>3
  <2>3. intact'[w] = intact[w] \ {f} BY <1>1
  <2>4. ASSUME req[w].p = applied, Gate(Decl[applied]), PlainDoc(disk'["main"], Decl[applied]),
               req[w].pc = "write", NEW i \in DOMAIN req[w].draft, req[w].draft[i][1] \in intact'[w]
        PROVE  req[w].draft[i][2] = disk'[req[w].draft[i][1]]
    <3>1. req[w].draft[i][1] \in intact[w] /\ req[w].draft[i][1] # f BY <2>3, <2>4
    <3>2. req[w].draft[i][2] = disk[req[w].draft[i][1]] BY <2>1, <2>2, <2>4, <3>1 DEF Repeats
    <3>3. req[w].draft[i][1] \in Files
      BY <3>1, PathsAreSuffixes, RequestFields DEF TypeInv, TypeOK, Tools
    <3> QED BY <1>1, <3>1, <3>2, <3>3
  <2> QED BY <2>1, <2>2, <2>4 DEF Repeats
<1> QED BY <1>4, <1>5, <1>6, <1>7 DEF StableInv

LEMMA StableNext ==
  ASSUME TypeInv, StableInv, [Next]_vars
  PROVE  StableInv'
<1>1. ASSUME NEW w \in Workers, ReadCurrent(w) PROVE StableInv'
  <2> DEFINE r == [req[w] EXCEPT !.seen[Head(req[w].todo)] = disk[Head(req[w].todo)],
                                 !.todo = Tail(req[w].todo),
                                 !.pc = IF Len(req[w].todo) = 1 THEN "compare" ELSE "read"]
  <2>1. req' = [req EXCEPT ![w] = r] /\ r.alone = req[w].alone /\ r.p = req[w].p /\ r.pc \in {"compare", "read"}
    BY <1>1, RequestFields DEF ReadCurrent, TypeInv, TypeOK, Request
  <2> HIDE DEF r
  <2> QED BY <1>1, <2>1, QuietStable DEF ReadCurrent
<1>2. ASSUME NEW w \in Workers, ReuseDir(w) PROVE StableInv'
  <2>1. PICK d \in made :
          req' = [req EXCEPT ![w] = [req[w] EXCEPT !.dir = d, !.pc = "apply", !.seen = NoFiles]]
    BY <1>2 DEF ReuseDir, TypeInv, TypeOK, Request
  <2> DEFINE r == [req[w] EXCEPT !.dir = d, !.pc = "apply", !.seen = NoFiles]
  <2>2. r.alone = req[w].alone /\ r.p = req[w].p /\ r.pc = "apply" BY RequestFields DEF Request
  <2> HIDE DEF r
  <2> QED BY <1>2, <2>1, <2>2, QuietStable DEF ReuseDir, r
<1>3. ASSUME NEW w \in Workers, MakeDir(w) PROVE StableInv'
  <2>1. PICK now \in Seconds :
          req' = [req EXCEPT ![w] = [req[w] EXCEPT !.dir = now, !.pc = "copy", !.todo = Paths(kind),
                                                   !.seen = NoFiles]]
    BY <1>3 DEF MakeDir, TypeInv, TypeOK, Request
  <2> DEFINE r == [req[w] EXCEPT !.dir = now, !.pc = "copy", !.todo = Paths(kind), !.seen = NoFiles]
  <2>2. r.alone = req[w].alone /\ r.p = req[w].p /\ r.pc = "copy" BY RequestFields DEF Request
  <2> HIDE DEF r
  <2> QED BY <1>3, <2>1, <2>2, QuietStable DEF MakeDir, r
<1>4. ASSUME NEW w \in Workers, Copy(w) PROVE StableInv'
  <2> DEFINE r == [req[w] EXCEPT !.todo = Tail(req[w].todo),
                                 !.pc = IF Len(req[w].todo) = 1 THEN "apply" ELSE "copy"]
  <2>1. req' = [req EXCEPT ![w] = r] /\ r.alone = req[w].alone /\ r.p = req[w].p /\ r.pc \in {"apply", "copy"}
    BY <1>4, RequestFields DEF Copy, TypeInv, TypeOK, Request
  <2>2. \A v \in Workers : intact'[v] \subseteq intact[v]
    BY <1>4 DEF Copy, Disturb
  <2> HIDE DEF r
  <2> QED BY <1>4, <2>1, <2>2, QuietStable DEF Copy
<1>5. ASSUME NEW w \in Workers, Fail(w) PROVE StableInv'
  BY <1>5, EndStable DEF Fail, Own
<1>6. CASE Crash
  <2>1. \A w \in Workers : req'[w].pc = "idle" /\ req'[w].p = None
    BY <1>6 DEF Crash, Idle
  <2>2. AppliedInv' BY <1>6 DEF Crash, StableInv, AppliedInv, Own
  <2> QED BY <2>1, <2>2 DEF StableInv, AloneInv, WayInv, AgainInv, Repeats
<1>7. CASE UNCHANGED vars
  BY <1>7 DEF vars, StableInv, AloneInv, WayInv, AppliedInv, AgainInv, Row, Own
<1> QED BY <1>1, <1>2, <1>3, <1>4, <1>5, <1>6, <1>7, StableReceive, StableApplyGateway, StableEdit,
           StableSeed, StableApplyOfficial, StableWrite, StableFinish, StableForeign
    DEF Next, BackUp, Apply

\* For any files, rows and number of switches at a time: switching once more to the
\* gateway in force rewrites nothing that nobody else has written meanwhile
\* (manager.go:336-398), but for a nested field and a key with a "$".
THEOREM ReapplyAlwaysStable == Spec => ReapplyStable
<1> DEFINE A == \A w \in Workers :
                  Writes(w) /\ Head(req[w].draft)[1] \in intact[w] /\ applied = req[w].p /\ Plain(req[w].p)
                    => UNCHANGED disk
<1>1. Init => TypeInv /\ StableInv
  <2>1. Init => StableInv
    BY DEF Init, StableInv, AloneInv, WayInv, AppliedInv, AgainInv, Repeats, Idle
  <2> QED BY <2>1, TypeInit
<1>2. (TypeInv /\ StableInv) /\ [Next]_vars => (TypeInv /\ StableInv)' BY TypeNext, StableNext
<1>3. (TypeInv /\ StableInv) /\ [Next]_vars => A
  <2> SUFFICES ASSUME TypeInv, StableInv, [Next]_vars, NEW w \in Workers, Writes(w),
                      Head(req[w].draft)[1] \in intact[w], applied = req[w].p, Plain(req[w].p)
               PROVE  UNCHANGED disk
    OBVIOUS
  <2> DEFINE s == req[w].draft
  <2>1. req[w].pc = "write" BY DEF Writes
  <2>2. 1 \in DOMAIN s /\ Head(s) = s[1] BY WritingStep
  <2>3. Write(w) BY WritingStep
  <2>4. applied # None
    <3>1. req[w].p \in Providers BY <2>1, RowType
    <3> QED BY <3>1, DeclType
  <2>5. Gate(Decl[applied]) /\ PlainDoc(disk["main"], Decl[applied])
    BY <2>4 DEF Plain, Gate, PlainDoc, NoFile
  <2>6. s[1][2] = disk[s[1][1]]
    BY <2>1, <2>2, <2>4, <2>5 DEF StableInv, AgainInv, Repeats
  <2>7. disk' = [disk EXCEPT ![s[1][1]] = s[1][2]] BY <2>2, <2>3 DEF Write
  <2>8. disk \in [Files -> Opt(Doc \cup Cred)] BY RequestFields DEF FilesType
  <2>9. disk' = disk
    <3> HIDE DEF s
    <3> QED BY <2>6, <2>7, <2>8
  <2> QED BY <2>9
<1>4. Spec => [][A]_vars
  BY <1>1, <1>2, <1>3, PTL DEF Spec
<1> QED BY <1>4 DEF ReapplyStable

\* For any files, rows and number of switches at a time: as long as no switch has
\* written since, the provider of a switch that was served alone and reported
\* success is in force in all the files, by whichever way it was applied, whatever
\* it found and whatever the tool writes (manager.go:67-78).
THEOREM AppliedAlwaysInForce == Spec => []AppliedInForce
<1>1. TypeInv /\ StableInv => AppliedInForce
  BY DEF StableInv, AppliedInv, GoodDoc, Own, AppliedInForce
<1>2. Init => TypeInv /\ StableInv
  <2>1. Init => StableInv
    BY DEF Init, StableInv, AloneInv, WayInv, AppliedInv, AgainInv, Repeats, Idle
  <2> QED BY <2>1, TypeInit
<1>3. (TypeInv /\ StableInv) /\ [Next]_vars => (TypeInv /\ StableInv)' BY TypeNext, StableNext
<1> QED BY <1>1, <1>2, <1>3, PTL DEF Spec
=============================================================================
