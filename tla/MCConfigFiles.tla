---------------------------- MODULE MCConfigFiles ----------------------------
(* Instances of ConfigFiles for TLC. *)
EXTENDS ConfigFiles, TLC

CONSTANTS c1, c2, m1, m2, g1, on, n1, l1, l2, rich, plain, account

\* A gateway that declares everything, one that declares nothing beyond its
\* URL and key, and an official account.
Declares ==
  [p \in Providers |->
     CASE p = rich    -> [source |-> "gateway", conn |-> c1, model |-> m1, guard |-> g1, modifier |-> on]
       [] p = plain   -> [source |-> "gateway", conn |-> c2, model |-> None, guard |-> None, modifier |-> None]
       [] p = account -> [source |-> "official", conn |-> None, model |-> m1, guard |-> None, modifier |-> None]]

\* No key has a "$".
Same == [c \in Conns |-> c]

Login(l) == [key |-> None, login |-> l]

\* A file of the user's, and one of another gateway.
Users == [Empty EXCEPT !.native = n1]
Gateways(k) == [Users EXCEPT !.conn = c2, !.route = IF k = "codex" THEN "custom" ELSE None,
                             !.nested = IF k = "claude" THEN m2 ELSE None]

\* Also no files, a login of the user's, and a file that cannot be parsed.
StartFiles ==
  [k \in {"claude", "codex"} |->
     LET With(main, cred) == [NoFiles EXCEPT !["main"] = main, !["cred"] = cred] IN
     IF k = "claude" THEN {With(Gateways(k), NoFile)}
     ELSE {NoFiles, With(Users, Login(l1)), With(Gateways(k), Login(l1)),
           With([Users EXCEPT !.valid = FALSE], NoFile)}]

AccountHomes == {[NoFiles EXCEPT !["cred"] = Login(l2)]}

WorkerSymmetry == Permutations(Workers)
=============================================================================
