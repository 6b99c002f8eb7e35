------------------------------- MODULE MCVault -------------------------------
(* Two logins that are alike, and a third command.                         *)
EXTENDS Vault, TLC

CONSTANTS l1, l2, g

(* The second token is shorter than the first. *)
Lengths == 0 :> 3 @@ 1 :> 2 @@ 2 :> 1

S(text) == [kind |-> "string", text |-> text]
Number == [kind |-> "number", text |-> "9007199254740993"]
Null == [kind |-> "null", text |-> ""]
Map == [kind |-> "map", text |-> "{}"]

Login == [cmd |-> "login", creds |-> TRUE, client |-> TRUE, env |-> Empty,
          args |-> 0, path |-> <<"kv", "app">>, field |-> "", format |-> ""]
Get(path, field, format) ==
  [Login EXCEPT !.cmd = "get", !.args = 1, !.path = path, !.field = field, !.format = format]
App == <<"", "kv", "app", "">>

TheJobs ==
  (l1 :> {Login}) @@ (l2 :> {Login})
  @@ (g :> {Get(App, "token", ""), Get(App, "id", "json"),
            [Get(App, "", "json") EXCEPT !.env = Text(0)], [Login EXCEPT !.creds = FALSE]})
Alike == Permutations({l1, l2})

TheMounts == {<<"kv">>}
TheSecrets == {<<"kv", "app">>}
TheContents == {[token |-> S("abc"), id |-> Number], [token |-> Null, id |-> Map]}
=============================================================================
