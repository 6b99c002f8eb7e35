-------------------------------- MODULE Vault --------------------------------
(***************************************************************************)
(* devbase vault, the small part of the vault CLI that CI scripts use:     *)
(* "login-approle" exchanges the AppRole for a token and leaves it in      *)
(* ~/.vault-token, "kv get" reads a secret with the token found there (or  *)
(* in VAULT_TOKEN) and prints it for $(...) to take.                       *)
(*                                                                         *)
(* Several commands run at once and share the token file, which a login    *)
(* empties, makes private and writes in three steps, the last of which may *)
(* write a part.  A reply may be lost, cut short or replaced by a proxy's; *)
(* a request is retried MaxRetries times.  A command may be killed at any  *)
(* step, and the server's secrets, mounts and tokens change under it.      *)
(***************************************************************************)
EXTENDS Integers, Sequences

CONSTANTS
  Procs,        \* the commands that are run
  JobsOf,       \* the command lines and environments each may have
  Mounts,       \* the mount points of the server, as sequences of segments
  Secrets,      \* the paths of its secrets
  Contents,     \* what a secret may hold: functions from fields to values
  HasLookup,    \* whether the server can tell which mount a path is under
  Length,       \* of token 0, which somebody else left in the file, and of
                \* the tokens the server issues, which need not be alike
  MaxRetries,   \* maxRetries
  SecretUses,   \* how many logins the secret ID is good for
  MaxFaults,    \* a bound: requests and steps that go wrong
  MaxEvents,    \* a bound: changes on the server
  Gone          \* no content: never there, or its latest version deleted

(* Texts are functions from positions to the token each character is of.   *)
Newline == -1
Empty == [i \in 1..0 |-> 0]
Text(t) == [i \in 1..Length[t] |-> t]
OldLine == [i \in 1..(Length[0] + 1) |-> IF i = Length[0] + 1 THEN Newline ELSE 0]

(* strings.TrimSpace: a file written by hand ends with a newline. *)
TrimSpace(text) == [i \in {k \in DOMAIN text : text[k] # Newline} |-> text[i]]

(* A write at the start of the file, over what is there. *)
Overwritten(text, new) ==
  [i \in DOMAIN text \cup DOMAIN new |-> IF i \in DOMAIN new THEN new[i] ELSE text[i]]

Jobs == UNION {JobsOf[p] : p \in Procs}

ASSUME VaultAssumption ==
  /\ SecretUses \in Nat /\ Length \in [0..SecretUses -> Nat \ {0}]
  /\ MaxRetries \in Nat /\ MaxFaults \in Nat /\ MaxEvents \in Nat
  /\ HasLookup \in BOOLEAN
  /\ Gone \notin Contents

ASSUME JobAssumption ==
  \A p \in Procs : \A j \in JobsOf[p] :
    /\ j.cmd \in {"login", "get", "other"}
    /\ j.creds \in BOOLEAN /\ j.client \in BOOLEAN
    /\ j.env \in {Empty, Text(0)}

VARIABLES
  job,      \* the command line and environment of each command
  pc,       \* what each command is about to do
  token,    \* Client.token
  tries,    \* the attempts of its request that have failed
  mount,    \* the mount its secret is under, and whether that is KV v2
  got,      \* the content it received
  out,      \* what it printed
  file,     \* ~/.vault-token
  issued,   \* how many tokens the server has issued
  valid,    \* the tokens the server accepts
  version,  \* the KV version of each mount
  store,    \* the content of each secret
  faults, events,
  \* Observers, which the program does not have:
  alone,    \* the logins that opened the file with no other between its opening
            \* and its write, nor any since
  settled,  \* the token a login has written whole and alone, if no later one
            \* has opened the file
  torn,     \* a write since the file was last emptied was cut short or not alone
  had,      \* the settled token when the command started
  wanted,   \* the content of the path asked for when the server answered
  due       \* whether nothing but lost requests stands in the command's way

server == <<issued, valid, version, store>>
local == <<token, tries, mount, got, out>>
writing == <<alone, settled, torn>>
seen == <<had, wanted, due>>
bounds == <<faults, events>>
vars == <<job, pc, local, file, server, bounds, writing, seen>>

Requests == {"login", "lookup", "read"}
FileSteps == {"open", "chmod", "write", "close"}

IssuedTexts == {Text(t) : t \in 1..issued}
Texts == {Empty, Text(0), OldLine} \cup {Text(t) : t \in 1..SecretUses}

TypeOK ==
  /\ job \in [Procs -> Jobs]
  /\ pc \in [Procs -> {"idle", "print", "done", "failed", "killed"} \cup Requests \cup FileSteps]
  /\ token \in [Procs -> Seq(-1..SecretUses)]
  /\ tries \in [Procs -> 0..(MaxRetries + 1)]
  /\ mount \in [Procs -> [path : Mounts \cup {<<>>}, v2 : BOOLEAN]]
  /\ got \in [Procs -> Contents \cup {Gone}] /\ wanted \in [Procs -> Contents \cup {Gone}]
  /\ file \in [mode : {"none", "shared", "private"}, text : Seq(-1..SecretUses)]
  /\ issued \in 0..SecretUses
  /\ valid \subseteq 0..issued
  /\ version \in [Mounts -> {1, 2}]
  /\ store \in [Secrets -> Contents \cup {Gone}]
  /\ faults \in 0..MaxFaults /\ events \in 0..MaxEvents
  /\ alone \in [Procs -> BOOLEAN] /\ torn \in BOOLEAN
  /\ settled \in Texts /\ had \in [Procs -> Texts]
  /\ due \in [Procs -> BOOLEAN]

Init ==
  /\ job \in [Procs -> Jobs] /\ \A p \in Procs : job[p] \in JobsOf[p]
  /\ pc = [p \in Procs |-> "idle"]
  /\ token = [p \in Procs |-> Empty] /\ tries = [p \in Procs |-> 0]
  /\ mount = [p \in Procs |-> [path |-> <<>>, v2 |-> FALSE]]
  /\ got = [p \in Procs |-> Gone] /\ out = [p \in Procs |-> {}]
  /\ file \in {[mode |-> "none", text |-> Empty], [mode |-> "shared", text |-> OldLine]}
  /\ issued = 0 /\ valid = {0}
  /\ version \in [Mounts -> IF HasLookup THEN {1, 2} ELSE {1}]
  /\ store \in [Secrets -> Contents]
  /\ faults = 0 /\ events = 0
  /\ alone = [p \in Procs |-> FALSE] /\ torn = FALSE
  /\ settled = Empty /\ had = [p \in Procs |-> Empty]
  /\ wanted = [p \in Procs |-> Gone] /\ due = [p \in Procs |-> FALSE]

-----------------------------------------------------------------------------
(* Paths. *)

Under(m, path) == Len(m) <= Len(path) /\ SubSeq(path, 1, Len(m)) = m

(* strings.Trim(path, "/"): the empty segments at both ends. *)
Trimmed(path) ==
  LET named == {i \in DOMAIN path : path[i] # ""}
  IN SubSeq(path, CHOOSE i \in named : \A k \in named : i <= k,
                  CHOOSE i \in named : \A k \in named : k <= i)

Path(p) == Trimmed(job[p].path)

(* A mount ends in "/", so the path of the mount itself does not begin     *)
(* with it.                                                                *)
TrimPrefix_Never(path, m) == path
TrimPrefix(path, m) == IF Len(path) > Len(m) THEN SubSeq(path, Len(m) + 1, Len(path)) ELSE path

RequestPath(path, m) == IF m.v2 THEN m.path \o <<"data">> \o TrimPrefix(path, m.path) ELSE path

(* The server: the secret a request path names in each version's API. *)
MountsOver(path) == {m \in Mounts : Under(m, path)}
Addressed(req) ==
  {s \in Secrets : \E m \in MountsOver(s) :
     req = IF version[m] = 2 THEN m \o <<"data">> \o SubSeq(s, Len(m) + 1, Len(s)) ELSE s}
Answer(req) == IF Addressed(req) = {} THEN Gone ELSE store[CHOOSE s \in Addressed(req) : TRUE]
Accepts(text) == \E t \in valid : text = Text(t)

-----------------------------------------------------------------------------
(* What a command says no to before it does anything. *)

Refused(j) ==
  \/ j.cmd = "other"
  \/ j.cmd = "login" /\ ~j.creds
  \/ /\ j.cmd = "get"
     /\ \/ j.args # 1
        \/ j.format \notin {"", "json"}
        \/ j.field = "" /\ j.format = ""
  \/ ~j.client

Plain(v) == v.kind \in {"string", "number", "bool"}
Printable_Null(j, c) == j.field = "" \/ j.field \in DOMAIN c
Printable(j, c) ==
  j.field = "" \/ /\ j.field \in DOMAIN c
                  /\ c[j.field].kind # "null"
                  /\ j.format = "json" \/ Plain(c[j.field])

(* json.Decoder with UseNumber keeps a number as it was written; a float64 *)
(* rounds one above 2^53.                                                  *)
Rounded(v) == IF v.kind = "number" THEN [v EXCEPT !.text = "rounded"] ELSE v
Decode_Float(c) == [f \in DOMAIN c |-> Rounded(c[f])]
Decode(c) == c

Move(p, from, to) == pc[p] = from /\ pc' = [pc EXCEPT ![p] = to]
Fail(p) == pc' = [pc EXCEPT ![p] = "failed"]

Refuse(p) ==
  /\ pc[p] = "idle" /\ Refused(job[p])
  /\ Fail(p)
  /\ UNCHANGED <<job, local, file, server, bounds, writing, seen>>

(* New: VAULT_TOKEN, or what the file holds at this moment. *)
FileToken == IF file.mode = "none" THEN Empty ELSE TrimSpace(file.text)
NewToken(j) == IF j.env # Empty THEN j.env ELSE FileToken

(* Nothing stands in the way: a login needs the server only; a get, a      *)
(* token that it accepts and a secret that can be printed.                 *)
Servable(p) ==
  \/ job[p].cmd = "login"
  \/ /\ Accepts(NewToken(job[p]))
     /\ Path(p) \in Secrets /\ store[Path(p)] # Gone /\ Printable(job[p], store[Path(p)])

Start(p) ==
  /\ pc[p] = "idle" /\ ~Refused(job[p])
  /\ token' = [token EXCEPT ![p] = NewToken(job[p])]
  /\ had' = [had EXCEPT ![p] = IF job[p].env = Empty THEN settled ELSE Empty]
  /\ due' = [due EXCEPT ![p] = Servable(p)]
  /\ pc' = [pc EXCEPT ![p] = IF job[p].cmd = "login" THEN "login"
                             ELSE IF NewToken(job[p]) = Empty THEN "failed" ELSE "lookup"]
  /\ UNCHANGED <<job, tries, mount, got, out, file, server, bounds, writing, wanted>>

-----------------------------------------------------------------------------
(* Requests. *)

Issue == /\ issued < SecretUses
         /\ issued' = issued + 1 /\ valid' = valid \cup {issued + 1}

(* A POST, sent without a token. *)
AppRoleLogin(p) ==
  /\ Move(p, "login", "open")
  /\ Issue
  /\ token' = [token EXCEPT ![p] = Text(issued + 1)]
  /\ tries' = [tries EXCEPT ![p] = 0]
  /\ UNCHANGED <<job, mount, got, out, file, version, store, bounds, writing, seen>>

(* The secret ID has been used up, by logins or by lost replies to them. *)
LoginDenied(p) ==
  /\ pc[p] = "login" /\ issued = SecretUses
  /\ Fail(p)
  /\ due' = [due EXCEPT ![p] = FALSE]
  /\ UNCHANGED <<job, local, file, server, bounds, writing, had, wanted>>

(* kvMount: a server without the lookup (404) has KV v1 only; one that     *)
(* knows no such mount denies the lookup.                                  *)
KVMount(p) ==
  /\ pc[p] = "lookup"
  /\ IF ~Accepts(token[p]) \/ (HasLookup /\ MountsOver(Path(p)) = {})
       THEN Fail(p) /\ UNCHANGED <<mount, tries>>
       ELSE /\ pc' = [pc EXCEPT ![p] = "read"]
            /\ tries' = [tries EXCEPT ![p] = 0]
            /\ IF ~HasLookup
                 THEN mount' = [mount EXCEPT ![p] = [path |-> <<>>, v2 |-> FALSE]]
                 ELSE \E m \in MountsOver(Path(p)) :
                        mount' = [mount EXCEPT ![p] = [path |-> m, v2 |-> version[m] = 2]]
  /\ UNCHANGED <<job, token, got, out, file, server, bounds, writing, seen>>

(* KVGet's second request: the read itself. *)
KVRead(p) ==
  LET c == Answer(RequestPath(Path(p), mount[p])) IN
  /\ pc[p] = "read"
  /\ wanted' = [wanted EXCEPT ![p] = IF Path(p) \in Secrets THEN store[Path(p)] ELSE Gone]
  /\ IF Accepts(token[p]) /\ c # Gone
       THEN /\ pc' = [pc EXCEPT ![p] = "print"]
            /\ got' = [got EXCEPT ![p] = Decode(c)]
       ELSE Fail(p) /\ UNCHANGED got
  /\ UNCHANGED <<job, token, tries, mount, out, file, server, bounds, writing, had, due>>

(* An attempt without an answer: a refused or broken connection, a 5xx.    *)
(* The server may have done what was asked all the same.                   *)
MayRetry(p) == tries[p] < MaxRetries

Lost(p) ==
  /\ pc[p] \in Requests /\ faults < MaxFaults
  /\ faults' = faults + 1
  /\ tries' = [tries EXCEPT ![p] = @ + 1]
  /\ IF MayRetry(p) THEN UNCHANGED pc ELSE Fail(p)
  /\ \/ UNCHANGED <<issued, valid>>
     \/ pc[p] = "login" /\ Issue
  /\ UNCHANGED <<job, token, mount, got, out, file, version, store, events, writing, seen>>

(* An answer that breaks off after its headers, or that is not the         *)
(* server's (a proxy's empty 204): there is no retry.                      *)
Spoilt(p) ==
  /\ pc[p] \in Requests /\ faults < MaxFaults
  /\ faults' = faults + 1
  /\ Fail(p)
  /\ due' = [due EXCEPT ![p] = FALSE]
  /\ \/ UNCHANGED <<issued, valid>>
     \/ pc[p] = "login" /\ Issue
  /\ UNCHANGED <<job, local, file, version, store, events, writing, had, wanted>>

(* runVaultKVGet's output: the whole response, or one field. *)
Shown(j, c) ==
  IF j.field = "" THEN <<"response", c>>
  ELSE <<IF j.format = "json" THEN "json" ELSE "plain", c[j.field]>>

PrintSecret(p) ==
  /\ pc[p] = "print"
  /\ IF Printable(job[p], got[p])
       THEN /\ pc' = [pc EXCEPT ![p] = "done"]
            /\ out' = [out EXCEPT ![p] = {Shown(job[p], got[p])}]
       ELSE Fail(p) /\ UNCHANGED out
  /\ UNCHANGED <<job, token, tries, mount, got, file, server, bounds, writing, seen>>

-----------------------------------------------------------------------------
(* WriteTokenFile. *)

Emptied_Not(f) == [f EXCEPT !.mode = IF f.mode = "none" THEN "private" ELSE f.mode]
Emptied(f) == [mode |-> IF f.mode = "none" THEN "private" ELSE f.mode, text |-> Empty]

(* Between its opening of the file and its write. *)
Writing(p) == pc[p] \in {"chmod", "write"}

OpenFile(p) ==
  /\ Move(p, "open", "chmod")
  /\ file' = Emptied(file)
  /\ alone' = [q \in Procs |-> q = p /\ \A r \in Procs : ~Writing(r)]
  /\ settled' = Empty /\ torn' = FALSE
  /\ UNCHANGED <<job, local, server, bounds, seen>>

Chmod_Never(p) ==
  /\ Move(p, "chmod", "write")
  /\ UNCHANGED <<job, local, file, server, bounds, writing, seen>>
Chmod(p) ==
  /\ Move(p, "chmod", "write")
  /\ file' = [file EXCEPT !.mode = "private"]
  /\ UNCHANGED <<job, local, server, bounds, writing, seen>>

(* Each command writes at its own place, the start of the file. *)
WriteString(p) ==
  /\ Move(p, "write", "close")
  /\ file' = [file EXCEPT !.text = Overwritten(@, token[p])]
  /\ settled' = IF alone[p] THEN token[p] ELSE Empty
  /\ torn' = (torn \/ ~alone[p])
  /\ UNCHANGED <<job, local, server, bounds, alone, seen>>

CloseFile(p) ==
  /\ Move(p, "close", "done")
  /\ UNCHANGED <<job, local, file, server, bounds, writing, seen>>

(* What a step that fails or is killed has done to the file: nothing, or a *)
(* part of the write.                                                      *)
LeftUndone(p) ==
  \/ UNCHANGED <<file, writing>>
  \/ /\ pc[p] = "write"
     /\ \E n \in 1..(Len(token[p]) - 1) :
          file' = [file EXCEPT !.text = Overwritten(@, SubSeq(token[p], 1, n))]
     /\ torn' = TRUE
     /\ UNCHANGED <<alone, settled>>

(* A step on the file fails (permissions, a full disk). *)
FileFails(p) ==
  /\ pc[p] \in FileSteps /\ faults < MaxFaults
  /\ faults' = faults + 1
  /\ Fail(p)
  /\ due' = [due EXCEPT ![p] = FALSE]
  /\ LeftUndone(p)
  /\ UNCHANGED <<job, local, server, events, had, wanted>>

Killed(p) ==
  /\ pc[p] \in Requests \cup FileSteps /\ faults < MaxFaults
  /\ faults' = faults + 1
  /\ pc' = [pc EXCEPT ![p] = "killed"]
  /\ LeftUndone(p)
  /\ UNCHANGED <<job, local, server, events, seen>>

-----------------------------------------------------------------------------
(* Changes on the server. *)

Change == /\ events < MaxEvents /\ events' = events + 1
          /\ UNCHANGED <<job, pc, local, file, issued, faults, writing, had, wanted>>

Undue == due' = [p \in Procs |-> FALSE]

Put(s) ==
  /\ Change /\ Undue
  /\ \E c \in Contents \cup {Gone} : store' = [store EXCEPT ![s] = c]
  /\ UNCHANGED <<valid, version>>

(* "vault kv enable-versioning" makes a KV v1 mount a v2 one. *)
EnableVersioning(m) ==
  /\ HasLookup /\ version[m] = 1
  /\ Change /\ Undue
  /\ version' = [version EXCEPT ![m] = 2]
  /\ UNCHANGED <<valid, store>>

Expire(t) ==
  /\ Change /\ Undue
  /\ valid' = valid \ {t}
  /\ UNCHANGED <<version, store>>

Command(p) ==
  \/ Refuse(p) \/ Start(p)
  \/ AppRoleLogin(p) \/ LoginDenied(p) \/ KVMount(p) \/ KVRead(p)
  \/ Lost(p) \/ Spoilt(p) \/ PrintSecret(p)
  \/ OpenFile(p) \/ Chmod(p) \/ WriteString(p) \/ CloseFile(p)
  \/ FileFails(p) \/ Killed(p)

Next ==
  \/ \E p \in Procs : Command(p)
  \/ \E s \in Secrets : Put(s)
  \/ \E m \in Mounts : EnableVersioning(m)
  \/ \E t \in valid : Expire(t)

Spec == Init /\ [][Next]_vars

-----------------------------------------------------------------------------
(* Properties. *)

Characters(text) == {text[i] : i \in DOMAIN text}

(* The token file is torn only by logins that overlap or by a write cut    *)
(* short: else it is empty, as somebody else left it, or one whole token.  *)
(* Torn or not, what was there before is untouched or gone, none of it     *)
(* beside a character of a new token; and those are in a private file,     *)
(* whatever the file's mode was and wherever a login was interrupted.      *)
TokenFileWhole ==
  /\ ~torn => file.text \in {Empty, OldLine} \cup IssuedTexts
  /\ file.text \notin {Empty, OldLine} =>
       file.mode = "private" /\ Characters(file.text) \subseteq 1..issued

(* A get without a VAULT_TOKEN that starts after a login has written its   *)
(* token, with no other login between opening the file and its write, and  *)
(* before another opens it, uses exactly that token, whatever became of    *)
(* the logins before it.                                                   *)
LoginServesLaterGets ==
  \A p \in Procs : had[p] # Empty /\ job[p].cmd = "get" => token[p] = had[p]

(* What a get prints is what the server holds at the path given on the     *)
(* command line when it answers, whichever version the mount turned out to *)
(* be, a null or missing field excepted; and a get that fails, or does not *)
(* finish, has printed nothing for $(...) to take.                         *)
PrintsTheSecret ==
  \A p \in Procs :
    /\ out[p] # {} <=> pc[p] = "done" /\ job[p].cmd = "get"
    /\ out[p] # {} => /\ wanted[p] # Gone
                      /\ LET f == job[p].field IN
                         IF f = "" THEN out[p] = {<<"response", wanted[p]>>}
                         ELSE /\ f \in DOMAIN wanted[p] /\ wanted[p][f].kind # "null"
                              /\ \E form \in {"json", "plain"} : out[p] = {<<form, wanted[p][f]>>}

(* A command that has all it needs fails only if more than MaxRetries      *)
(* attempts of one request in a row went without an answer.                *)
SurvivesOutages ==
  \A p \in Procs : pc[p] = "failed" /\ due[p] => tries[p] > MaxRetries
=============================================================================
