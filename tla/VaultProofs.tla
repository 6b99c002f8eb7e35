----------------------------- MODULE VaultProofs -----------------------------
(***************************************************************************)
(* Proofs about Vault for any number of commands, whatever the server      *)
(* holds, however often requests and steps fail.                           *)
(***************************************************************************)
EXTENDS Vault, SequenceTheorems, TLAPS

-----------------------------------------------------------------------------
(* Texts. *)

LEMMA TextFacts ==
  ASSUME NEW t \in 0..SecretUses
  PROVE  /\ Length[t] \in Nat \ {0}
         /\ Text(t) \in Seq(-1..SecretUses) /\ Len(Text(t)) = Length[t]
         /\ Characters(Text(t)) = {t}
         /\ Text(t) # Empty
<1>1. Length[t] \in Nat \ {0}
  BY VaultAssumption
<1>2. Text(t) = [i \in 1 .. Length[t] |-> t]
  BY DEF Text
<1>3. Text(t) \in Seq(-1..SecretUses)
  <2>1. t \in -1..SecretUses
    BY VaultAssumption
  <2>2. Text(t) \in [1 .. Length[t] -> -1..SecretUses]
    BY <1>2, <2>1
  <2>3. QED
    BY <1>1, <2>2, SeqDef
<1>4. Len(Text(t)) = Length[t]
  BY <1>1, <1>2, <1>3, LenProperties
<1>5. 1 \in 1 .. Length[t] /\ Text(t)[1] = t
  BY <1>1, <1>2
<1>6. Characters(Text(t)) = {t}
  <2>1. \A i \in DOMAIN Text(t) : Text(t)[i] = t
    BY <1>2
  <2>2. 1 \in DOMAIN Text(t)
    BY <1>2, <1>5
  <2>3. QED
    BY <1>5, <2>1, <2>2 DEF Characters
<1>7. Text(t) # Empty
  <2>1. DOMAIN Empty = 1 .. 0
    BY DEF Empty
  <2>2. QED
    BY <1>2, <1>5, <2>1
<1>8. QED
  BY <1>1, <1>3, <1>4, <1>6, <1>7

LEMMA OldTextFacts ==
  /\ Empty \in Seq(-1..SecretUses) /\ Characters(Empty) = {} /\ TrimSpace(Empty) = Empty
  /\ OldLine \in Seq(-1..SecretUses) /\ Newline \in Characters(OldLine)
  /\ TrimSpace(OldLine) = Text(0)
<1> DEFINE n == Length[0]
<1>0. n \in Nat \ {0}
  BY VaultAssumption
<1>1. Empty \in Seq(-1..SecretUses)
  <2>1. Empty \in [1..0 -> -1..SecretUses]
    BY DEF Empty
  <2>2. 0 \in Nat
    OBVIOUS
  <2>3. QED
    BY <2>1, <2>2, SeqDef
<1>2. Characters(Empty) = {} /\ TrimSpace(Empty) = Empty
  <2>1. DOMAIN Empty = 1 .. 0 /\ 1 .. 0 = {}
    BY DEF Empty
  <2>2. {k \in DOMAIN Empty : Empty[k] # Newline} = 1 .. 0
    BY <2>1
  <2>3. TrimSpace(Empty) = [i \in 1 .. 0 |-> Empty[i]]
    BY <2>2 DEF TrimSpace
  <2>4. QED
    BY <2>1, <2>3 DEF Empty, Characters
<1>3. /\ DOMAIN OldLine = 1 .. (n + 1)
      /\ \A k \in 1 .. (n + 1) : OldLine[k] = IF k = n + 1 THEN Newline ELSE 0
  BY DEF OldLine
<1>4. OldLine \in Seq(-1..SecretUses)
  <2>1. OldLine \in [1..(n + 1) -> -1..SecretUses]
    BY VaultAssumption DEF OldLine, Newline
  <2>2. n + 1 \in Nat
    BY <1>0
  <2>3. QED
    BY <2>1, <2>2, SeqDef
<1>5. Newline \in Characters(OldLine)
  <2>1. n + 1 \in 1 .. (n + 1)
    BY <1>0
  <2>2. QED
    BY <1>3, <2>1 DEF Characters
<1>6. {k \in DOMAIN OldLine : OldLine[k] # Newline} = 1 .. n
  BY <1>0, <1>3 DEF Newline
<1>7. \A i \in 1 .. n : OldLine[i] = 0
  BY <1>0, <1>3
<1>8. TrimSpace(OldLine) = [i \in 1 .. n |-> OldLine[i]]
  BY <1>6 DEF TrimSpace
<1>9. TrimSpace(OldLine) = Text(0)
  BY <1>7, <1>8 DEF Text
<1>10. QED
  BY <1>1, <1>2, <1>4, <1>5, <1>9

(* A text of tokens' characters has nothing to trim. *)
LEMMA NothingToTrim ==
  ASSUME NEW text \in Seq(-1..SecretUses), Newline \notin Characters(text)
  PROVE  TrimSpace(text) = text
<1>1. {k \in DOMAIN text : text[k] # Newline} = DOMAIN text
  BY DEF Characters
<1>2. TrimSpace(text) = [i \in DOMAIN text |-> text[i]]
  BY <1>1 DEF TrimSpace
<1>3. text = [i \in DOMAIN text |-> text[i]]
  OBVIOUS
<1>4. QED
  BY <1>2, <1>3

(* What is written over a text leaves no character but of the two, and     *)
(* what is written into an empty file is there whole.                      *)
LEMMA OverwriteFacts ==
  ASSUME NEW old \in Seq(-1..SecretUses), NEW new \in Seq(-1..SecretUses)
  PROVE  /\ Overwritten(old, new) \in Seq(-1..SecretUses)
         /\ Characters(Overwritten(old, new)) \subseteq Characters(old) \cup Characters(new)
         /\ Overwritten(Empty, new) = new
<1> DEFINE both == Overwritten(old, new)
           n == IF Len(old) <= Len(new) THEN Len(new) ELSE Len(old)
<1>1. /\ DOMAIN old = 1 .. Len(old) /\ Len(old) \in Nat
      /\ DOMAIN new = 1 .. Len(new) /\ Len(new) \in Nat
      /\ \A i \in DOMAIN old : old[i] \in -1..SecretUses
      /\ \A i \in DOMAIN new : new[i] \in -1..SecretUses
  BY LenProperties, ElementOfSeq
<1>2. n \in Nat /\ DOMAIN old \cup DOMAIN new = 1 .. n
  BY <1>1
<1>3. both = [i \in 1 .. n |-> IF i \in DOMAIN new THEN new[i] ELSE old[i]]
  BY <1>2 DEF Overwritten
<1> HIDE DEF n
<1>4. \A i \in 1 .. n : both[i] = IF i \in DOMAIN new THEN new[i] ELSE old[i]
  BY <1>3
<1>5. \A i \in 1 .. n : i \in DOMAIN new \/ i \in DOMAIN old
  BY <1>2
<1>6. both \in [1 .. n -> -1..SecretUses]
  BY <1>1, <1>3, <1>5
<1>7. both \in Seq(-1..SecretUses)
  BY <1>2, <1>6, SeqDef
<1>8. Characters(both) \subseteq Characters(old) \cup Characters(new)
  <2>1. DOMAIN both = 1 .. n
    BY <1>3
  <2>2. QED
    BY <1>4, <1>5, <2>1 DEF Characters
<1>9. Overwritten(Empty, new) = new
  <2>1. DOMAIN Empty \cup DOMAIN new = DOMAIN new
    BY DEF Empty
  <2>2. Overwritten(Empty, new) = [i \in DOMAIN new |-> new[i]]
    BY <2>1 DEF Overwritten
  <2>3. QED
    BY <2>2
<1>10. QED
  BY <1>7, <1>8, <1>9

LEMMA PartFacts ==
  ASSUME NEW text \in Seq(-1..SecretUses), NEW n \in 1 .. (Len(text) - 1)
  PROVE  /\ SubSeq(text, 1, n) \in Seq(-1..SecretUses)
         /\ Characters(SubSeq(text, 1, n)) \subseteq Characters(text)
<1>1. Len(text) \in Nat /\ DOMAIN text = 1 .. Len(text)
  BY LenProperties
<1>2. n \in 1 .. Len(text) /\ 1 \in 1 .. Len(text)
  BY <1>1
<1>3. /\ SubSeq(text, 1, n) \in Seq(-1..SecretUses)
      /\ Len(SubSeq(text, 1, n)) = n
      /\ \A i \in 1 .. n : SubSeq(text, 1, n)[i] = text[i]
  <2>1. n \in Nat /\ 1 <= n /\ n - 1 + 1 = n /\ \A i \in 1 .. n : 1 + i - 1 = i
    BY <1>1
  <2>2. \A i \in 1 .. n : text[i] \in -1..SecretUses
    <3>1. \A i \in 1 .. n : i \in 1 .. Len(text)
      BY <1>1
    <3>2. QED
      BY <3>1, ElementOfSeq
  <2>3. QED
    BY <2>1, <2>2, SubSeqProperties
<1>4. DOMAIN SubSeq(text, 1, n) = 1 .. n
  BY <1>3, LenProperties
<1>5. 1 .. n \subseteq DOMAIN text
  BY <1>1, <1>2
<1>6. QED
  BY <1>3, <1>4, <1>5 DEF Characters

-----------------------------------------------------------------------------
(* The inductive invariant. *)

(* Who is to write the file has a token; once one command has opened it,   *)
(* it holds nothing but characters of new tokens, and none for a command   *)
(* that is alone with it.                                                  *)
Writers ==
  \A p \in Procs :
    /\ pc[p] \in FileSteps => token[p] \in IssuedTexts
    /\ Writing(p) => Characters(file.text) \subseteq 1..issued
    /\ pc[p] = "write" => file.mode = "private"
    /\ Writing(p) /\ alone[p] => file.text = Empty /\ \A q \in Procs \ {p} : ~Writing(q)

(* A settled token is the one in the file, and nobody is about to write    *)
(* over it.                                                                *)
Settled ==
  settled # Empty =>
    /\ settled = file.text /\ settled \in IssuedTexts
    /\ \A p \in Procs : ~Writing(p)

(* Only a login sends the login request; and no request outlives its       *)
(* retries.                                                                *)
Sessions ==
  \A p \in Procs :
    /\ pc[p] = "login" => job[p].cmd = "login"
    /\ pc[p] \in Requests \cup {"idle"} => tries[p] \in 0 .. MaxRetries

IInv == TypeOK /\ TokenFileWhole /\ Writers /\ Settled /\ Sessions /\ LoginServesLaterGets

(* The part of it that relates the file, the tokens and who is to write.   *)
Shared == TokenFileWhole /\ Writers /\ Settled /\ LoginServesLaterGets

-----------------------------------------------------------------------------
(* Facts about the parts of a step. *)

(* A token of the server's. *)
LEMMA IssuedFacts ==
  ASSUME TypeOK, NEW text \in IssuedTexts
  PROVE  /\ text \in Texts /\ text \in Seq(-1..SecretUses)
         /\ Characters(text) \subseteq 1..issued /\ Newline \notin Characters(text)
         /\ text \notin {Empty, OldLine}
<1>1. PICK t \in 1 .. issued : text = Text(t)
  BY DEF IssuedTexts
<1>2. t \in 1 .. SecretUses /\ t \in 0 .. SecretUses
  BY VaultAssumption DEF TypeOK
<1>3. Characters(text) = {t} /\ text \in Seq(-1..SecretUses) /\ text # Empty
  BY <1>1, <1>2, TextFacts
<1>4. Newline \notin Characters(text)
  BY <1>2, <1>3 DEF Newline
<1>5. text # OldLine
  BY <1>4, OldTextFacts
<1>6. text \in Texts
  BY <1>1, <1>2 DEF Texts
<1>7. QED
  BY <1>3, <1>4, <1>5, <1>6

LEMMA JobFacts ==
  ASSUME TypeOK, NEW p \in Procs
  PROVE  /\ job[p].cmd \in {"login", "get", "other"}
         /\ job[p].env \in {Empty, Text(0)}
BY JobAssumption DEF TypeOK, Jobs

(* What New finds as the token. *)
LEMMA NewTokenFacts ==
  ASSUME TypeOK, TokenFileWhole, NEW p \in Procs
  PROVE  /\ NewToken(job[p]) \in Seq(-1..SecretUses)
         /\ job[p].env = Empty /\ file.text \in IssuedTexts => NewToken(job[p]) = file.text
<1>1. Text(0) \in Seq(-1..SecretUses) /\ Empty \in Seq(-1..SecretUses)
  <2>1. 0 \in 0 .. SecretUses
    BY VaultAssumption
  <2>2. QED
    BY <2>1, TextFacts, OldTextFacts
<1>2. CASE job[p].env # Empty
  BY <1>1, <1>2, JobFacts DEF NewToken
<1>3. CASE job[p].env = Empty
  <2>1. NewToken(job[p]) = FileToken
    BY <1>3 DEF NewToken
  <2>2. file.text \in Seq(-1..SecretUses)
    BY DEF TypeOK
  <2>3. CASE file.text \in {Empty, OldLine}
    <3>1. FileToken \in {Empty, Text(0)}
      BY <2>3, OldTextFacts DEF FileToken
    <3>2. file.text \notin IssuedTexts
      BY <2>3, IssuedFacts
    <3>3. QED
      BY <1>1, <2>1, <3>1, <3>2
  <2>4. CASE file.text \notin {Empty, OldLine}
    <3>1. file.mode = "private" /\ Characters(file.text) \subseteq 1..issued
      BY <2>4 DEF TokenFileWhole
    <3>2. Newline \notin Characters(file.text)
      BY <3>1 DEF Newline, TypeOK
    <3>3. FileToken = file.text
      BY <2>2, <3>1, <3>2, NothingToTrim DEF FileToken
    <3>4. QED
      BY <2>1, <2>2, <3>3
  <2>5. QED
    BY <2>3, <2>4
<1>4. QED
  BY <1>2, <1>3

LEMMA ServableIsBoolean ==
  ASSUME NEW p \in Procs
  PROVE  Servable(p) \in BOOLEAN
BY ZenonT(30) DEF Servable

LEMMA AnswerIsContent ==
  ASSUME TypeOK, NEW req
  PROVE  Answer(req) \in Contents \cup {Gone}
<1>1. CASE Addressed(req) = {}
  BY <1>1 DEF Answer
<1>2. CASE Addressed(req) # {}
  <2>1. (CHOOSE s \in Addressed(req) : TRUE) \in Addressed(req)
    BY <1>2
  <2>2. Addressed(req) \subseteq Secrets
    BY DEF Addressed
  <2>3. QED
    BY <1>2, <2>1, <2>2 DEF Answer, TypeOK
<1>3. QED
  BY <1>1, <1>2

(* The server issues one more token, or none. *)
LEMMA IssueFacts ==
  ASSUME TypeOK, Issue \/ UNCHANGED <<issued, valid>>
  PROVE  /\ issued' \in 0..SecretUses /\ valid' \subseteq 0..issued'
         /\ issued' \in Nat /\ issued <= issued'
         /\ Issue => issued + 1 \in 1..SecretUses /\ issued + 1 \in 1..issued'
<1>1. issued \in 0..SecretUses /\ valid \subseteq 0..issued
  BY DEF TypeOK
<1>2. CASE Issue
  <2>1. issued < SecretUses /\ issued' = issued + 1 /\ valid' = valid \cup {issued + 1}
    BY <1>2 DEF Issue
  <2>2. issued' \in 0..SecretUses /\ issued + 1 \in 1..SecretUses
    BY <1>1, <2>1, VaultAssumption
  <2>3. valid' \subseteq 0..issued'
    BY <1>1, <2>1, VaultAssumption
  <2>4. QED
    BY <1>1, <2>1, <2>2, <2>3
<1>3. CASE UNCHANGED <<issued, valid>> /\ ~Issue
  BY <1>1, <1>3, VaultAssumption
<1>4. QED
  BY <1>2, <1>3

(* What is in the file stays what it is while the server issues more.      *)
LEMMA IssuingKeepsFileWhole ==
  ASSUME IInv, issued' \in Nat, issued <= issued', UNCHANGED <<file, torn>>
  PROVE  /\ IssuedTexts \subseteq IssuedTexts' /\ 1..issued \subseteq 1..issued'
         /\ TokenFileWhole'
<1>1. 1 .. issued \subseteq 1 .. issued'
  BY DEF IInv, TypeOK
<1>2. IssuedTexts \subseteq IssuedTexts'
  BY <1>1 DEF IssuedTexts
<1>3. QED
  BY <1>1, <1>2 DEF IInv, TokenFileWhole

(* A step that touches neither the file nor the tokens, and brings nobody  *)
(* to write, preserves what relates them; the server may issue more.       *)
LEMMA SharedUntouched ==
  ASSUME IInv,
         issued' \in Nat, issued <= issued',
         UNCHANGED <<job, token, file, writing, had>>,
         \A p \in Procs : pc'[p] \in FileSteps => pc'[p] = pc[p]
  PROVE  Shared'
<1>0. UNCHANGED <<job, token, file, alone, settled, torn, had>>
  BY DEF writing
<1>1. IssuedTexts \subseteq IssuedTexts' /\ 1..issued \subseteq 1..issued' /\ TokenFileWhole'
  BY <1>0, IssuingKeepsFileWhole
<1>2. \A p \in Procs : Writing(p)' => Writing(p)
  BY DEF Writing, FileSteps
<1>3. Writers'
  <2>1. SUFFICES ASSUME NEW p \in Procs
                 PROVE  /\ pc'[p] \in FileSteps => token[p] \in IssuedTexts'
                        /\ Writing(p)' => Characters(file.text) \subseteq 1..issued'
                        /\ pc'[p] = "write" => file.mode = "private"
                        /\ Writing(p)' /\ alone[p] =>
                             file.text = Empty /\ \A q \in Procs \ {p} : ~Writing(q)'
    BY <1>0 DEF Writers, Characters
  <2>2. QED
    BY <1>1, <1>2 DEF IInv, Writers, FileSteps
<1>4. Settled'
  BY <1>0, <1>1, <1>2 DEF IInv, Settled
<1>5. LoginServesLaterGets'
  BY <1>0 DEF IInv, LoginServesLaterGets
<1>6. QED
  BY <1>1, <1>3, <1>4, <1>5 DEF Shared

(* What a login's write, whole or cut short, leaves in the file. *)
LEMMA WriteFacts ==
  ASSUME IInv, NEW p \in Procs, pc[p] = "write",
         NEW part \in Seq(-1..SecretUses), Characters(part) \subseteq Characters(token[p])
  PROVE  /\ token[p] \in IssuedTexts /\ file.mode = "private"
         /\ Overwritten(file.text, part) \in Seq(-1..SecretUses)
         /\ Characters(Overwritten(file.text, part)) \subseteq 1..issued
         /\ alone[p] => Overwritten(file.text, part) = part
<1>1. /\ token[p] \in IssuedTexts /\ file.mode = "private"
      /\ Characters(file.text) \subseteq 1..issued
      /\ alone[p] => file.text = Empty
  BY DEF IInv, Writers, Writing, FileSteps
<1>2. Characters(part) \subseteq 1..issued
  BY <1>1, IssuedFacts DEF IInv
<1>3. file.text \in Seq(-1..SecretUses)
  BY DEF IInv, TypeOK
<1>4. QED
  BY <1>1, <1>2, <1>3, OverwriteFacts

(* The same of a step that fails or is killed. *)
LEMMA LeftUndoneFacts ==
  ASSUME IInv, NEW p \in Procs, LeftUndone(p), ~UNCHANGED <<file, writing>>
  PROVE  /\ pc[p] = "write" /\ torn' = TRUE /\ UNCHANGED <<alone, settled>>
         /\ file'.mode = "private" /\ file'.text \in Seq(-1..SecretUses)
         /\ file' = [mode |-> file'.mode, text |-> file'.text]
         /\ Characters(file'.text) \subseteq 1..issued
<1>1. /\ pc[p] = "write" /\ torn' = TRUE /\ UNCHANGED <<alone, settled>>
      /\ \E n \in 1..(Len(token[p]) - 1) :
           file' = [file EXCEPT !.text = Overwritten(@, SubSeq(token[p], 1, n))]
  BY DEF LeftUndone
<1>2. PICK n \in 1..(Len(token[p]) - 1) :
        file' = [file EXCEPT !.text = Overwritten(@, SubSeq(token[p], 1, n))]
  BY <1>1
<1> DEFINE part == SubSeq(token[p], 1, n)
<1>3. part \in Seq(-1..SecretUses) /\ Characters(part) \subseteq Characters(token[p])
  BY PartFacts DEF IInv, TypeOK
<1> HIDE DEF part
<1>4. /\ file.mode = "private" /\ Overwritten(file.text, part) \in Seq(-1..SecretUses)
      /\ Characters(Overwritten(file.text, part)) \subseteq 1..issued
  BY <1>1, <1>3, WriteFacts
<1>5. file' = [mode |-> file.mode, text |-> Overwritten(file.text, part)]
  BY <1>2 DEF part, IInv, TypeOK
<1>6. file'.mode = file.mode /\ file'.text = Overwritten(file.text, part)
  BY <1>5
<1>7. QED
  BY <1>1, <1>4, <1>5, <1>6

(* The program starts in it. *)
LEMMA Initially == Init => IInv
<1>1. SUFFICES ASSUME Init PROVE IInv
  OBVIOUS
<1>2. Empty \in Texts
  BY DEF Texts
<1>3. TypeOK
  <2>1. Empty \in Seq(-1..SecretUses) /\ OldLine \in Seq(-1..SecretUses)
    BY OldTextFacts
  <2>2. file \in [mode : {"none", "shared", "private"}, text : Seq(-1..SecretUses)]
    BY <1>1, <2>1 DEF Init
  <2>3. token \in [Procs -> Seq(-1..SecretUses)]
    BY <1>1, <2>1 DEF Init
  <2>4. alone \in [Procs -> BOOLEAN] /\ torn \in BOOLEAN
    BY <1>1 DEF Init
  <2>5. version \in [Mounts -> {1, 2}] /\ store \in [Secrets -> Contents \cup {Gone}]
    BY <1>1 DEF Init
  <2>6. tries \in [Procs -> 0..(MaxRetries + 1)] /\ issued \in 0..SecretUses /\ valid \subseteq 0..issued
    BY <1>1, VaultAssumption DEF Init
  <2>7. faults \in 0..MaxFaults /\ events \in 0..MaxEvents
    BY <1>1, VaultAssumption DEF Init
  <2>8. QED
    BY <1>1, <1>2, <2>2, <2>3, <2>4, <2>5, <2>6, <2>7 DEF Init, TypeOK
<1>4. file.text \in {Empty, OldLine}
  BY <1>1 DEF Init
<1>5. TokenFileWhole
  BY <1>4 DEF TokenFileWhole
<1>6. Writers /\ Settled /\ LoginServesLaterGets
  BY <1>1 DEF Init, Writers, Writing, Settled, LoginServesLaterGets, FileSteps
<1>7. Sessions
  <2>1. \A p \in Procs : pc[p] = "idle" /\ tries[p] = 0
    BY <1>1 DEF Init
  <2>2. 0 \in 0 .. MaxRetries
    BY VaultAssumption
  <2>3. QED
    BY <2>1, <2>2 DEF Sessions
<1>8. QED
  BY <1>3, <1>5, <1>6, <1>7 DEF IInv

-----------------------------------------------------------------------------
(* Every step preserves it: first the types, action by action. *)

LEMMA CommandKeepsTypes ==
  ASSUME IInv, NEW p \in Procs, Command(p)
  PROVE  TypeOK'
<1> USE VaultAssumption DEF IInv
<1>1. CASE Refuse(p)
  BY <1>1 DEF Refuse, TypeOK, Fail, local, server, bounds, writing, seen
<1>2. CASE Start(p)
  <2>1. NewToken(job[p]) \in Seq(-1..SecretUses) /\ Empty \in Texts
    BY NewTokenFacts DEF Texts
  <2>2. token' \in [Procs -> Seq(-1..SecretUses)] /\ had' \in [Procs -> Texts]
    BY <1>2, <2>1 DEF Start, TypeOK
  <2>3. due' \in [Procs -> BOOLEAN]
    BY <1>2, ServableIsBoolean DEF Start, TypeOK
  <2>4. pc' \in [Procs -> {"idle", "print", "done", "failed", "killed"} \cup Requests \cup FileSteps]
    BY <1>2 DEF Start, TypeOK, Requests
  <2>5. QED
    BY <1>2, <2>2, <2>3, <2>4 DEF Start, TypeOK, server, bounds, writing
<1>3. CASE AppRoleLogin(p)
  <2>1. issued' \in 0..SecretUses /\ issued + 1 \in 1..SecretUses /\ valid' \subseteq 0..issued'
    BY <1>3, IssueFacts DEF AppRoleLogin
  <2>2. Text(issued + 1) \in Seq(-1..SecretUses)
    <3>1. issued + 1 \in 0..SecretUses
      BY <2>1
    <3>2. QED
      BY <3>1, TextFacts
  <2>3. token' \in [Procs -> Seq(-1..SecretUses)] /\ tries' \in [Procs -> 0..(MaxRetries + 1)]
    BY <1>3, <2>2 DEF AppRoleLogin, TypeOK
  <2>4. pc' \in [Procs -> {"idle", "print", "done", "failed", "killed"} \cup Requests \cup FileSteps]
    BY <1>3 DEF AppRoleLogin, Move, TypeOK, FileSteps
  <2>5. QED
    BY <1>3, <2>1, <2>3, <2>4 DEF AppRoleLogin, TypeOK, bounds, seen, writing
<1>4. CASE LoginDenied(p)
  BY <1>4 DEF LoginDenied, TypeOK, Fail, local, server, bounds, writing
<1>5. CASE KVMount(p)
  <2>1. pc' \in [Procs -> {"idle", "print", "done", "failed", "killed"} \cup Requests \cup FileSteps]
    <3>1. pc' = [pc EXCEPT ![p] = "failed"] \/ pc' = [pc EXCEPT ![p] = "read"]
      BY <1>5 DEF KVMount, Fail
    <3>2. QED
      BY <3>1 DEF TypeOK, Requests
  <2>2. mount' \in [Procs -> [path : Mounts \cup {<<>>}, v2 : BOOLEAN]]
    <3>1. CASE UNCHANGED mount
      BY <3>1 DEF TypeOK
    <3>2. CASE mount' = [mount EXCEPT ![p] = [path |-> <<>>, v2 |-> FALSE]]
      BY <3>2 DEF TypeOK
    <3>3. ASSUME NEW m \in MountsOver(Path(p)),
                 mount' = [mount EXCEPT ![p] = [path |-> m, v2 |-> version[m] = 2]]
          PROVE  mount' \in [Procs -> [path : Mounts \cup {<<>>}, v2 : BOOLEAN]]
      <4>1. m \in Mounts
        BY DEF MountsOver
      <4>2. [path |-> m, v2 |-> version[m] = 2] \in [path : Mounts \cup {<<>>}, v2 : BOOLEAN]
        BY <4>1
      <4>3. QED
        BY <3>3, <4>2 DEF TypeOK
    <3>4. QED
      BY <1>5, <3>1, <3>2, <3>3 DEF KVMount
  <2>3. tries' \in [Procs -> 0..(MaxRetries + 1)]
    <3>1. UNCHANGED tries \/ tries' = [tries EXCEPT ![p] = 0]
      BY <1>5 DEF KVMount
    <3>2. 0 \in 0..(MaxRetries + 1)
      OBVIOUS
    <3>3. QED
      BY <3>1, <3>2 DEF TypeOK
  <2>4. QED
    BY <1>5, <2>1, <2>2, <2>3 DEF KVMount, TypeOK, server, bounds, seen, writing
<1>6. CASE KVRead(p)
  <2>1. got' \in [Procs -> Contents \cup {Gone}]
    BY <1>6, AnswerIsContent DEF KVRead, Decode, TypeOK
  <2>2. wanted' \in [Procs -> Contents \cup {Gone}]
    BY <1>6 DEF KVRead, TypeOK
  <2>3. pc' \in [Procs -> {"idle", "print", "done", "failed", "killed"} \cup Requests \cup FileSteps]
    BY <1>6 DEF KVRead, Fail, TypeOK
  <2>4. QED
    BY <1>6, <2>1, <2>2, <2>3 DEF KVRead, TypeOK, server, bounds, writing
<1>7. CASE Lost(p)
  <2>1. issued' \in 0..SecretUses /\ valid' \subseteq 0..issued'
    BY <1>7, IssueFacts DEF Lost
  <2>2. tries' \in [Procs -> 0..(MaxRetries + 1)]
    <3>1. tries[p] + 1 \in 0..(MaxRetries + 1)
      BY <1>7 DEF Lost, Sessions
    <3>2. QED
      BY <1>7, <3>1 DEF Lost, TypeOK
  <2>3. pc' \in [Procs -> {"idle", "print", "done", "failed", "killed"} \cup Requests \cup FileSteps]
    BY <1>7 DEF Lost, Fail, TypeOK
  <2>4. faults' \in 0..MaxFaults
    BY <1>7 DEF Lost, TypeOK
  <2>5. QED
    BY <1>7, <2>1, <2>2, <2>3, <2>4 DEF Lost, TypeOK, seen, writing
<1>8. CASE Spoilt(p)
  <2>1. issued' \in 0..SecretUses /\ valid' \subseteq 0..issued'
    BY <1>8, IssueFacts DEF Spoilt
  <2>2. faults' \in 0..MaxFaults
    BY <1>8 DEF Spoilt, TypeOK
  <2>3. QED
    BY <1>8, <2>1, <2>2 DEF Spoilt, Fail, TypeOK, local, writing
<1>9. CASE PrintSecret(p)
  BY <1>9 DEF PrintSecret, Fail, TypeOK, server, bounds, seen, writing
<1>10. CASE OpenFile(p)
  <2>1. Empty \in Seq(-1..SecretUses)
    BY OldTextFacts
  <2>2. file' \in [mode : {"none", "shared", "private"}, text : Seq(-1..SecretUses)]
    BY <1>10, <2>1 DEF OpenFile, Emptied, TypeOK
  <2>3. settled' \in Texts /\ torn' \in BOOLEAN
    BY <1>10 DEF OpenFile, Texts
  <2>4. alone' \in [Procs -> BOOLEAN]
    BY <1>10, Zenon DEF OpenFile
  <2>5. QED
    BY <1>10, <2>2, <2>3, <2>4 DEF OpenFile, Move, TypeOK, FileSteps, local, server, bounds, seen
<1>11. CASE Chmod(p)
  <2>1. file' \in [mode : {"none", "shared", "private"}, text : Seq(-1..SecretUses)]
    BY <1>11 DEF Chmod, TypeOK
  <2>2. QED
    BY <1>11, <2>1 DEF Chmod, Move, TypeOK, FileSteps, local, server, bounds, seen, writing
<1>12. CASE WriteString(p)
  <2>1. pc[p] = "write" /\ token[p] \in Seq(-1..SecretUses) /\ alone[p] \in BOOLEAN
    BY <1>12 DEF WriteString, Move, TypeOK
  <2>2. token[p] \in IssuedTexts /\ Overwritten(file.text, token[p]) \in Seq(-1..SecretUses)
    BY <2>1, WriteFacts
  <2>3. file' \in [mode : {"none", "shared", "private"}, text : Seq(-1..SecretUses)]
    BY <1>12, <2>2 DEF WriteString, TypeOK
  <2>4. settled' \in Texts
    BY <1>12, <2>2, IssuedFacts DEF WriteString, Texts
  <2>5. torn' \in BOOLEAN
    BY <1>12, <2>1 DEF WriteString, TypeOK
  <2>6. QED
    BY <1>12, <2>3, <2>4, <2>5 DEF WriteString, Move, TypeOK, FileSteps, local, server, bounds, seen
<1>13. CASE CloseFile(p)
  BY <1>13 DEF CloseFile, Move, TypeOK, local, server, bounds, seen, writing
<1>14. ASSUME LeftUndone(p)
       PROVE  /\ file' \in [mode : {"none", "shared", "private"}, text : Seq(-1..SecretUses)]
              /\ alone' \in [Procs -> BOOLEAN] /\ torn' \in BOOLEAN /\ settled' \in Texts
  <2>1. CASE UNCHANGED <<file, writing>>
    BY <2>1 DEF TypeOK, writing
  <2>2. CASE ~UNCHANGED <<file, writing>>
    <3>1. /\ torn' = TRUE /\ UNCHANGED <<alone, settled>>
          /\ file'.mode = "private" /\ file'.text \in Seq(-1..SecretUses)
          /\ file' = [mode |-> file'.mode, text |-> file'.text]
      BY <1>14, <2>2, LeftUndoneFacts
    <3>2. QED
      BY <3>1 DEF TypeOK
  <2>3. QED
    BY <2>1, <2>2
<1>15. CASE FileFails(p)
  <2>1. faults' \in 0..MaxFaults /\ LeftUndone(p)
    BY <1>15 DEF FileFails, TypeOK
  <2>2. QED
    BY <1>14, <1>15, <2>1 DEF FileFails, Fail, TypeOK, local, server
<1>16. CASE Killed(p)
  <2>1. faults' \in 0..MaxFaults /\ LeftUndone(p)
    BY <1>16 DEF Killed, TypeOK
  <2>2. QED
    BY <1>14, <1>16, <2>1 DEF Killed, TypeOK, local, server, seen
<1>17. QED
  BY <1>1, <1>2, <1>3, <1>4, <1>5, <1>6, <1>7, <1>8, <1>9, <1>10, <1>11, <1>12, <1>13, <1>15,
     <1>16 DEF Command

(* The steps of a command that neither look at the token file nor write    *)
(* it, and bring nobody to write it.                                       *)
LEMMA QuietStepsKeepShared ==
  ASSUME IInv, NEW p \in Procs,
         \/ Refuse(p) \/ LoginDenied(p) \/ KVMount(p) \/ KVRead(p) \/ Lost(p) \/ Spoilt(p)
         \/ PrintSecret(p) \/ CloseFile(p)
  PROVE  Shared'
<1>1. UNCHANGED <<job, token, file, writing, had>>
  BY DEF Refuse, LoginDenied, KVMount, KVRead, Lost, Spoilt, PrintSecret, CloseFile, local, seen
<1>2. Issue \/ UNCHANGED <<issued, valid>>
  BY DEF Refuse, LoginDenied, KVMount, KVRead, Lost, Spoilt, PrintSecret, CloseFile, server
<1>3. issued' \in Nat /\ issued <= issued'
  BY <1>2, IssueFacts DEF IInv
<1>4. PICK step \in {"failed", "done", "print", "read"} :
        pc' = [pc EXCEPT ![p] = step] \/ UNCHANGED pc
  BY DEF Refuse, LoginDenied, KVMount, KVRead, Lost, Spoilt, PrintSecret, CloseFile, Fail, Move
<1>5. \A q \in Procs : pc'[q] \in FileSteps => pc'[q] = pc[q]
  BY <1>4 DEF FileSteps, IInv, TypeOK
<1>6. QED
  BY <1>1, <1>3, <1>5, SharedUntouched

(* One that ends in the middle of a write leaves a part of its token.      *)
LEMMA InterruptionsKeepShared ==
  ASSUME IInv, NEW p \in Procs, FileFails(p) \/ Killed(p)
  PROVE  Shared'
<1>1. UNCHANGED <<job, token, had, issued>> /\ LeftUndone(p)
  BY DEF FileFails, Killed, local, seen, server
<1>2. PICK step \in {"failed", "killed"} : pc' = [pc EXCEPT ![p] = step]
  BY DEF FileFails, Killed, Fail
<1>3. \A q \in Procs : pc'[q] \in FileSteps => pc'[q] = pc[q]
  BY <1>2 DEF FileSteps, IInv, TypeOK
<1>4. issued' \in Nat /\ issued <= issued'
  BY <1>1 DEF IInv, TypeOK
<1>5. CASE UNCHANGED <<file, writing>>
  BY <1>1, <1>3, <1>4, <1>5, SharedUntouched
<1>6. CASE ~UNCHANGED <<file, writing>>
  <2>1. /\ pc[p] = "write" /\ torn' = TRUE /\ UNCHANGED <<alone, settled>>
        /\ file'.mode = "private" /\ Characters(file'.text) \subseteq 1..issued
    BY <1>1, <1>6, LeftUndoneFacts
  <2>2. \A q \in Procs : Writing(q)' => Writing(q)
    BY <1>3 DEF Writing, FileSteps
  <2>3. TokenFileWhole'
    BY <1>1, <2>1 DEF TokenFileWhole, Characters
  <2>4. \A q \in Procs \ {p} : ~(Writing(q) /\ alone[q])
    BY <2>1 DEF IInv, Writers, Writing
  <2>5. ~Writing(p)'
    BY <1>2 DEF Writing, IInv, TypeOK
  <2>6. IssuedTexts' = IssuedTexts
    BY <1>1 DEF IssuedTexts
  <2>7. Writers'
    <3>1. SUFFICES ASSUME NEW q \in Procs
                   PROVE  /\ pc'[q] \in FileSteps => token[q] \in IssuedTexts
                          /\ ~(Writing(q)' /\ alone[q])
      BY <1>1, <2>1, <2>6 DEF Writers, Characters
    <3>2. QED
      BY <1>3, <2>2, <2>4, <2>5 DEF IInv, Writers
  <2>8. settled = Empty
    BY <2>1 DEF IInv, Settled, Writing
  <2>9. Settled' /\ LoginServesLaterGets'
    BY <1>1, <2>1, <2>8 DEF Settled, LoginServesLaterGets, IInv
  <2>10. QED
    BY <2>3, <2>7, <2>9 DEF Shared
<1>7. QED
  BY <1>5, <1>6

(* The steps that do: each at its conjuncts.                               *)
LEMMA StartKeepsShared ==
  ASSUME IInv, NEW p \in Procs, Start(p)
  PROVE  Shared'
<1>1. /\ UNCHANGED <<job, file, issued, alone, settled, torn>>
      /\ token' = [token EXCEPT ![p] = NewToken(job[p])]
      /\ had' = [had EXCEPT ![p] = IF job[p].env = Empty THEN settled ELSE Empty]
      /\ pc[p] = "idle"
  BY DEF Start, server, writing
<1>2. IssuedTexts' = IssuedTexts
  BY <1>1 DEF IssuedTexts
<1>3. /\ pc'[p] \notin FileSteps
      /\ \A q \in Procs \ {p} : pc'[q] = pc[q] /\ token'[q] = token[q]
  BY <1>1 DEF Start, FileSteps, IInv, TypeOK
<1>4. \A q \in Procs : Writing(q)' = Writing(q)
  BY <1>1, <1>3 DEF Writing, FileSteps
<1>5. TokenFileWhole' /\ Settled'
  BY <1>1, <1>2, <1>4 DEF IInv, TokenFileWhole, Settled, Characters
<1>6. Writers'
  <2>1. SUFFICES ASSUME NEW q \in Procs
                 PROVE  /\ pc'[q] \in FileSteps => token'[q] \in IssuedTexts
                        /\ Writing(q) => Characters(file.text) \subseteq 1..issued
                        /\ pc'[q] = "write" => file.mode = "private"
                        /\ Writing(q) /\ alone[q] =>
                             file.text = Empty /\ \A r \in Procs \ {q} : ~Writing(r)
    BY <1>1, <1>2, <1>4 DEF Writers, Characters
  <2>2. CASE q = p
    BY <1>1, <1>3, <2>2 DEF Writing, FileSteps
  <2>3. CASE q # p
    BY <1>1, <1>3, <2>3 DEF IInv, Writers
  <2>4. QED
    BY <2>2, <2>3
<1>7. LoginServesLaterGets'
  <2>1. \A q \in Procs \ {p} : token'[q] = token[q] /\ had'[q] = had[q]
    BY <1>1 DEF IInv, TypeOK
  <2>2. ASSUME had'[p] # Empty PROVE token'[p] = had'[p]
    <3>1. job[p].env = Empty /\ settled # Empty /\ had'[p] = settled
      BY <1>1, <2>2 DEF IInv, TypeOK
    <3>2. settled = file.text /\ file.text \in IssuedTexts
      BY <3>1 DEF IInv, Settled
    <3>3. NewToken(job[p]) = file.text
      BY <3>1, <3>2, NewTokenFacts DEF IInv
    <3>4. QED
      BY <1>1, <3>1, <3>2, <3>3 DEF IInv, TypeOK
  <2>3. QED
    BY <1>1, <2>1, <2>2 DEF IInv, LoginServesLaterGets
<1>8. QED
  BY <1>5, <1>6, <1>7 DEF Shared

LEMMA LoginKeepsShared ==
  ASSUME IInv, NEW p \in Procs, AppRoleLogin(p)
  PROVE  Shared'
<1>1. /\ UNCHANGED <<job, file, alone, settled, torn, had>>
      /\ pc[p] = "login" /\ pc' = [pc EXCEPT ![p] = "open"]
      /\ Issue
      /\ token' = [token EXCEPT ![p] = Text(issued + 1)]
  BY DEF AppRoleLogin, Move, seen, writing
<1>2. issued' \in Nat /\ issued <= issued' /\ issued + 1 \in 1 .. issued'
  BY <1>1, IssueFacts DEF IInv
<1>3. IssuedTexts \subseteq IssuedTexts' /\ 1..issued \subseteq 1..issued' /\ TokenFileWhole'
  BY <1>1, <1>2, IssuingKeepsFileWhole
<1>4. /\ token'[p] \in IssuedTexts' /\ pc'[p] = "open"
      /\ \A q \in Procs \ {p} : pc'[q] = pc[q] /\ token'[q] = token[q]
  BY <1>1, <1>2 DEF IInv, TypeOK, IssuedTexts
<1>5. \A q \in Procs : Writing(q)' = Writing(q)
  BY <1>1, <1>4 DEF Writing
<1>6. Writers'
  <2>1. SUFFICES ASSUME NEW q \in Procs
                 PROVE  /\ pc'[q] \in FileSteps => token'[q] \in IssuedTexts'
                        /\ Writing(q) => Characters(file.text) \subseteq 1..issued'
                        /\ pc'[q] = "write" => file.mode = "private"
                        /\ Writing(q) /\ alone[q] =>
                             file.text = Empty /\ \A r \in Procs \ {q} : ~Writing(r)
    BY <1>1, <1>5 DEF Writers, Characters
  <2>2. CASE q = p
    BY <1>1, <1>4, <2>2 DEF Writing
  <2>3. CASE q # p
    BY <1>3, <1>4, <2>3 DEF IInv, Writers
  <2>4. QED
    BY <2>2, <2>3
<1>7. Settled'
  BY <1>1, <1>3, <1>5 DEF IInv, Settled
<1>8. LoginServesLaterGets'
  <2>1. job[p].cmd = "login"
    BY <1>1 DEF IInv, Sessions
  <2>2. QED
    BY <1>1, <1>4, <2>1 DEF IInv, LoginServesLaterGets
<1>9. QED
  BY <1>3, <1>6, <1>7, <1>8 DEF Shared

LEMMA OpenKeepsShared ==
  ASSUME IInv, NEW p \in Procs, OpenFile(p)
  PROVE  Shared'
<1>1. /\ UNCHANGED <<job, token, had, issued>>
      /\ pc[p] = "open" /\ pc' = [pc EXCEPT ![p] = "chmod"]
      /\ file'.text = Empty /\ settled' = Empty
      /\ file.mode = "private" => file'.mode = "private"
  BY DEF OpenFile, Move, Emptied, local, server, seen
<1>2. IssuedTexts' = IssuedTexts
  BY <1>1 DEF IssuedTexts
<1>3. TokenFileWhole' /\ Settled' /\ LoginServesLaterGets'
  BY <1>1, <1>2 DEF IInv, TokenFileWhole, Settled, LoginServesLaterGets
<1>4. pc'[p] = "chmod" /\ \A q \in Procs \ {p} : pc'[q] = pc[q]
  BY <1>1 DEF IInv, TypeOK
<1>5. \A q \in Procs \ {p} : ~alone'[q] /\ Writing(q)' = Writing(q)
  BY <1>4 DEF OpenFile, Writing
<1>6. alone'[p] => \A q \in Procs \ {p} : ~Writing(q)
  BY DEF OpenFile
<1>7. Characters(file'.text) \subseteq 1..issued
  BY <1>1, OldTextFacts
<1>8. Writers'
  <2>1. SUFFICES ASSUME NEW q \in Procs
                 PROVE  /\ pc'[q] \in FileSteps => token[q] \in IssuedTexts
                        /\ pc'[q] = "write" => file'.mode = "private"
                        /\ alone'[q] => \A r \in Procs \ {q} : ~Writing(r)'
    BY <1>1, <1>2, <1>7 DEF Writers, Characters
  <2>2. CASE q = p
    BY <1>1, <1>4, <1>5, <1>6, <2>2 DEF IInv, Writers, FileSteps
  <2>3. CASE q # p
    BY <1>1, <1>4, <1>5, <2>3 DEF IInv, Writers
  <2>4. QED
    BY <2>2, <2>3
<1>9. QED
  BY <1>3, <1>8 DEF Shared

LEMMA ChmodKeepsShared ==
  ASSUME IInv, NEW p \in Procs, Chmod(p)
  PROVE  Shared'
<1>1. /\ UNCHANGED <<job, token, had, issued, alone, settled, torn>>
      /\ pc[p] = "chmod" /\ pc' = [pc EXCEPT ![p] = "write"]
      /\ file'.text = file.text /\ file'.mode = "private"
  BY DEF Chmod, Move, local, server, seen, writing, IInv, TypeOK
<1>2. IssuedTexts' = IssuedTexts
  BY <1>1 DEF IssuedTexts
<1>3. pc'[p] = "write" /\ \A q \in Procs \ {p} : pc'[q] = pc[q]
  BY <1>1 DEF IInv, TypeOK
<1>4. \A q \in Procs : Writing(q)' = Writing(q)
  BY <1>1, <1>3 DEF Writing
<1>5. TokenFileWhole' /\ Settled' /\ LoginServesLaterGets'
  BY <1>1, <1>2, <1>4 DEF IInv, TokenFileWhole, Settled, LoginServesLaterGets, Characters
<1>6. Writers'
  <2>1. SUFFICES ASSUME NEW q \in Procs
                 PROVE  /\ pc'[q] \in FileSteps => token[q] \in IssuedTexts
                        /\ Writing(q) => Characters(file.text) \subseteq 1..issued
                        /\ Writing(q) /\ alone[q] =>
                             file.text = Empty /\ \A r \in Procs \ {q} : ~Writing(r)
    BY <1>1, <1>2, <1>4 DEF Writers, Characters
  <2>2. CASE q = p
    BY <1>1, <2>2 DEF IInv, Writers, FileSteps
  <2>3. CASE q # p
    BY <1>3, <2>3 DEF IInv, Writers
  <2>4. QED
    BY <2>2, <2>3
<1>7. QED
  BY <1>5, <1>6 DEF Shared

LEMMA WriteKeepsShared ==
  ASSUME IInv, NEW p \in Procs, WriteString(p)
  PROVE  Shared'
<1>1. /\ UNCHANGED <<job, token, had, issued, alone>>
      /\ pc[p] = "write" /\ pc' = [pc EXCEPT ![p] = "close"]
      /\ settled' = IF alone[p] THEN token[p] ELSE Empty
      /\ torn' = (torn \/ ~alone[p])
      /\ file'.text = Overwritten(file.text, token[p]) /\ file'.mode = file.mode
  BY DEF WriteString, Move, local, server, seen, IInv, TypeOK
<1>2. token[p] \in Seq(-1..SecretUses)
  BY DEF IInv, TypeOK
<1>3. /\ token[p] \in IssuedTexts /\ file'.mode = "private"
      /\ Characters(file'.text) \subseteq 1..issued
      /\ alone[p] => file'.text = token[p]
  BY <1>1, <1>2, WriteFacts
<1>4. IssuedTexts' = IssuedTexts
  BY <1>1 DEF IssuedTexts
<1>5. pc'[p] = "close" /\ \A q \in Procs \ {p} : pc'[q] = pc[q]
  BY <1>1 DEF IInv, TypeOK
<1>6. ~Writing(p)' /\ \A q \in Procs \ {p} : Writing(q)' = Writing(q)
  BY <1>5 DEF Writing
<1>7. TokenFileWhole' /\ LoginServesLaterGets'
  BY <1>1, <1>3, <1>4 DEF IInv, TokenFileWhole, LoginServesLaterGets, Characters
<1>8. Settled'
  <2>1. SUFFICES ASSUME alone[p] PROVE \A q \in Procs : ~Writing(q)'
    BY <1>1, <1>3, <1>4 DEF Settled
  <2>2. Writing(p)
    BY <1>1 DEF Writing
  <2>3. QED
    BY <1>6, <2>1, <2>2 DEF IInv, Writers
<1>9. Writers'
  <2>1. SUFFICES ASSUME NEW q \in Procs
                 PROVE  /\ pc'[q] \in FileSteps => token[q] \in IssuedTexts
                        /\ ~(Writing(q)' /\ alone[q])
    BY <1>1, <1>3, <1>4 DEF Writers, Characters
  <2>2. CASE q = p
    BY <1>3, <1>6, <2>2
  <2>3. CASE q # p
    <3>1. pc'[q] = pc[q] /\ Writing(q)' = Writing(q)
      BY <1>5, <1>6, <2>3
    <3>2. Writing(p) /\ p # q
      BY <1>1, <2>3 DEF Writing
    <3>3. QED
      BY <3>1, <3>2 DEF IInv, Writers
  <2>4. QED
    BY <2>2, <2>3
<1>10. QED
  BY <1>7, <1>8, <1>9 DEF Shared

LEMMA CommandKeepsShared ==
  ASSUME IInv, NEW p \in Procs, Command(p)
  PROVE  Shared'
BY QuietStepsKeepShared, InterruptionsKeepShared, StartKeepsShared, LoginKeepsShared,
   OpenKeepsShared, ChmodKeepsShared, WriteKeepsShared DEF Command

(* Only Start makes a command send requests, and only lost answers count.  *)
LEMMA CommandKeepsSessions ==
  ASSUME IInv, NEW p \in Procs, Command(p)
  PROVE  Sessions'
<1>1. job' = job
  BY DEF Command, Refuse, Start, AppRoleLogin, LoginDenied, KVMount, KVRead, Lost, Spoilt,
         PrintSecret, OpenFile, Chmod, WriteString, CloseFile, FileFails, Killed
<1>2. \A q \in Procs \ {p} : pc'[q] = pc[q] /\ tries'[q] = tries[q]
  BY DEF Command, Refuse, Start, AppRoleLogin, LoginDenied, KVMount, KVRead, Lost, Spoilt,
         PrintSecret, OpenFile, Chmod, WriteString, CloseFile, FileFails, Killed,
         Move, Fail, local, IInv, TypeOK
<1>3. pc'[p] = "login" => job[p].cmd = "login"
  BY DEF Command, Refuse, Start, AppRoleLogin, LoginDenied, KVMount, KVRead, Lost, Spoilt,
         PrintSecret, OpenFile, Chmod, WriteString, CloseFile, FileFails, Killed,
         Move, Fail, IInv, TypeOK, Sessions
<1>4. pc'[p] \in Requests \cup {"idle"} => tries'[p] \in 0 .. MaxRetries
  <2>1. CASE Start(p)
    BY <2>1 DEF Start, IInv, Sessions
  <2>2. CASE KVMount(p)
    <3>1. pc'[p] = "failed" \/ tries'[p] = 0
      BY <2>2 DEF KVMount, Fail, IInv, TypeOK
    <3>2. QED
      BY <3>1, VaultAssumption DEF Requests
  <2>3. CASE Lost(p)
    <3>1. pc'[p] = "failed" \/ (tries[p] < MaxRetries /\ tries'[p] = tries[p] + 1)
      BY <2>3 DEF Lost, MayRetry, Fail, IInv, TypeOK
    <3>2. tries[p] \in 0 .. MaxRetries
      BY <2>3 DEF Lost, IInv, Sessions
    <3>3. QED
      BY <3>1, <3>2, VaultAssumption DEF Requests
  <2>4. CASE ~Start(p) /\ ~KVMount(p) /\ ~Lost(p)
    <3>1. pc'[p] \in {"failed", "killed", "done", "print"} \cup FileSteps
      BY <2>4 DEF Command, Refuse, AppRoleLogin, LoginDenied, KVRead, Spoilt, PrintSecret,
                  OpenFile, Chmod, WriteString, CloseFile, FileFails, Killed, Move, Fail,
                  FileSteps, IInv, TypeOK
    <3>2. QED
      BY <3>1 DEF Requests, FileSteps
  <2>5. QED
    BY <2>1, <2>2, <2>3, <2>4
<1>5. QED
  BY <1>1, <1>2, <1>3, <1>4 DEF IInv, Sessions

(* What changes on the server changes nothing of the commands or the file. *)
LEMMA ChangeKeepsIInv ==
  ASSUME IInv, Change, Undue,
         valid' \subseteq valid,
         version' \in [Mounts -> {1, 2}],
         store' \in [Secrets -> Contents \cup {Gone}]
  PROVE  IInv'
<1>1. UNCHANGED <<job, pc, token, tries, mount, got, file, issued, faults, alone, settled, torn,
                  had, wanted>>
  BY DEF Change, local, writing
<1>2. TypeOK'
  <2>1. events' \in 0..MaxEvents /\ due' \in [Procs -> BOOLEAN]
    BY VaultAssumption DEF Change, Undue, IInv, TypeOK
  <2>2. QED
    BY <1>1, <2>1 DEF IInv, TypeOK
<1>3. issued' \in Nat /\ issued <= issued'
  BY <1>1 DEF IInv, TypeOK
<1>4. Shared'
  BY <1>1, <1>3, SharedUntouched DEF writing
<1>5. Sessions'
  BY <1>1 DEF IInv, Sessions
<1>6. QED
  BY <1>2, <1>4, <1>5 DEF IInv, Shared

LEMMA StepKeepsIInv ==
  ASSUME IInv, [Next]_vars
  PROVE  IInv'
<1>1. CASE \E p \in Procs : Command(p)
  BY <1>1, CommandKeepsTypes, CommandKeepsShared, CommandKeepsSessions DEF IInv, Shared
<1>2. CASE \E s \in Secrets : Put(s)
  <2>1. /\ Change /\ Undue /\ valid' = valid /\ version' = version
        /\ store' \in [Secrets -> Contents \cup {Gone}]
    BY <1>2 DEF Put, IInv, TypeOK
  <2>2. QED
    BY <2>1, ChangeKeepsIInv DEF IInv, TypeOK
<1>3. CASE \E m \in Mounts : EnableVersioning(m)
  <2>1. /\ Change /\ Undue /\ valid' = valid /\ store' = store
        /\ version' \in [Mounts -> {1, 2}]
    BY <1>3 DEF EnableVersioning, IInv, TypeOK
  <2>2. QED
    BY <2>1, ChangeKeepsIInv DEF IInv, TypeOK
<1>4. CASE \E t \in valid : Expire(t)
  <2>1. Change /\ Undue /\ valid' \subseteq valid /\ version' = version /\ store' = store
    BY <1>4 DEF Expire
  <2>2. QED
    BY <2>1, ChangeKeepsIInv DEF IInv, TypeOK
<1>5. CASE UNCHANGED vars
  <2>1. UNCHANGED <<job, pc, token, tries, mount, got, file, issued, valid, version, store,
                    faults, events, alone, settled, torn, had, wanted, due>>
    BY <1>5 DEF vars, local, server, bounds, writing, seen
  <2>2. TypeOK'
    BY <2>1 DEF IInv, TypeOK
  <2>3. Shared'
    BY <2>1, SharedUntouched DEF IInv, TypeOK, writing
  <2>4. Sessions'
    BY <2>1 DEF IInv, Sessions
  <2>5. QED
    BY <2>2, <2>3, <2>4 DEF IInv, Shared
<1>6. QED
  BY <1>1, <1>2, <1>3, <1>4, <1>5 DEF Next

-----------------------------------------------------------------------------
(* What holds of every run of any number of commands. *)

LEMMA Inductive == Spec => []IInv
<1>1. Init => IInv
  BY Initially
<1>2. IInv /\ [Next]_vars => IInv'
  BY StepKeepsIInv
<1>3. QED
  BY <1>1, <1>2, PTL DEF Spec

(* Every variable keeps its type: among others, the server never issues    *)
(* more tokens than the secret ID is good for, retries and lost replies    *)
(* included, and a request is never sent more than MaxRetries + 1 times.   *)
THEOREM TypeCorrect == Spec => []TypeOK
<1>1. IInv => TypeOK
  BY DEF IInv
<1>2. QED
  BY <1>1, Inductive, PTL

(* However many logins interleave, fail or are killed while they replace   *)
(* ~/.vault-token (WriteTokenFile), with tokens of any lengths: unless two *)
(* overlapped or a write was cut short, the file is empty, or what         *)
(* somebody else left, or one whole token; and even then nothing of what   *)
(* somebody else left is beside a new token's characters, which only the   *)
(* file's owner may read.                                                  *)
THEOREM TokenFileIsWhole == Spec => []TokenFileWhole
<1>1. IInv => TokenFileWhole
  BY DEF IInv
<1>2. QED
  BY <1>1, Inductive, PTL

(* A kv get that starts when a login has written its token, no other with  *)
(* it, and before another opens the file, sends exactly that token (New,   *)
(* readTokenFile).                                                         *)
THEOREM LoginsServeLaterGets == Spec => []LoginServesLaterGets
<1>1. IInv => LoginServesLaterGets
  BY DEF IInv
<1>2. QED
  BY <1>1, Inductive, PTL

-----------------------------------------------------------------------------
(* That a kv get prints the secret it was asked for, and gives up only     *)
(* when its retries are used up: for any number of commands, any mounts    *)
(* none of which is inside another, whatever fails or changes meanwhile.   *)
(* Both rest on what a request path addresses in the APIs of the two KV    *)
(* versions.                                                               *)

(* Segments are strings; that this literal is one, no prover knows. *)
Segment == STRING \cup {"data"}
Paths == Seq(Segment)

(* The server's paths, which begin with at most one mount: it refuses a    *)
(* mount inside another.                                                   *)
Layout ==
  /\ Mounts \subseteq Paths /\ Secrets \subseteq Paths
  /\ \A m, n \in Mounts : Under(m, n) => m = n

(* A secret has a name within a mount. *)
Named == \A s \in Secrets : \E m \in MountsOver(s) : Len(m) < Len(s)

(* The paths asked for are no mount's own, whose request would name        *)
(* another secret, and none has the segment "data" after its mount: in a   *)
(* mount that becomes KV v2 between the two requests of a get, such a      *)
(* path, sent as it stands, is the request for another secret.             *)
AskedPlainly ==
  \A j \in Jobs : j.cmd = "get" =>
    LET path == Trimmed(j.path) IN
    /\ path \in Paths
    /\ \A m \in MountsOver(path) : Len(m) < Len(path) /\ path[Len(m) + 1] # "data"

-----------------------------------------------------------------------------
(* Paths. *)

Rest(m, s) == SubSeq(s, Len(m) + 1, Len(s))
DataPath(m, s) == m \o <<"data">> \o Rest(m, s)

LEMMA Split ==
  ASSUME NEW m \in Paths, NEW s \in Paths, Under(m, s)
  PROVE  Rest(m, s) \in Paths /\ s = m \o Rest(m, s)
<1>1. Len(m) \in Nat /\ Len(s) \in Nat /\ Len(m) <= Len(s)
  BY LenProperties DEF Paths, Under
<1>2. \A i \in Len(m) + 1 .. Len(s) : s[i] \in Segment
  <2>1. \A i \in 1 .. Len(s) : s[i] \in Segment
    BY ElementOfSeq DEF Paths
  <2>2. QED
    BY <1>1, <2>1
<1>3. /\ Rest(m, s) \in Paths
      /\ Len(Rest(m, s)) = Len(s) - Len(m)
      /\ \A i \in 1 .. Len(s) - Len(m) : Rest(m, s)[i] = s[Len(m) + i]
  <2>1. Len(m) + 1 \in Int /\ Len(s) \in Int
    BY <1>1
  <2>2. /\ Rest(m, s) \in Seq(Segment)
        /\ Len(Rest(m, s)) = IF Len(m) + 1 <= Len(s) THEN Len(s) - (Len(m) + 1) + 1 ELSE 0
        /\ \A i \in 1 .. Len(s) - (Len(m) + 1) + 1 : Rest(m, s)[i] = s[Len(m) + 1 + i - 1]
    BY <1>2, <2>1, SubSeqProperties DEF Rest
  <2>3. QED
    BY <1>1, <2>2 DEF Paths
<1>4. \A i \in 1 .. Len(m) : m[i] = s[i]
  <2>1. \A i \in 1 .. Len(m) : s[i] \in Segment
    BY <1>1, ElementOfSeq DEF Paths
  <2>2. \A i \in 1 .. Len(m) : SubSeq(s, 1, Len(m))[i] = s[i]
    <3>1. 1 \in Int /\ Len(m) \in Int
      BY <1>1
    <3>2. \A i \in 1 .. Len(m) - 1 + 1 : SubSeq(s, 1, Len(m))[i] = s[1 + i - 1]
      BY <2>1, <3>1, SubSeqProperties
    <3>3. QED
      BY <1>1, <3>2
  <2>3. QED
    BY <2>2 DEF Under
<1>5. /\ m \o Rest(m, s) \in Paths
      /\ Len(m \o Rest(m, s)) = Len(s)
      /\ \A i \in 1 .. Len(s) :
           (m \o Rest(m, s))[i] = IF i <= Len(m) THEN m[i] ELSE Rest(m, s)[i - Len(m)]
  BY <1>1, <1>3, ConcatProperties DEF Paths
<1>6. \A i \in 1 .. Len(s) : (m \o Rest(m, s))[i] = s[i]
  BY <1>1, <1>3, <1>4, <1>5
<1> QED
  BY <1>3, <1>5, <1>6, SeqEqual DEF Paths

LEMMA Prefix ==
  ASSUME NEW m \in Paths, NEW s \in Paths
  PROVE  Under(m, s) <=> Len(m) <= Len(s) /\ \A i \in 1 .. Len(m) : m[i] = s[i]
<1>1. Len(m) \in Nat /\ Len(s) \in Nat
  BY LenProperties DEF Paths
<1>2. ASSUME Len(m) <= Len(s)
      PROVE  /\ SubSeq(s, 1, Len(m)) \in Paths
             /\ Len(SubSeq(s, 1, Len(m))) = Len(m)
             /\ \A i \in 1 .. Len(m) : SubSeq(s, 1, Len(m))[i] = s[i]
  <2>1. \A i \in 1 .. Len(m) : s[i] \in Segment
    BY <1>1, <1>2, ElementOfSeq DEF Paths
  <2>2. 1 \in Int /\ Len(m) \in Int
    BY <1>1
  <2>3. /\ SubSeq(s, 1, Len(m)) \in Seq(Segment)
        /\ Len(SubSeq(s, 1, Len(m))) = IF 1 <= Len(m) THEN Len(m) - 1 + 1 ELSE 0
        /\ \A i \in 1 .. Len(m) - 1 + 1 : SubSeq(s, 1, Len(m))[i] = s[1 + i - 1]
    BY <2>1, <2>2, SubSeqProperties
  <2>4. QED
    BY <1>1, <2>3 DEF Paths
<1>3. ASSUME Len(m) <= Len(s), \A i \in 1 .. Len(m) : m[i] = s[i]
      PROVE  SubSeq(s, 1, Len(m)) = m
  BY <1>2, <1>3, SeqEqual DEF Paths
<1> QED
  BY <1>2, <1>3 DEF Under

(* Of two mounts over one path, one is over the other; so they are one.    *)
LEMMA OneMount ==
  ASSUME Layout, NEW m \in Mounts, NEW n \in Mounts, NEW path \in Paths,
         Under(m, path), Under(n, path)
  PROVE  m = n
<1>1. m \in Paths /\ n \in Paths /\ Len(m) \in Nat /\ Len(n) \in Nat
  BY LenProperties DEF Layout, Paths
<1>2. Under(m, n) \/ Under(n, m)
  <2>1. /\ \A i \in 1 .. Len(m) : m[i] = path[i]
        /\ \A i \in 1 .. Len(n) : n[i] = path[i]
    BY <1>1, Prefix
  <2>2. CASE Len(m) <= Len(n)
    <3>1. \A i \in 1 .. Len(m) : m[i] = n[i]
      BY <1>1, <2>1, <2>2
    <3>2. QED
      BY <1>1, <2>2, <3>1, Prefix
  <2>3. CASE Len(n) <= Len(m)
    <3>1. \A i \in 1 .. Len(n) : n[i] = m[i]
      BY <1>1, <2>1, <2>3
    <3>2. QED
      BY <1>1, <2>3, <3>1, Prefix
  <2>4. QED
    BY <1>1, <2>2, <2>3
<1> QED
  BY <1>2 DEF Layout

LEMMA DataSegment == <<"data">> \in Paths /\ Len(<<"data">>) = 1 /\ <<"data">>[1] = "data"
<1>1. "data" \in Segment
  BY DEF Segment
<1>2. <<"data">> \in Seq(Segment)
  BY <1>1
<1> QED
  BY <1>2 DEF Paths

LEMMA DataPathFacts ==
  ASSUME NEW m \in Paths, NEW s \in Paths, Under(m, s)
  PROVE  /\ DataPath(m, s) \in Paths
         /\ Under(m, DataPath(m, s))
         /\ DataPath(m, s)[Len(m) + 1] = "data"
<1>1. Rest(m, s) \in Paths /\ <<"data">> \in Paths /\ Len(<<"data">>) = 1 /\ <<"data">>[1] = "data"
  BY Split, DataSegment
<1>2. Len(m) \in Nat /\ Len(Rest(m, s)) \in Nat
  BY <1>1, LenProperties DEF Paths
<1> DEFINE head == m \o <<"data">>
<1>3. /\ head \in Paths
      /\ Len(head) = Len(m) + 1
      /\ \A i \in 1 .. Len(m) + 1 : head[i] = IF i <= Len(m) THEN m[i] ELSE <<"data">>[i - Len(m)]
  BY <1>1, ConcatProperties DEF Paths
<1>4. head[Len(m) + 1] = "data"
  BY <1>1, <1>2, <1>3
<1>5. \A i \in 1 .. Len(m) : head[i] = m[i]
  BY <1>2, <1>3
<1>6. head \in Seq(Segment) /\ Rest(m, s) \in Seq(Segment)
  BY <1>1, <1>3 DEF Paths
<1> HIDE DEF head
<1>7. /\ head \o Rest(m, s) \in Paths
      /\ Len(head \o Rest(m, s)) = Len(head) + Len(Rest(m, s))
      /\ \A i \in 1 .. Len(head) + Len(Rest(m, s)) :
           (head \o Rest(m, s))[i] = IF i <= Len(head) THEN head[i] ELSE Rest(m, s)[i - Len(head)]
  BY <1>6, ConcatProperties DEF Paths
<1>8. DataPath(m, s) = head \o Rest(m, s)
  BY DEF DataPath, head
<1>9. \A i \in 1 .. Len(m) + 1 : DataPath(m, s)[i] = head[i]
  BY <1>2, <1>3, <1>7, <1>8
<1>10. Len(m) <= Len(DataPath(m, s)) /\ \A i \in 1 .. Len(m) : DataPath(m, s)[i] = m[i]
  BY <1>2, <1>3, <1>5, <1>7, <1>8, <1>9
<1>11. DataPath(m, s)[Len(m) + 1] = "data"
  BY <1>2, <1>4, <1>9
<1>12. DataPath(m, s) \in Paths
  BY <1>7, <1>8
<1> QED
  BY <1>10, <1>11, <1>12, Prefix

(* A request in the KV v2 API names one secret of one mount. *)
LEMMA DataPathNamesOne ==
  ASSUME Layout, NEW m \in Mounts, NEW n \in Mounts, NEW s \in Paths, NEW t \in Paths,
         Under(m, s), Under(n, t), DataPath(m, s) = DataPath(n, t)
  PROVE  m = n /\ s = t
<1>1. m \in Paths /\ n \in Paths
  BY DEF Layout
<1>2. m = n
  <2>1. DataPath(m, s) \in Paths /\ Under(m, DataPath(m, s)) /\ Under(n, DataPath(m, s))
    BY <1>1, DataPathFacts
  <2>2. QED
    BY <2>1, OneMount
<1>3. Rest(m, s) \in Paths /\ Rest(m, t) \in Paths /\ <<"data">> \in Paths
  BY <1>1, <1>2, Split, DataSegment
<1>4. m \o <<"data">> \in Paths
  BY <1>1, <1>3, ConcatProperties DEF Paths
<1>5. (m \o <<"data">>) \o Rest(m, s) = (m \o <<"data">>) \o Rest(m, t)
  BY <1>2 DEF DataPath
<1>6. Rest(m, s) = Rest(m, t)
  <2>1. \A u, v, w \in Paths : u \o v = u \o w => v = w
    BY ConcatSimplifications DEF Paths
  <2>2. QED
    BY <1>3, <1>4, <1>5, <2>1
<1>7. s = m \o Rest(m, s) /\ t = m \o Rest(m, t)
  BY <1>1, <1>2, Split
<1> QED
  BY <1>2, <1>6, <1>7

-----------------------------------------------------------------------------
(* Requests and what they address. *)

(* The mount a get has looked up, if it is a KV v2 one, is the path's. *)
LookedUp(p) ==
  mount[p].v2 => mount[p].path \in MountsOver(Path(p)) /\ version[mount[p].path] = 2

(* No KV v2 mount takes the path itself for a request of its own API. *)
NoRequest(path) ==
  \A m \in MountsOver(path) : version[m] = 2 => path[Len(m) + 1] # "data"

LEMMA AddressesAtMostThePath ==
  ASSUME Layout, NEW p \in Procs, Path(p) \in Paths, LookedUp(p),
         mount[p].v2 => Len(mount[p].path) < Len(Path(p)),
         mount[p].v2 \/ NoRequest(Path(p))
  PROVE  Addressed(RequestPath(Path(p), mount[p])) \subseteq {Path(p)}
<1> DEFINE path == Path(p)
           m0 == mount[p].path
           req == RequestPath(path, mount[p])
<1>1. SUFFICES ASSUME NEW s \in Secrets, NEW m \in MountsOver(s),
                      req = IF version[m] = 2 THEN DataPath(m, s) ELSE s
               PROVE  s = path
  BY DEF Addressed, DataPath, Rest
<1>2. s \in Paths /\ m \in Mounts /\ m \in Paths /\ Under(m, s) /\ path \in Paths
  BY DEF Layout, MountsOver
<1>3. CASE mount[p].v2
  <2>1. m0 \in Mounts /\ m0 \in Paths /\ Under(m0, path) /\ version[m0] = 2
    BY <1>3 DEF LookedUp, Layout, MountsOver
  <2>2. req = DataPath(m0, path)
    BY <1>3 DEF RequestPath, TrimPrefix, DataPath, Rest
  <2>3. req \in Paths /\ Under(m0, req)
    BY <1>2, <2>1, <2>2, DataPathFacts
  <2>4. CASE version[m] = 2
    <3>1. DataPath(m0, path) = DataPath(m, s)
      BY <1>1, <2>2, <2>4
    <3>2. QED
      BY <1>2, <2>1, <3>1, DataPathNamesOne
  <2>5. CASE version[m] # 2
    <3>1. Under(m, req)
      BY <1>1, <1>2, <2>5
    <3>2. m = m0
      BY <1>2, <2>1, <2>3, <3>1, OneMount
    <3>3. QED
      BY <2>1, <2>5, <3>2
  <2>6. QED
    BY <2>4, <2>5
<1>4. CASE ~mount[p].v2
  <2>1. req = path
    BY <1>4 DEF RequestPath
  <2>2. CASE version[m] = 2
    <3>1. Under(m, path) /\ path[Len(m) + 1] = "data"
      BY <1>1, <1>2, <2>1, <2>2, DataPathFacts
    <3>2. QED
      BY <1>2, <1>4, <2>2, <3>1 DEF NoRequest, MountsOver
  <2>3. QED
    BY <1>1, <2>1, <2>2
<1> QED
  BY <1>3, <1>4

(* So what is answered is what the path holds, if anything is. *)
LEMMA AnswerIsTheSecret ==
  ASSUME NEW p \in Procs, NEW req, Addressed(req) \subseteq {Path(p)}, Answer(req) # Gone
  PROVE  Path(p) \in Secrets /\ Answer(req) = store[Path(p)]
<1>1. Addressed(req) # {}
  BY DEF Answer
<1>2. Addressed(req) = {Path(p)} /\ Path(p) \in Secrets
  BY <1>1 DEF Addressed
<1> QED
  BY <1>1, <1>2 DEF Answer

-----------------------------------------------------------------------------
(* What a get prints. *)

Printed(p) ==
  /\ wanted[p] # Gone
  /\ LET f == job[p].field IN
     IF f = "" THEN out[p] = {<<"response", wanted[p]>>}
     ELSE /\ f \in DOMAIN wanted[p] /\ wanted[p][f].kind # "null"
          /\ \E form \in {"json", "plain"} : out[p] = {<<form, wanted[p][f]>>}

(* A command on its way: which one it is, the mount it has looked up, the  *)
(* content it has read, what it has printed.                               *)
OnItsWay(p) ==
  /\ pc[p] \in {"lookup", "read", "print"} => job[p].cmd = "get"
  /\ pc[p] \in FileSteps => job[p].cmd = "login"
  /\ pc[p] = "read" => LookedUp(p)
  /\ pc[p] = "print" => wanted[p] # Gone /\ got[p] = wanted[p]
  /\ out[p] # {} <=> pc[p] = "done" /\ job[p].cmd = "get"
  /\ out[p] # {} => Printed(p)

Gets == DOMAIN out = Procs /\ \A p \in Procs : OnItsWay(p)

LEMMA AskedForAGet ==
  ASSUME AskedPlainly, TypeOK, NEW p \in Procs, job[p].cmd = "get"
  PROVE  /\ Path(p) \in Paths
         /\ \A m \in MountsOver(Path(p)) : Len(m) < Len(Path(p)) /\ Path(p)[Len(m) + 1] # "data"
<1>1. job[p] \in Jobs
  BY DEF TypeOK
<1> QED
  BY <1>1 DEF AskedPlainly, Path

LEMMA ReadIsWanted ==
  ASSUME IInv, Gets, Layout, AskedPlainly, NEW p \in Procs, KVRead(p), pc'[p] = "print"
  PROVE  wanted'[p] # Gone /\ got'[p] = wanted'[p]
<1> DEFINE c == Answer(RequestPath(Path(p), mount[p]))
<1>1. /\ pc[p] = "read" /\ c # Gone
      /\ got' = [got EXCEPT ![p] = c]
      /\ wanted' = [wanted EXCEPT ![p] = IF Path(p) \in Secrets THEN store[Path(p)] ELSE Gone]
  BY DEF KVRead, Fail, Decode, IInv, TypeOK
<1>2. job[p].cmd = "get" /\ LookedUp(p)
  BY <1>1 DEF Gets, OnItsWay
<1>3. /\ Path(p) \in Paths
      /\ \A m \in MountsOver(Path(p)) : Len(m) < Len(Path(p)) /\ Path(p)[Len(m) + 1] # "data"
  BY <1>2, AskedForAGet DEF IInv
<1>4. Addressed(RequestPath(Path(p), mount[p])) \subseteq {Path(p)}
  <2>1. mount[p].v2 => Len(mount[p].path) < Len(Path(p))
    BY <1>2, <1>3 DEF LookedUp
  <2>2. NoRequest(Path(p))
    BY <1>3 DEF NoRequest
  <2>3. QED
    BY <1>2, <1>3, <2>1, <2>2, AddressesAtMostThePath
<1>5. Path(p) \in Secrets /\ c = store[Path(p)]
  BY <1>1, <1>4, AnswerIsTheSecret
<1>6. wanted'[p] = c /\ got'[p] = c
  BY <1>1, <1>5 DEF IInv, TypeOK
<1> QED
  BY <1>1, <1>6

LEMMA GetsInit == Init => Gets
BY DEF Init, Gets, OnItsWay, FileSteps

(* A step of one command is no step of another. *)
LEMMA OthersStay ==
  ASSUME TypeOK, DOMAIN out = Procs, NEW p \in Procs, Command(p)
  PROVE  /\ UNCHANGED <<job, version, store>>
         /\ DOMAIN out' = Procs
         /\ \A q \in Procs \ {p} :
              /\ pc'[q] = pc[q] /\ token'[q] = token[q] /\ tries'[q] = tries[q]
              /\ mount'[q] = mount[q] /\ got'[q] = got[q] /\ out'[q] = out[q]
              /\ wanted'[q] = wanted[q] /\ due'[q] = due[q]
<1>1. UNCHANGED <<job, version, store>>
  BY DEF Command, Refuse, Start, AppRoleLogin, LoginDenied, KVMount, KVRead, Lost, Spoilt,
         PrintSecret, OpenFile, Chmod, WriteString, CloseFile, FileFails, Killed, server
<1>2. DOMAIN out' = Procs /\ \A q \in Procs \ {p} : out'[q] = out[q]
  BY DEF Command, Refuse, Start, AppRoleLogin, LoginDenied, KVMount, KVRead, Lost, Spoilt,
         PrintSecret, OpenFile, Chmod, WriteString, CloseFile, FileFails, Killed, local
<1>3. \A q \in Procs \ {p} :
        pc'[q] = pc[q] /\ token'[q] = token[q] /\ tries'[q] = tries[q] /\ mount'[q] = mount[q]
  BY DEF Command, Refuse, Start, AppRoleLogin, LoginDenied, KVMount, KVRead, Lost, Spoilt,
         PrintSecret, OpenFile, Chmod, WriteString, CloseFile, FileFails, Killed,
         Move, Fail, local, TypeOK
<1>4. \A q \in Procs \ {p} :
        got'[q] = got[q] /\ wanted'[q] = wanted[q] /\ due'[q] = due[q]
  BY DEF Command, Refuse, Start, AppRoleLogin, LoginDenied, KVMount, KVRead, Lost, Spoilt,
         PrintSecret, OpenFile, Chmod, WriteString, CloseFile, FileFails, Killed,
         local, seen, TypeOK
<1> QED
  BY <1>1, <1>2, <1>3, <1>4

LEMMA StaysOnItsWay ==
  ASSUME NEW p \in Procs, OnItsWay(p), UNCHANGED job,
         pc'[p] = pc[p], mount'[p] = mount[p], got'[p] = got[p], out'[p] = out[p],
         wanted'[p] = wanted[p],
         \A m \in Mounts : version[m] = 2 => version'[m] = 2
  PROVE  OnItsWay(p)'
<1>1. Path(p)' = Path(p)
  BY DEF Path
<1>2. LookedUp(p) => LookedUp(p)'
  BY <1>1 DEF LookedUp, MountsOver
<1>3. Printed(p) => Printed(p)'
  BY DEF Printed
<1> QED
  BY <1>2, <1>3 DEF OnItsWay

LEMMA MountKeepsOnItsWay ==
  ASSUME IInv, Gets, NEW p \in Procs, KVMount(p)
  PROVE  OnItsWay(p)'
<1>1. /\ pc[p] = "lookup" /\ UNCHANGED <<job, got, out, wanted, version>>
      /\ job[p].cmd = "get" /\ out[p] = {}
  BY DEF KVMount, local, server, seen, Gets, OnItsWay
<1>2. pc'[p] \in {"failed", "read"}
  BY DEF KVMount, Fail, IInv, TypeOK
<1>3. ASSUME pc'[p] = "read" PROVE LookedUp(p)'
  <2>1. CASE ~HasLookup
    BY <1>1, <1>3, <2>1 DEF KVMount, Fail, IInv, TypeOK, LookedUp
  <2>2. CASE HasLookup
    <3>1. PICK m \in MountsOver(Path(p)) :
            mount' = [mount EXCEPT ![p] = [path |-> m, v2 |-> version[m] = 2]]
      BY <1>1, <1>3, <2>2 DEF KVMount, Fail, IInv, TypeOK
    <3>2. mount'[p].path = m /\ mount'[p].v2 = (version[m] = 2)
      BY <3>1 DEF IInv, TypeOK
    <3>3. Path(p)' = Path(p)
      BY <1>1 DEF Path
    <3>4. QED
      BY <1>1, <3>2, <3>3 DEF LookedUp, MountsOver
  <2>3. QED
    BY <2>1, <2>2
<1> QED
  BY <1>1, <1>2, <1>3 DEF OnItsWay, FileSteps

LEMMA PrintKeepsOnItsWay ==
  ASSUME IInv, Gets, NEW p \in Procs, PrintSecret(p)
  PROVE  OnItsWay(p)'
<1>1. /\ pc[p] = "print" /\ UNCHANGED <<job, wanted>>
      /\ job[p].cmd = "get" /\ out[p] = {} /\ wanted[p] # Gone /\ got[p] = wanted[p]
  BY DEF PrintSecret, seen, Gets, OnItsWay
<1>2. CASE Printable(job[p], got[p])
  <2>1. pc'[p] = "done" /\ out'[p] = {Shown(job[p], wanted[p])}
    BY <1>1, <1>2 DEF PrintSecret, IInv, TypeOK, Gets
  <2>2. Printed(p)'
    <3>1. CASE job[p].field = ""
      BY <1>1, <2>1, <3>1 DEF Printed, Shown
    <3>2. CASE job[p].field # ""
      <4>1. job[p].field \in DOMAIN wanted[p] /\ wanted[p][job[p].field].kind # "null"
        BY <1>1, <1>2, <3>2 DEF Printable
      <4>2. \E form \in {"json", "plain"} : out'[p] = {<<form, wanted[p][job[p].field]>>}
        BY <2>1, <3>2 DEF Shown
      <4>3. QED
        BY <1>1, <3>2, <4>1, <4>2 DEF Printed
    <3>3. QED
      BY <3>1, <3>2
  <2>3. QED
    BY <1>1, <2>1, <2>2 DEF OnItsWay, FileSteps
<1>3. CASE ~Printable(job[p], got[p])
  BY <1>1, <1>3 DEF PrintSecret, Fail, IInv, TypeOK, OnItsWay, FileSteps
<1> QED
  BY <1>2, <1>3

LEMMA CommandKeepsGets ==
  ASSUME IInv, Gets, Layout, AskedPlainly, NEW p \in Procs, Command(p)
  PROVE  Gets'
<1>1. /\ UNCHANGED <<job, version, store>> /\ DOMAIN out' = Procs
      /\ \A q \in Procs \ {p} :
           /\ pc'[q] = pc[q] /\ mount'[q] = mount[q] /\ got'[q] = got[q]
           /\ out'[q] = out[q] /\ wanted'[q] = wanted[q]
  BY OthersStay DEF IInv, Gets
<1>2. \A q \in Procs \ {p} : OnItsWay(q)'
  BY <1>1, StaysOnItsWay DEF Gets
<1>3. OnItsWay(p)'
  <2>1. CASE KVMount(p)
    BY <2>1, MountKeepsOnItsWay
  <2>2. CASE PrintSecret(p)
    BY <2>2, PrintKeepsOnItsWay
  <2>3. CASE KVRead(p)
    <3>1. pc[p] = "read" /\ UNCHANGED <<job, out>> /\ job[p].cmd = "get" /\ out[p] = {}
      BY <2>3 DEF KVRead, Gets, OnItsWay
    <3>2. pc'[p] \in {"print", "failed"}
      BY <2>3 DEF KVRead, Fail, IInv, TypeOK
    <3>3. QED
      BY <2>3, <3>1, <3>2, ReadIsWanted DEF OnItsWay, FileSteps
  <2>4. CASE Start(p)
    <3>1. UNCHANGED <<job, out>> /\ out[p] = {}
      BY <2>4 DEF Start, Gets, OnItsWay
    <3>2. pc'[p] \in {"login", "failed"} \/ (pc'[p] = "lookup" /\ job[p].cmd = "get")
      BY <2>4, JobFacts DEF Start, Refused, IInv, TypeOK
    <3>3. QED
      BY <3>1, <3>2 DEF OnItsWay, FileSteps
  <2>5. CASE AppRoleLogin(p)
    <3>1. /\ pc[p] = "login" /\ pc'[p] = "open" /\ UNCHANGED <<job, out>> /\ out[p] = {}
          /\ job[p].cmd = "login"
      BY <2>5 DEF AppRoleLogin, Move, Gets, OnItsWay, IInv, TypeOK, Sessions
    <3>2. QED
      BY <3>1 DEF OnItsWay, FileSteps
  <2>6. CASE OpenFile(p) \/ Chmod(p) \/ WriteString(p) \/ CloseFile(p)
    <3>1. /\ pc[p] \in FileSteps /\ pc'[p] \in {"chmod", "write", "close", "done"}
          /\ UNCHANGED <<job, out>>
      BY <2>6 DEF OpenFile, Chmod, WriteString, CloseFile, Move, FileSteps, local, IInv, TypeOK
    <3>2. job[p].cmd = "login" /\ out[p] = {}
      BY <3>1 DEF Gets, OnItsWay, FileSteps
    <3>3. QED
      BY <3>1, <3>2 DEF OnItsWay, FileSteps
  <2>7. CASE Lost(p)
    <3>1. /\ pc[p] \in Requests /\ pc'[p] \in {pc[p], "failed"}
          /\ UNCHANGED <<job, mount, got, out, version, wanted>>
      BY <2>7 DEF Lost, Fail, seen, IInv, TypeOK
    <3>2. OnItsWay(p) /\ out[p] = {}
      BY <3>1 DEF Gets, OnItsWay, Requests
    <3>3. QED
      BY <3>1, <3>2 DEF OnItsWay, FileSteps, Requests, LookedUp, Path, MountsOver
  <2>8. CASE Refuse(p) \/ LoginDenied(p) \/ Spoilt(p) \/ FileFails(p) \/ Killed(p)
    <3>1. /\ pc[p] # "done" /\ pc'[p] \in {"failed", "killed"}
          /\ UNCHANGED <<job, out>>
      BY <2>8 DEF Refuse, LoginDenied, Spoilt, FileFails, Killed, Fail, FileSteps, Requests,
                  local, IInv, TypeOK
    <3>2. out[p] = {}
      BY <3>1 DEF Gets, OnItsWay
    <3>3. QED
      BY <3>1, <3>2 DEF OnItsWay, FileSteps
  <2>9. QED
    BY <2>1, <2>2, <2>3, <2>4, <2>5, <2>6, <2>7, <2>8 DEF Command
<1> QED
  BY <1>1, <1>2, <1>3 DEF Gets

LEMMA StepKeepsGets ==
  ASSUME IInv, Gets, Layout, AskedPlainly, [Next]_vars
  PROVE  Gets'
<1>1. CASE \E p \in Procs : Command(p)
  BY <1>1, CommandKeepsGets
<1>2. ASSUME UNCHANGED <<job, pc, mount, got, out, wanted>>,
             \A m \in Mounts : version[m] = 2 => version'[m] = 2
      PROVE  Gets'
  BY <1>2, StaysOnItsWay DEF Gets
<1>3. CASE \E s \in Secrets : Put(s)
  BY <1>2, <1>3 DEF Put, Change, local
<1>4. CASE \E m \in Mounts : EnableVersioning(m)
  <2>1. \A m \in Mounts : version[m] = 2 => version'[m] = 2
    BY <1>4 DEF EnableVersioning, IInv, TypeOK
  <2>2. QED
    BY <1>2, <1>4, <2>1 DEF EnableVersioning, Change, local
<1>5. CASE \E t \in valid : Expire(t)
  BY <1>2, <1>5 DEF Expire, Change, local
<1>6. CASE UNCHANGED vars
  BY <1>2, <1>6 DEF vars, local, server, seen
<1> QED
  BY <1>1, <1>3, <1>4, <1>5, <1>6 DEF Next

(* What a kv get prints is what the server held, when it answered, at the  *)
(* path given on the command line; and it prints only when it succeeds     *)
(* (KVGet, runVaultKVGet): if no mount is inside another and the path is   *)
(* no request of the KV v2 API.                                            *)
THEOREM PrintsTheSecretHolds == Layout /\ AskedPlainly => (Spec => []PrintsTheSecret)
<1> SUFFICES ASSUME Layout /\ AskedPlainly PROVE Spec => []PrintsTheSecret
  OBVIOUS
<1>1. Init => Gets
  BY GetsInit
<1>2. IInv /\ Gets /\ [Next]_vars => Gets'
  BY StepKeepsGets
<1>3. Gets => PrintsTheSecret
  BY DEF Gets, OnItsWay, Printed, PrintsTheSecret
<1> QED
  BY <1>1, <1>2, <1>3, Inductive, PTL DEF Spec

-----------------------------------------------------------------------------
(* When a command gives up. *)

(* The mount is the path's, of the version it was looked up as. *)
Mounted(p) ==
  IF mount[p].v2
  THEN mount[p].path \in MountsOver(Path(p)) /\ version[mount[p].path] = 2
  ELSE \A m \in MountsOver(Path(p)) : version[m] = 1

Served(p) ==
  /\ Accepts(token[p])
  /\ Path(p) \in Secrets /\ store[Path(p)] # Gone /\ Printable(job[p], store[Path(p)])

(* What a command that lacks nothing has at each step. *)
Patient(p) ==
  /\ pc[p] = "idle" => ~due[p]
  /\ pc[p] \in {"lookup", "read"} /\ due[p] => Served(p)
  /\ pc[p] = "read" /\ due[p] => Mounted(p)
  /\ pc[p] = "print" /\ due[p] => Printable(job[p], got[p])
  /\ pc[p] = "failed" /\ due[p] => tries[p] > MaxRetries

Patience ==
  /\ DOMAIN out = Procs
  /\ ~HasLookup => \A m \in Mounts : version[m] = 1
  /\ \A p \in Procs : Patient(p)

LEMMA EmptyIsNoToken == ASSUME TypeOK PROVE ~Accepts(Empty)
<1>1. SUFFICES ASSUME NEW t \in valid, Text(t) = Empty PROVE FALSE
  BY DEF Accepts
<1>2. t \in 0 .. SecretUses
  BY VaultAssumption DEF TypeOK
<1> QED
  BY <1>1, <1>2, TextFacts

LEMMA MountOfSecret ==
  ASSUME Layout, Named, NEW path \in Secrets
  PROVE  /\ path \in Paths
         /\ \E m \in MountsOver(path) : MountsOver(path) = {m} /\ Len(m) < Len(path)
<1>1. path \in Paths
  BY DEF Layout
<1>2. PICK m \in MountsOver(path) : Len(m) < Len(path)
  BY DEF Named
<1>3. \A n \in MountsOver(path) : n = m
  BY <1>1, <1>2, OneMount DEF MountsOver
<1> QED
  BY <1>1, <1>2, <1>3

LEMMA ReadIsAnswered ==
  ASSUME Layout, Named, NEW p \in Procs, Path(p) \in Secrets, Mounted(p)
  PROVE  Answer(RequestPath(Path(p), mount[p])) = store[Path(p)]
<1> DEFINE path == Path(p)
           req == RequestPath(path, mount[p])
<1>1. path \in Paths
  BY MountOfSecret
<1>2. PICK m \in MountsOver(path) : MountsOver(path) = {m} /\ Len(m) < Len(path)
  BY MountOfSecret
<1>3. mount[p].v2 => mount[p].path = m /\ version[m] = 2
  BY <1>2 DEF Mounted
<1>4. ~mount[p].v2 => version[m] = 1
  BY <1>2 DEF Mounted
<1>5. path \in Addressed(req)
  <2>1. CASE mount[p].v2
    <3>1. req = m \o <<"data">> \o SubSeq(path, Len(m) + 1, Len(path))
      BY <1>2, <1>3, <2>1 DEF RequestPath, TrimPrefix
    <3>2. QED
      BY <1>2, <1>3, <2>1, <3>1 DEF Addressed
  <2>2. CASE ~mount[p].v2
    <3>1. req = path
      BY <2>2 DEF RequestPath
    <3>2. version[m] # 2
      BY <1>4, <2>2
    <3>3. QED
      BY <1>2, <3>1, <3>2 DEF Addressed
  <2>3. QED
    BY <2>1, <2>2
<1>6. Addressed(req) \subseteq {path}
  <2>1. LookedUp(p) /\ (mount[p].v2 => Len(mount[p].path) < Len(path))
    BY <1>2, <1>3 DEF LookedUp
  <2>2. mount[p].v2 \/ NoRequest(path)
    <3>1. ~mount[p].v2 => \A n \in MountsOver(path) : version[n] # 2
      BY <1>2, <1>4
    <3>2. QED
      BY <3>1 DEF NoRequest
  <2>3. QED
    BY <1>1, <2>1, <2>2, AddressesAtMostThePath
<1>7. Addressed(req) = {path}
  BY <1>5, <1>6
<1> QED
  BY <1>7 DEF Answer

(* Nothing a command does takes a token, a mount or a secret away. *)
LEMMA StaysPatient ==
  ASSUME NEW p \in Procs, Patient(p), UNCHANGED <<job, version, store>>, valid \subseteq valid',
         pc'[p] = pc[p], mount'[p] = mount[p], got'[p] = got[p], token'[p] = token[p],
         due'[p] = due[p], tries'[p] = tries[p]
  PROVE  Patient(p)'
<1>1. Path(p)' = Path(p)
  BY DEF Path
<1>2. Served(p) => Served(p)'
  BY <1>1 DEF Served, Accepts, Printable, Plain
<1>3. Mounted(p) => Mounted(p)'
  BY <1>1 DEF Mounted, MountsOver
<1>4. Printable(job[p], got[p]) => Printable(job[p], got[p])'
  BY DEF Printable, Plain
<1> QED
  BY <1>2, <1>3, <1>4 DEF Patient

LEMMA TokensStay ==
  ASSUME NEW p \in Procs, Command(p)
  PROVE  valid \subseteq valid'
<1>1. Issue \/ UNCHANGED <<issued, valid>>
  BY DEF Command, Refuse, Start, AppRoleLogin, LoginDenied, KVMount, KVRead, Lost, Spoilt,
         PrintSecret, OpenFile, Chmod, WriteString, CloseFile, FileFails, Killed, server
<1> QED
  BY <1>1 DEF Issue

LEMMA StartsPatient ==
  ASSUME IInv, Patience, NEW p \in Procs, Start(p)
  PROVE  Patient(p)'
<1>1. /\ UNCHANGED <<job, issued, valid, version, store>>
      /\ pc[p] = "idle" /\ ~Refused(job[p])
      /\ token'[p] = NewToken(job[p])
      /\ due'[p] = Servable(p)
      /\ pc'[p] = IF job[p].cmd = "login" THEN "login"
                  ELSE IF NewToken(job[p]) = Empty THEN "failed" ELSE "lookup"
  BY DEF Start, server, IInv, TypeOK
<1>2. job[p].cmd # "login" /\ due'[p] => Served(p)' /\ NewToken(job[p]) # Empty
  <2>1. SUFFICES ASSUME job[p].cmd # "login", due'[p] PROVE Served(p)' /\ NewToken(job[p]) # Empty
    OBVIOUS
  <2>2. /\ Accepts(NewToken(job[p]))
        /\ Path(p) \in Secrets /\ store[Path(p)] # Gone /\ Printable(job[p], store[Path(p)])
    BY <1>1, <2>1 DEF Servable
  <2>3. NewToken(job[p]) # Empty
    BY <2>2, EmptyIsNoToken DEF IInv
  <2>4. Path(p)' = Path(p)
    BY <1>1 DEF Path
  <2>5. QED
    BY <1>1, <2>2, <2>3, <2>4 DEF Served, Accepts, Printable, Plain
<1> QED
  BY <1>1, <1>2 DEF Patient

LEMMA LooksUpPatiently ==
  ASSUME IInv, Patience, Layout, Named, NEW p \in Procs, KVMount(p)
  PROVE  Patient(p)'
<1>1. pc[p] = "lookup" /\ UNCHANGED <<job, token, got, valid, version, store, due>>
  BY DEF KVMount, local, server, seen
<1>2. pc'[p] \in {"failed", "read"}
  BY DEF KVMount, Fail, IInv, TypeOK
<1>3. SUFFICES ASSUME due[p] PROVE pc'[p] = "read" /\ Served(p)' /\ Mounted(p)'
  BY <1>1, <1>2 DEF Patient
<1>4. Served(p)
  BY <1>1, <1>3 DEF Patience, Patient
<1>5. PICK m \in MountsOver(Path(p)) : MountsOver(Path(p)) = {m}
  BY <1>4, MountOfSecret DEF Served
<1>6. Accepts(token[p]) /\ MountsOver(Path(p)) # {}
  BY <1>4, <1>5 DEF Served
<1>7. pc'[p] = "read"
  BY <1>1, <1>6 DEF KVMount, IInv, TypeOK
<1>8. Path(p)' = Path(p)
  BY <1>1 DEF Path
<1>9. Served(p)'
  BY <1>1, <1>4, <1>8 DEF Served, Accepts, Printable, Plain
<1>10. Mounted(p)'
  <2>1. m \in Mounts
    BY <1>5 DEF MountsOver
  <2>2. CASE ~HasLookup
    <3>1. mount' = [mount EXCEPT ![p] = [path |-> <<>>, v2 |-> FALSE]]
      BY <1>6, <2>2 DEF KVMount
    <3>2. ~mount'[p].v2
      BY <3>1 DEF IInv, TypeOK
    <3>3. version[m] = 1
      BY <2>1, <2>2 DEF Patience
    <3>4. QED
      BY <1>1, <1>5, <1>8, <3>2, <3>3 DEF Mounted, MountsOver
  <2>3. CASE HasLookup
    <3>1. mount' = [mount EXCEPT ![p] = [path |-> m, v2 |-> version[m] = 2]]
      BY <1>5, <1>6, <2>3 DEF KVMount
    <3>2. mount'[p].path = m /\ mount'[p].v2 = (version[m] = 2)
      BY <3>1 DEF IInv, TypeOK
    <3>3. version[m] \in {1, 2}
      BY <2>1 DEF IInv, TypeOK
    <3>4. QED
      BY <1>1, <1>5, <1>8, <3>2, <3>3 DEF Mounted, MountsOver
  <2>4. QED
    BY <2>2, <2>3
<1> QED
  BY <1>7, <1>9, <1>10

LEMMA ReadsPatiently ==
  ASSUME IInv, Patience, Layout, Named, NEW p \in Procs, KVRead(p)
  PROVE  Patient(p)'
<1> DEFINE c == Answer(RequestPath(Path(p), mount[p]))
<1>1. pc[p] = "read" /\ UNCHANGED <<job, due>>
  BY DEF KVRead
<1>2. pc'[p] \in {"failed", "print"}
  BY DEF KVRead, Fail, IInv, TypeOK
<1>3. SUFFICES ASSUME due[p] PROVE pc'[p] = "print" /\ Printable(job[p], got'[p])
  BY <1>1, <1>2 DEF Patient, Printable, Plain
<1>4. Served(p) /\ Mounted(p)
  BY <1>1, <1>3 DEF Patience, Patient
<1>5. c = store[Path(p)]
  BY <1>4, ReadIsAnswered DEF Served
<1>6. Accepts(token[p]) /\ c # Gone /\ Printable(job[p], c)
  BY <1>4, <1>5 DEF Served
<1>7. pc'[p] = "print" /\ got'[p] = c
  BY <1>6 DEF KVRead, Decode, IInv, TypeOK
<1> QED
  BY <1>6, <1>7

LEMMA LosesPatiently ==
  ASSUME IInv, Patience, NEW p \in Procs, Lost(p)
  PROVE  Patient(p)'
<1>1. /\ pc[p] \in Requests /\ valid \subseteq valid' /\ Patient(p)
      /\ UNCHANGED <<job, token, mount, got, version, store, due>>
      /\ tries'[p] = tries[p] + 1
      /\ IF tries[p] < MaxRetries THEN pc'[p] = pc[p] ELSE pc'[p] = "failed"
  <2>1. valid \subseteq valid'
    BY TokensStay DEF Command
  <2>2. QED
    BY <2>1 DEF Lost, MayRetry, Fail, seen, Patience, IInv, TypeOK
<1>2. Path(p)' = Path(p)
  BY <1>1 DEF Path
<1>3. Served(p) => Served(p)'
  BY <1>1, <1>2 DEF Served, Accepts, Printable, Plain
<1>4. Mounted(p) => Mounted(p)'
  BY <1>1, <1>2 DEF Mounted, MountsOver
<1>5. CASE tries[p] < MaxRetries
  BY <1>1, <1>3, <1>4, <1>5 DEF Patient, Requests
<1>6. CASE ~(tries[p] < MaxRetries)
  <2>1. tries[p] \in 0 .. (MaxRetries + 1)
    BY DEF IInv, TypeOK
  <2>2. tries'[p] > MaxRetries
    BY <1>1, <1>6, <2>1, VaultAssumption
  <2>3. QED
    BY <1>1, <1>6, <2>2 DEF Patient
<1> QED
  BY <1>5, <1>6

LEMMA CommandKeepsPatience ==
  ASSUME IInv, Patience, Layout, Named, NEW p \in Procs, Command(p)
  PROVE  Patience'
<1>1. /\ UNCHANGED <<job, version, store>> /\ DOMAIN out' = Procs
      /\ \A q \in Procs \ {p} :
           /\ pc'[q] = pc[q] /\ token'[q] = token[q] /\ tries'[q] = tries[q]
           /\ mount'[q] = mount[q] /\ got'[q] = got[q] /\ due'[q] = due[q]
  BY OthersStay DEF IInv, Patience
<1>2. \A q \in Procs \ {p} : Patient(q)'
  BY <1>1, TokensStay, StaysPatient DEF Patience
<1>3. Patient(p)'
  <2>1. CASE Start(p)
    BY <2>1, StartsPatient
  <2>2. CASE KVMount(p)
    BY <2>2, LooksUpPatiently
  <2>3. CASE KVRead(p)
    BY <2>3, ReadsPatiently
  <2>4. CASE Lost(p)
    BY <2>4, LosesPatiently
  <2>5. CASE Refuse(p)
    <3>1. pc[p] = "idle" /\ pc'[p] = "failed" /\ due'[p] = due[p]
      BY <2>5 DEF Refuse, Fail, seen, IInv, TypeOK
    <3>2. QED
      BY <3>1 DEF Patience, Patient
  <2>6. CASE PrintSecret(p)
    <3>1. /\ pc[p] = "print" /\ due'[p] = due[p]
          /\ IF Printable(job[p], got[p]) THEN pc'[p] = "done" ELSE pc'[p] = "failed"
      BY <2>6 DEF PrintSecret, Fail, seen, IInv, TypeOK
    <3>2. QED
      BY <3>1 DEF Patience, Patient
  <2>7. CASE LoginDenied(p) \/ Spoilt(p) \/ FileFails(p)
    <3>1. pc'[p] = "failed" /\ ~due'[p]
      BY <2>7 DEF LoginDenied, Spoilt, FileFails, Fail, IInv, TypeOK
    <3>2. QED
      BY <3>1 DEF Patient
  <2>8. CASE AppRoleLogin(p) \/ OpenFile(p) \/ Chmod(p) \/ WriteString(p) \/ CloseFile(p) \/ Killed(p)
    <3>1. pc'[p] \in {"done", "killed"} \cup FileSteps
      BY <2>8 DEF AppRoleLogin, OpenFile, Chmod, WriteString, CloseFile, Killed, Move, FileSteps,
                  IInv, TypeOK
    <3>2. QED
      BY <3>1 DEF Patient, FileSteps
  <2>9. QED
    BY <2>1, <2>2, <2>3, <2>4, <2>5, <2>6, <2>7, <2>8 DEF Command
<1> QED
  BY <1>1, <1>2, <1>3 DEF Patience

LEMMA StepKeepsPatience ==
  ASSUME IInv, Patience, Layout, Named, [Next]_vars
  PROVE  Patience'
<1>1. CASE \E p \in Procs : Command(p)
  BY <1>1, CommandKeepsPatience
<1>2. ASSUME Undue, UNCHANGED out, ~HasLookup => UNCHANGED version
      PROVE  Patience'
  <2>1. \A p \in Procs : ~due'[p]
    BY <1>2 DEF Undue
  <2>2. \A p \in Procs : Patient(p)'
    BY <2>1 DEF Patient
  <2>3. QED
    BY <1>2, <2>2 DEF Patience
<1>3. CASE \E s \in Secrets : Put(s)
  BY <1>2, <1>3 DEF Put, Change, local
<1>4. CASE \E m \in Mounts : EnableVersioning(m)
  BY <1>2, <1>4 DEF EnableVersioning, Change, local
<1>5. CASE \E t \in valid : Expire(t)
  BY <1>2, <1>5 DEF Expire, Change, local
<1>6. CASE UNCHANGED vars
  <2>1. UNCHANGED <<job, pc, token, tries, mount, got, out, valid, version, store, due>>
    BY <1>6 DEF vars, local, server, seen
  <2>2. \A p \in Procs : Patient(p)'
    BY <2>1, StaysPatient DEF Patience
  <2>3. QED
    BY <2>1, <2>2 DEF Patience
<1> QED
  BY <1>1, <1>3, <1>4, <1>5, <1>6 DEF Next

LEMMA PatienceInit == Init => Patience
<1>1. SUFFICES ASSUME Init PROVE Patience
  OBVIOUS
<1>2. ~HasLookup => \A m \in Mounts : version[m] = 1
  BY <1>1 DEF Init
<1>3. \A p \in Procs : pc[p] = "idle" /\ ~due[p]
  BY <1>1 DEF Init
<1> QED
  BY <1>1, <1>2, <1>3 DEF Init, Patience, Patient

(* A command that has all it needs, from its start to its end, fails only  *)
(* if more than MaxRetries attempts of one request in a row went without   *)
(* an answer (New's retrying client): if no mount is inside another and    *)
(* every secret has a name within one.                                     *)
THEOREM SurvivesOutagesHolds == Layout /\ Named => (Spec => []SurvivesOutages)
<1> SUFFICES ASSUME Layout /\ Named PROVE Spec => []SurvivesOutages
  OBVIOUS
<1>1. Init => Patience
  BY PatienceInit
<1>2. IInv /\ Patience /\ [Next]_vars => Patience'
  BY StepKeepsPatience
<1>3. Patience => SurvivesOutages
  BY DEF Patience, Patient, SurvivesOutages
<1> QED
  BY <1>1, <1>2, <1>3, Inductive, PTL DEF Spec
=============================================================================
