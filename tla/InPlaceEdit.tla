----------------------------- MODULE InPlaceEdit -----------------------------
(***************************************************************************)
(* The in-place editor of `devbase yq -i` (internal/yq/inplace.go):        *)
(* RunFiles starts one goroutine per distinct path string, at most Limit   *)
(* at a time; each goroutine calls RunFile once per occurrence of its      *)
(* path, and RunFile reads, evaluates and then replaces the file by a      *)
(* temporary file and a rename.                                            *)
(*                                                                         *)
(* The file system is a directory of entries.  An entry is a regular file  *)
(* or a symbolic link to one; several path strings ("a", "./a") may name   *)
(* one entry.  A file's content is abstracted to the sequence of operands  *)
(* whose filter results it was built from: the edit of operand i turns the *)
(* content s that was read into Append(s, i).                              *)
(***************************************************************************)
EXTENDS Naturals, Sequences, FiniteSets

CONSTANTS
  Paths,    \* path strings
  Operands, \* the file operands, a sequence of path strings
  Entries,  \* directory entries
  EntryOf,  \* the entry a path string names
  LinkOf,   \* the file an entry leads to at the start; itself unless a symlink
  Limit     \* runtime.NumCPU()

ASSUME OperandsAssumption == Operands \in Seq(Paths)
ASSUME EntryAssumption    == EntryOf \in [Paths -> Entries]
ASSUME LinkAssumption     == /\ LinkOf \in [Entries -> Entries]
                             /\ \A e \in Entries : LinkOf[LinkOf[e]] = LinkOf[e]
ASSUME LimitAssumption    == Limit \in Nat \ {0}

VARIABLES
  entry,    \* entry[e]: the regular file e holds (of no use while e is a link)
  link,     \* link[e]: the entry reading e leads to
  tmp,      \* tmp[i]: the temporary file of operand i, or NoFile
  started,  \* the paths whose goroutine has been started
  pc,       \* pc[i]: how far RunFile has come for operand i
  snap,     \* snap[i]: the content RunFile decoded
  mode,     \* mode[i]: the permissions os.Stat returned
  errs,     \* errs[i]: operand i's error, or "nil"
  result,   \* what RunFiles returned: the failed operands in order
  crashed   \* the process was killed

vars == <<entry, link, tmp, started, pc, snap, mode, errs, result, crashed>>

Index == DOMAIN Operands

NoResult == <<0>>  \* no operand has index 0

(* Permissions are named by the entry they belonged to at the start;       *)
(* os.CreateTemp's own are "0600", and a file that does not exist has none. *)
Modes == Entries \cup {"0600", "none"}

Files  == [edits : Seq(Index), whole : BOOLEAN, mode : Modes]
NoFile == [edits |-> <<>>, whole |-> FALSE, mode |-> "none"]

BeforeTemp == {"decoded", "rendered"}
WithTemp   == {"created", "written", "closed", "moded"}
Active     == BeforeTemp \cup WithTemp \cup {"renamed", "failed"}

TypeOK ==
  /\ entry \in [Entries -> Files]
  /\ link \in [Entries -> Entries]
  /\ tmp \in [Index -> Files]
  /\ started \subseteq Paths
  /\ pc \in [Index -> {"waiting", "returned"} \cup Active]
  /\ snap \in [Index -> Seq(Index)]
  /\ mode \in [Index -> Modes]
  /\ errs \in [Index -> {"nil", "decode", "evaluate", "no output", "write"}]
  /\ crashed \in BOOLEAN

Init ==
  /\ entry = [e \in Entries |-> [edits |-> <<>>, whole |-> TRUE, mode |-> e]]
  /\ link = LinkOf
  /\ tmp = [i \in Index |-> NoFile]
  /\ started = {}
  /\ pc = [i \in Index |-> "waiting"]
  /\ snap = [i \in Index |-> <<>>]
  /\ mode = [i \in Index |-> "0600"]
  /\ errs = [i \in Index |-> "nil"]
  /\ result = NoResult
  /\ crashed = FALSE

(* The file that reading or stat-ing path p yields, links followed. *)
FileAt(p) == entry[link[EntryOf[p]]]

OperandPaths == {Operands[i] : i \in Index}
Of(p)        == {i \in Index : Operands[i] = p}
Running      == {p \in started : \E i \in Of(p) : pc[i] # "returned"}

Goto(i, from, to) ==
  /\ ~crashed
  /\ pc[i] = from
  /\ pc' = [pc EXCEPT ![i] = to]

(* A faulty variant of ReturnError: an error without a text. *)
ReturnError_Textless(i, e) ==
  /\ errs' = [errs EXCEPT ![i] = ""]
  /\ UNCHANGED <<entry, link, tmp, started, snap, mode, result, crashed>>

(* RunFile returns error e before any temporary file exists. *)
ReturnError(i, e) ==
  /\ errs' = [errs EXCEPT ![i] = e]
  /\ UNCHANGED <<entry, link, tmp, started, snap, mode, result, crashed>>

(* RunFile is about to return a write error; the deferred Remove is left. *)
WriteError(i) ==
  /\ errs' = [errs EXCEPT ![i] = "write"]
  /\ UNCHANGED <<entry, link, started, snap, mode, result, crashed>>

-----------------------------------------------------------------------------
(* Faulty variants of definitions below, each a plausible slip in           *)
(* inplace.go; they show that the properties can fail.                      *)

(* One goroutine per occurrence instead of one per path. *)
MyTurn_Concurrent(i) == Operands[i] \in started

(* A path's later occurrences are abandoned after a failure. *)
MyTurn_StopOnError(i) ==
  /\ Operands[i] \in started
  /\ \A j \in Of(Operands[i]) : j < i => pc[j] = "returned" /\ errs[j] = "nil"

(* A filter without output counts as success. *)
RenderFails_NoOutputIsFine(i) ==
  /\ Goto(i, "decoded", "returned")
  /\ \E e \in {"evaluate", "nil"} : ReturnError(i, e)

(* Truncate-then-write: the data goes straight into the file. *)
WriteTemp_InPlace(i) ==
  /\ Goto(i, "created", "written")
  /\ entry' = [entry EXCEPT ![link[EntryOf[Operands[i]]]].edits = Append(snap[i], i)]
  /\ tmp' = [tmp EXCEPT ![i].edits = Append(snap[i], i), ![i].whole = TRUE]
  /\ UNCHANGED <<link, started, snap, mode, errs, result, crashed>>

(* The error of a short write is dropped. *)
WriteTempFails_Ignored(i) ==
  /\ Goto(i, "created", "written")
  /\ tmp' = [tmp EXCEPT ![i].edits = Append(snap[i], i)]
  /\ UNCHANGED <<entry, link, started, snap, mode, errs, result, crashed>>

-----------------------------------------------------------------------------

(* g.Go for path p's occurrences: blocks while Limit goroutines run. *)
Start(p) ==
  /\ ~crashed
  /\ p \notin started
  /\ Cardinality(Running) < Limit
  /\ started' = started \cup {p}
  /\ UNCHANGED <<entry, link, tmp, pc, snap, mode, errs, result, crashed>>

(* It is operand i's turn in its path's goroutine. *)
MyTurn(i) ==
  /\ Operands[i] \in started
  /\ \A j \in Of(Operands[i]) : j < i => pc[j] = "returned"

(* decodeFile: read and parse the whole file. *)
Decode(i) ==
  /\ MyTurn(i)
  /\ Goto(i, "waiting", "decoded")
  /\ snap' = [snap EXCEPT ![i] = FileAt(Operands[i]).edits]
  /\ UNCHANGED <<entry, link, tmp, started, mode, errs, result, crashed>>

DecodeFails(i) ==
  /\ MyTurn(i)
  /\ Goto(i, "waiting", "returned")
  /\ ReturnError(i, "decode")

(* The renderDocument loop: output for every document, or an error from    *)
(* any one of them, or no output at all.                                   *)
Render(i) ==
  /\ Goto(i, "decoded", "rendered")
  /\ UNCHANGED <<entry, link, tmp, started, snap, mode, errs, result, crashed>>

RenderFails(i) ==
  /\ Goto(i, "decoded", "returned")
  /\ \E e \in {"evaluate", "no output"} : ReturnError(i, e)

(* writeFileAtomically: os.Stat for the permissions, then os.CreateTemp.   *)
CreateTemp(i) ==
  /\ Goto(i, "rendered", "created")
  /\ mode' = [mode EXCEPT ![i] = FileAt(Operands[i]).mode]
  /\ tmp' = [tmp EXCEPT ![i] =
               [edits |-> <<>>, whole |-> FALSE, mode |-> "0600"]]
  /\ UNCHANGED <<entry, link, started, snap, errs, result, crashed>>

CreateTempFails(i) ==
  /\ Goto(i, "rendered", "returned")
  /\ ReturnError(i, "write")

WriteTemp(i) ==
  /\ Goto(i, "created", "written")
  /\ tmp' = [tmp EXCEPT ![i].edits = Append(snap[i], i), ![i].whole = TRUE]
  /\ UNCHANGED <<entry, link, started, snap, mode, errs, result, crashed>>

(* A short write: part of the data is in the temporary file. *)
WriteTempFails(i) ==
  /\ Goto(i, "created", "failed")
  /\ tmp' = [tmp EXCEPT ![i].edits = Append(snap[i], i)]
  /\ WriteError(i)

CloseTemp(i) ==
  /\ Goto(i, "written", "closed")
  /\ UNCHANGED <<entry, link, tmp, started, snap, mode, errs, result, crashed>>

ChmodTemp(i) ==
  /\ Goto(i, "closed", "moded")
  /\ tmp' = [tmp EXCEPT ![i].mode = mode[i]]
  /\ UNCHANGED <<entry, link, started, snap, mode, errs, result, crashed>>

(* os.Rename replaces the entry itself, a symbolic link included. *)
Rename(i) ==
  LET e == EntryOf[Operands[i]]
  IN  /\ Goto(i, "moded", "renamed")
      /\ entry' = [entry EXCEPT ![e] = tmp[i]]
      /\ link' = [link EXCEPT ![e] = e]
      /\ tmp' = [tmp EXCEPT ![i] = NoFile]
      /\ UNCHANGED <<started, snap, mode, errs, result, crashed>>

(* Close, Chmod or Rename reports an error. *)
TempStepFails(i) ==
  /\ \E from \in {"written", "closed", "moded"} : Goto(i, from, "failed")
  /\ WriteError(i)
  /\ UNCHANGED tmp

(* The deferred os.Remove(tmpPath): a no-op once the rename has succeeded. *)
RemoveTemp(i) ==
  /\ \E from \in {"renamed", "failed"} : Goto(i, from, "returned")
  /\ tmp' = [tmp EXCEPT ![i] = NoFile]
  /\ UNCHANGED <<entry, link, started, snap, mode, errs, result, crashed>>

(* Numbers, the smallest first. *)
InOrder(S) ==
  [k \in 1 .. Cardinality(S) |->
     CHOOSE i \in S : Cardinality({j \in S : j < i}) = k - 1]

(* g.Wait returns and the errors are gathered in the order of the operands. *)
Report ==
  /\ ~crashed
  /\ result = NoResult
  /\ \A i \in Index : pc[i] = "returned"
  /\ result' = InOrder({i \in Index : errs[i] # "nil"})
  /\ UNCHANGED <<entry, link, tmp, started, pc, snap, mode, errs, crashed>>

(* The process is killed between any two steps. *)
Crash ==
  /\ ~crashed
  /\ result = NoResult
  /\ crashed' = TRUE
  /\ UNCHANGED <<entry, link, tmp, started, pc, snap, mode, errs, result>>

Finished ==
  /\ crashed \/ result # NoResult
  /\ UNCHANGED vars

RunFile(i) ==
  \/ Decode(i) \/ DecodeFails(i)
  \/ Render(i) \/ RenderFails(i)
  \/ CreateTemp(i) \/ CreateTempFails(i)
  \/ WriteTemp(i) \/ WriteTempFails(i)
  \/ CloseTemp(i) \/ ChmodTemp(i) \/ Rename(i) \/ TempStepFails(i)
  \/ RemoveTemp(i)

Next ==
  \/ \E p \in OperandPaths : Start(p)
  \/ \E i \in Index : RunFile(i)
  \/ Report
  \/ Crash
  \/ Finished

(* The Go scheduler runs every runnable goroutine, and g.Go and g.Wait are *)
(* called by the main one.  Nothing obliges the process to be killed.      *)
Fairness ==
  /\ \A p \in OperandPaths : WF_vars(Start(p))
  /\ \A i \in Index : WF_vars(RunFile(i))
  /\ WF_vars(Report)

Spec     == Init /\ [][Next]_vars
FairSpec == Spec /\ Fairness

-----------------------------------------------------------------------------

(* The operands whose rename has taken place. *)
Applied == {i \in Index : pc[i] = "renamed" \/ (pc[i] = "returned" /\ errs[i] = "nil")}

(* No two operands, spelled differently, name one entry, and no operand is *)
(* the target of another operand's symbolic link.                          *)
NoAlias ==
  \A p, q \in Paths :
    p # q => EntryOf[p] # EntryOf[q] /\ LinkOf[EntryOf[p]] # EntryOf[q]

(* No edit is lost and none is applied twice or out of order: what a path  *)
(* holds was built by exactly the operands on it whose rename succeeded,   *)
(* in the order they were given, each on the previous one's output         *)
(* (RunFiles' grouping by path, inplace.go:92-110).                        *)
NoLostUpdate ==
  \A p \in Paths :
    LET s == FileAt(p).edits
    IN  /\ {s[k] : k \in 1 .. Len(s)} = Applied \cap Of(p)
        /\ \A k, l \in 1 .. Len(s) : k < l => s[k] < s[l]

(* At every moment, a kill included, each path reads as a complete file    *)
(* with the permissions it had at the start: never truncated, partially    *)
(* written, or with the temporary file's own permissions                   *)
(* (writeFileAtomically, inplace.go:122-154).                              *)
NeverTorn ==
  \A p \in Paths :
    /\ FileAt(p).whole
    /\ FileAt(p).mode = LinkOf[EntryOf[p]]

(* When RunFiles has returned, an operand is missing from the errors if    *)
(* and only if its edit is in its file, and the errors are in operand      *)
(* order: nothing fails silently and no failed edit leaves a trace.        *)
NoSilentLoss ==
  result # NoResult =>
    /\ \A i \in Index :
         LET s == FileAt(Operands[i]).edits
         IN  (\E k \in 1 .. Len(result) : result[k] = i)
               <=> ~ \E k \in 1 .. Len(s) : s[k] = i
    /\ \A k, l \in 1 .. Len(result) : k < l => result[k] < result[l]

(* A temporary file belongs to a RunFile call still in progress, so none is *)
(* left in the directory once RunFiles has returned (deferred os.Remove).   *)
NoTempLeft ==
  \A i \in Index : tmp[i] # NoFile => pc[i] \in WithTemp \cup {"failed"}

(* One operand's failure never keeps another from being attempted: without *)
(* a kill, RunFiles returns, and then every operand has been run           *)
(* (errs[i] is collected, not returned to the group).                      *)
EveryOperandSettles ==
  <>(crashed \/ (result # NoResult /\ \A i \in Index : pc[i] = "returned"))

-----------------------------------------------------------------------------

(* The inductive invariant of the proofs in InPlaceEditProofs: the above    *)
(* hold because calls on one path never overlap, because nothing rewrites   *)
(* what a call has read until it renames, and because a temporary file is   *)
(* complete by then.                                                        *)
Sequential ==
  \A i, j \in Index :
    j < i /\ Operands[i] = Operands[j] /\ pc[i] # "waiting"
      => pc[j] = "returned"

SnapshotIsCurrent ==
  \A i \in Index :
    pc[i] \in BeforeTemp \cup WithTemp => snap[i] = FileAt(Operands[i]).edits

TempIsReady ==
  \A i \in Index :
    /\ pc[i] \in WithTemp => mode[i] = LinkOf[EntryOf[Operands[i]]]
    /\ pc[i] \in {"written", "closed", "moded"}
         => tmp[i].edits = Append(snap[i], i) /\ tmp[i].whole
    /\ pc[i] = "moded" => tmp[i].mode = mode[i]

ErrsSettle ==
  \A i \in Index :
    /\ pc[i] = "failed" => errs[i] # "nil"
    /\ pc[i] \in {"waiting", "renamed"} \cup BeforeTemp \cup WithTemp
         => errs[i] = "nil"

(* A link is followed as it was given until a rename replaces it. *)
LinksFollowed ==
  \A p \in Paths : link[EntryOf[p]] \in {EntryOf[p], LinkOf[EntryOf[p]]}

IInv ==
  /\ TypeOK
  /\ Sequential
  /\ SnapshotIsCurrent
  /\ TempIsReady
  /\ ErrsSettle
  /\ LinksFollowed
  /\ NoLostUpdate
  /\ NeverTorn

-----------------------------------------------------------------------------

(* RunFiles implements AtomicEdits when no two operands alias: a rename is *)
(* the abstract edit, and setting errs[i] the abstract failure.            *)
FileView    == [p \in Paths |-> FileAt(p).edits]
OutcomeView == [i \in Index |-> IF i \in Applied THEN "edited"
                                ELSE IF errs[i] # "nil" THEN "failed"
                                ELSE "pending"]

Abstract ==
  INSTANCE AtomicEdits WITH
    file <- FileView, outcome <- OutcomeView, halted <- crashed

(* Each operand's edit is indivisible, settles once, and composes with the *)
(* edits before it on the same path, as AtomicEdits states.                *)
ImplementsAtomicEdits == Abstract!Spec

==============================================================================
