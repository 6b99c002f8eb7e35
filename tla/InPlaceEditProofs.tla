-------------------------- MODULE InPlaceEditProofs --------------------------
(***************************************************************************)
(* Proofs about InPlaceEdit for every list of operands, every directory    *)
(* and every limit on the goroutines.                                      *)
(***************************************************************************)
EXTENDS InPlaceEdit, Ranks, SequenceTheorems

(* Operands are numbered from one. *)
LEMMA IndexFacts == /\ Index \subseteq Nat
                    /\ \A i \in Index : Operands[i] \in Paths
<1>1. Operands \in Seq(Paths)
  BY OperandsAssumption
<1>2. QED
  BY <1>1 DEF Index

(* Every state of InPlaceEdit has the types TypeOK gives. *)
(* A file of the right shape is a member of Files, and has a content. *)
LEMMA FileFacts ==
  /\ \A s \in Seq(Index), w \in BOOLEAN, m \in Modes :
       [edits |-> s, whole |-> w, mode |-> m] \in Files
  /\ \A f \in Files : /\ f.edits \in Seq(Index)
                      /\ f.whole \in BOOLEAN
                      /\ f.mode \in Modes
                      /\ f = [edits |-> f.edits, whole |-> f.whole, mode |-> f.mode]
  /\ NoFile \in Files
  /\ <<>> \in Seq(Index)
  /\ "0600" \in Modes
<1>1. <<>> \in Seq(Index)
  OBVIOUS
<1>2. QED
  BY <1>1 DEF Files, NoFile, Modes

LEMMA TypeInit == Init => TypeOK
<1> SUFFICES ASSUME Init PROVE TypeOK
  OBVIOUS
<1>1. entry \in [Entries -> Files]
  <2>1. \A e \in Entries : e \in Modes
    BY DEF Modes
  <2>2. \A e \in Entries : [edits |-> <<>>, whole |-> TRUE, mode |-> e] \in Files
    BY FileFacts, <2>1
  <2>3. QED
    BY <2>2 DEF Init
<1>2. QED
  BY <1>1, FileFacts, LinkAssumption DEF Init, TypeOK, Active

LEMMA TypeNext == TypeOK /\ [Next]_vars => TypeOK'
<1> SUFFICES ASSUME TypeOK, [Next]_vars PROVE TypeOK'
  OBVIOUS
<1> USE DEF Active, BeforeTemp, WithTemp
<1>0. \A p \in Paths : FileAt(p) \in Files
  BY EntryAssumption DEF FileAt, TypeOK
<1>1. ASSUME NEW p \in OperandPaths, Start(p) PROVE TypeOK'
  BY <1>1, IndexFacts DEF Start, OperandPaths, TypeOK
<1>2. ASSUME NEW i \in Index, RunFile(i) PROVE TypeOK'
  <2>1. CASE Decode(i)
    <3>1. FileAt(Operands[i]).edits \in Seq(Index)
      BY <1>0, IndexFacts, FileFacts
    <3>2. QED
      BY <2>1, <3>1 DEF Decode, Goto, TypeOK
  <2>2. CASE DecodeFails(i)
    BY <2>2 DEF DecodeFails, Goto, ReturnError, TypeOK
  <2>3. CASE Render(i)
    BY <2>3 DEF Render, Goto, TypeOK
  <2>4. CASE RenderFails(i)
    BY <2>4 DEF RenderFails, Goto, ReturnError, TypeOK
  <2>5. CASE CreateTemp(i)
    <3>1. FileAt(Operands[i]).mode \in Modes
      BY <1>0, IndexFacts, FileFacts
    <3>2. [edits |-> <<>>, whole |-> FALSE, mode |-> "0600"] \in Files
      BY FileFacts
    <3>3. QED
      BY <2>5, <3>1, <3>2 DEF CreateTemp, Goto, TypeOK
  <2>6. CASE CreateTempFails(i)
    BY <2>6 DEF CreateTempFails, Goto, ReturnError, TypeOK
  <2>7. CASE WriteTemp(i) \/ WriteTempFails(i)
    <3>1. Append(snap[i], i) \in Seq(Index)
      BY AppendProperties DEF TypeOK
    <3>2. /\ [tmp[i] EXCEPT !.edits = Append(snap[i], i), !.whole = TRUE] \in Files
          /\ [tmp[i] EXCEPT !.edits = Append(snap[i], i)] \in Files
      BY <3>1 DEF TypeOK, Files
    <3>3. tmp' \in [Index -> Files]
      BY <2>7, <3>2 DEF WriteTemp, WriteTempFails, TypeOK
    <3>4. QED
      BY <2>7, <3>3 DEF WriteTemp, WriteTempFails, WriteError, Goto, TypeOK
  <2>8. CASE CloseTemp(i)
    BY <2>8 DEF CloseTemp, Goto, TypeOK
  <2>9. CASE ChmodTemp(i)
    <3>1. [tmp[i] EXCEPT !.mode = mode[i]] \in Files
      BY DEF TypeOK, Files
    <3>2. QED
      BY <2>9, <3>1 DEF ChmodTemp, Goto, TypeOK
  <2>10. CASE Rename(i)
    BY <2>10, IndexFacts, FileFacts, EntryAssumption DEF Rename, Goto, TypeOK
  <2>11. CASE TempStepFails(i)
    BY <2>11 DEF TempStepFails, Goto, WriteError, TypeOK
  <2>12. CASE RemoveTemp(i)
    BY <2>12, FileFacts DEF RemoveTemp, Goto, TypeOK
  <2>13. QED
    BY <1>2, <2>1, <2>2, <2>3, <2>4, <2>5, <2>6, <2>7, <2>8, <2>9, <2>10,
       <2>11, <2>12 DEF RunFile
<1>3. CASE Report \/ Crash
  BY <1>3 DEF Report, Crash, TypeOK
<1>4. CASE Finished \/ UNCHANGED vars
  BY <1>4 DEF Finished, vars, TypeOK
<1>5. QED
  BY <1>1, <1>2, <1>3, <1>4 DEF Next

(* The model's state always has the types of TypeOK, whether or not        *)
(* operands alias.                                                         *)
THEOREM TypeCorrect == Spec => []TypeOK
<1>1. QED
  BY TypeInit, TypeNext, PTL DEF Spec

-----------------------------------------------------------------------------

(* Only a rename writes the directory or completes an edit. *)
LEMMA OnlyRenameEdits ==
  ASSUME IInv, NEW i \in Index, RunFile(i), ~Rename(i)
  PROVE  /\ UNCHANGED <<entry, link>>
         /\ Applied' = Applied
<1> USE DEF IInv, TypeOK, ErrsSettle, Active, BeforeTemp, WithTemp, Goto
<1>1. CASE Decode(i) \/ Render(i) \/ CreateTemp(i) \/ WriteTemp(i)
             \/ CloseTemp(i) \/ ChmodTemp(i)
  BY <1>1 DEF Decode, Render, CreateTemp, WriteTemp, CloseTemp, ChmodTemp,
     Applied
<1>2. CASE DecodeFails(i) \/ RenderFails(i) \/ CreateTempFails(i)
  BY <1>2 DEF DecodeFails, RenderFails, CreateTempFails, ReturnError, Applied
<1>3. CASE WriteTempFails(i) \/ TempStepFails(i)
  BY <1>3 DEF WriteTempFails, TempStepFails, WriteError, Applied
<1>4. CASE RemoveTemp(i)
  BY <1>4 DEF RemoveTemp, Applied
<1>5. QED
  BY <1>1, <1>2, <1>3, <1>4 DEF RunFile

(* What a rename does, as read through paths: operand i's path now holds   *)
(* its temporary file, and no other path reads differently.                *)
LEMMA RenameEdits ==
  ASSUME NoAlias, IInv, NEW i \in Index, Rename(i)
  PROVE  /\ FileAt(Operands[i])' = tmp[i]
         /\ \A q \in Paths : q # Operands[i] => FileAt(q)' = FileAt(q)
         /\ LinksFollowed'
         /\ Applied' = Applied \cup {i}
<1> DEFINE p == Operands[i]
           e == EntryOf[p]
<1>1. p \in Paths /\ e \in Entries
  BY IndexFacts, EntryAssumption
<1>2. entry' = [entry EXCEPT ![e] = tmp[i]] /\ link' = [link EXCEPT ![e] = e]
  BY DEF Rename
<1>3. \A q \in Paths : EntryOf[q] \in Entries /\ link[EntryOf[q]] \in Entries
  BY EntryAssumption DEF IInv, TypeOK
<1>4. FileAt(p)' = tmp[i]
  BY <1>1, <1>2 DEF FileAt, IInv, TypeOK
<1>5. ASSUME NEW q \in Paths, q # p
      PROVE  FileAt(q)' = FileAt(q) /\ link'[EntryOf[q]] = link[EntryOf[q]]
  <2>1. EntryOf[q] # e /\ link[EntryOf[q]] # e
    BY <1>1, <1>5 DEF NoAlias, IInv, LinksFollowed
  <2>2. link'[EntryOf[q]] = link[EntryOf[q]]
    BY <1>1, <1>2, <1>3, <2>1 DEF IInv, TypeOK
  <2>3. entry'[link[EntryOf[q]]] = entry[link[EntryOf[q]]]
    BY <1>1, <1>2, <1>3, <2>1 DEF IInv, TypeOK
  <2>4. QED
    BY <2>2, <2>3 DEF FileAt
<1>6. LinksFollowed'
  <2>1. link'[e] = e
    BY <1>1, <1>2 DEF IInv, TypeOK
  <2>2. QED
    BY <1>5, <2>1 DEF LinksFollowed, IInv
<1>7. Applied' = Applied \cup {i}
  BY DEF Rename, Goto, Applied, IInv, TypeOK, ErrsSettle
<1>8. QED
  BY <1>4, <1>5, <1>6, <1>7

(* The parts of IInv that speak of what the paths hold survive a step that *)
(* neither writes the directory nor completes an edit.                     *)
LEMMA ContentKept ==
  ASSUME IInv, UNCHANGED <<entry, link>>, Applied' = Applied
  PROVE  /\ \A p \in Paths : FileAt(p)' = FileAt(p)
         /\ LinksFollowed' /\ NoLostUpdate' /\ NeverTorn'
<1>1. \A p \in Paths : FileAt(p)' = FileAt(p)
  BY DEF FileAt
<1>2. LinksFollowed' /\ NeverTorn'
  BY <1>1 DEF IInv, LinksFollowed, NeverTorn
<1>3. NoLostUpdate'
  BY <1>1 DEF IInv, NoLostUpdate, Of
<1>4. QED
  BY <1>1, <1>2, <1>3

(* Calls on one path stay sequential: a call starts after the earlier ones *)
(* have returned, and a call that has returned stays so.                   *)
LEMMA SequentialKept ==
  ASSUME IInv, NEW i \in Index, RunFile(i)
  PROVE  Sequential'
<1> USE DEF IInv, TypeOK, Active, BeforeTemp, WithTemp, Goto
<1>1. \E to : pc' = [pc EXCEPT ![i] = to]
  BY DEF RunFile, Decode, DecodeFails, Render, RenderFails, CreateTemp,
     CreateTempFails, WriteTemp, WriteTempFails, CloseTemp, ChmodTemp,
     Rename, TempStepFails, RemoveTemp
<1>2. pc[i] # "returned"
  BY DEF RunFile, Decode, DecodeFails, Render, RenderFails, CreateTemp,
     CreateTempFails, WriteTemp, WriteTempFails, CloseTemp, ChmodTemp,
     Rename, TempStepFails, RemoveTemp
<1>3. pc[i] = "waiting" => MyTurn(i)
  BY DEF RunFile, Decode, DecodeFails, Render, RenderFails, CreateTemp,
     CreateTempFails, WriteTemp, WriteTempFails, CloseTemp, ChmodTemp,
     Rename, TempStepFails, RemoveTemp
<1>4. QED
  BY <1>1, <1>2, <1>3 DEF Sequential, MyTurn, Of

-----------------------------------------------------------------------------

LEMMA InvInit == Init => IInv
<1> SUFFICES ASSUME Init PROVE IInv
  OBVIOUS
<1>1. TypeOK
  BY TypeInit
<1>2. \A p \in Paths :
        FileAt(p) = [edits |-> <<>>, whole |-> TRUE, mode |-> LinkOf[EntryOf[p]]]
  BY EntryAssumption, LinkAssumption DEF Init, FileAt
<1>3. Applied = {}
  BY DEF Init, Applied
<1>4. NoLostUpdate /\ NeverTorn
  BY <1>2, <1>3 DEF NoLostUpdate, NeverTorn
<1>5. Sequential /\ SnapshotIsCurrent /\ TempIsReady /\ ErrsSettle
  BY DEF Init, Sequential, SnapshotIsCurrent, TempIsReady, ErrsSettle,
     BeforeTemp, WithTemp
<1>6. LinksFollowed
  BY EntryAssumption DEF Init, LinksFollowed
<1>7. QED
  BY <1>1, <1>4, <1>5, <1>6 DEF IInv

(* SnapshotIsCurrent, TempIsReady and ErrsSettle, for one operand. *)
CallOK(i) ==
  /\ pc[i] \in BeforeTemp \cup WithTemp => snap[i] = FileAt(Operands[i]).edits
  /\ pc[i] \in WithTemp => mode[i] = LinkOf[EntryOf[Operands[i]]]
  /\ pc[i] \in {"written", "closed", "moded"}
       => tmp[i].edits = Append(snap[i], i) /\ tmp[i].whole
  /\ pc[i] = "moded" => tmp[i].mode = mode[i]
  /\ pc[i] = "failed" => errs[i] # "nil"
  /\ pc[i] \in {"waiting", "renamed"} \cup BeforeTemp \cup WithTemp
       => errs[i] = "nil"

LEMMA CallOKDef ==
  (\A i \in Index : CallOK(i))
    <=> SnapshotIsCurrent /\ TempIsReady /\ ErrsSettle
BY DEF CallOK, SnapshotIsCurrent, TempIsReady, ErrsSettle

(* A call's own state: what the steps of other calls leave alone. *)
SameCall(j) ==
  /\ pc'[j] = pc[j]
  /\ snap'[j] = snap[j]
  /\ tmp'[j] = tmp[j]
  /\ mode'[j] = mode[j]
  /\ errs'[j] = errs[j]

LEMMA OthersKept ==
  ASSUME TypeOK, NEW i \in Index, RunFile(i)
  PROVE  \A j \in Index : j # i => SameCall(j)
BY DEF TypeOK, SameCall, Goto, RunFile, ReturnError, WriteError, Decode,
   DecodeFails, Render, RenderFails, CreateTemp, CreateTempFails, WriteTemp,
   WriteTempFails, CloseTemp, ChmodTemp, Rename, TempStepFails, RemoveTemp

(* Each RunFile step but the rename keeps the snapshot, the temporary file *)
(* and the error of every operand as IInv has them.                        *)
LEMMA CallStateKept ==
  ASSUME IInv, NEW i \in Index, RunFile(i), ~Rename(i),
         \A p \in Paths : FileAt(p)' = FileAt(p)
  PROVE  SnapshotIsCurrent' /\ TempIsReady' /\ ErrsSettle'
<1>1. \A j \in Index : FileAt(Operands[j])' = FileAt(Operands[j])
  BY IndexFacts
<1>2. FileAt(Operands[i]).mode = LinkOf[EntryOf[Operands[i]]]
  BY IndexFacts DEF IInv, NeverTorn
<1>3. TypeOK /\ \A j \in Index : CallOK(j)
  BY CallOKDef DEF IInv
<1>4. CallOK(i)
  BY <1>3
<1>5. tmp[i] \in Files
  BY <1>3 DEF TypeOK
<1>6. CallOK(i)'
  <2> USE <1>4 DEF CallOK, BeforeTemp, WithTemp, Goto
  <2>1. FileAt(Operands[i])' = FileAt(Operands[i])
    BY <1>1
  <2>2. /\ i \in DOMAIN pc /\ i \in DOMAIN snap /\ i \in DOMAIN tmp
        /\ i \in DOMAIN mode /\ i \in DOMAIN errs
    BY <1>3 DEF TypeOK
  <2>3. CASE Decode(i)
    BY <2>1, <2>2, <2>3 DEF Decode
  <2>4. CASE Render(i) \/ CloseTemp(i)
    BY <2>1, <2>2, <2>4 DEF Render, CloseTemp
  <2>5. CASE DecodeFails(i) \/ RenderFails(i) \/ CreateTempFails(i)
    BY <2>2, <2>5 DEF DecodeFails, RenderFails, CreateTempFails, ReturnError
  <2>6. CASE CreateTemp(i)
    BY <1>2, <2>1, <2>2, <2>6 DEF CreateTemp
  <2>7. CASE WriteTemp(i)
    <3>1. tmp'[i].edits = Append(snap[i], i) /\ tmp'[i].whole
      BY <1>5, <2>2, <2>7 DEF WriteTemp, Files
    <3>2. QED
      BY <2>1, <2>2, <2>7, <3>1 DEF WriteTemp
  <2>8. CASE WriteTempFails(i)
    BY <2>2, <2>8 DEF WriteTempFails, WriteError
  <2>9. CASE ChmodTemp(i)
    <3>1. /\ tmp'[i].edits = tmp[i].edits
          /\ tmp'[i].whole = tmp[i].whole
          /\ tmp'[i].mode = mode[i]
      BY <1>5, <2>2, <2>9 DEF ChmodTemp, Files
    <3>2. QED
      BY <2>1, <2>2, <2>9, <3>1 DEF ChmodTemp
  <2>10. CASE TempStepFails(i)
    BY <2>2, <2>10 DEF TempStepFails, WriteError
  <2>11. CASE RemoveTemp(i)
    BY <2>2, <2>11 DEF RemoveTemp
  <2>12. QED
    BY <2>3, <2>4, <2>5, <2>6, <2>7, <2>8, <2>9, <2>10, <2>11 DEF RunFile
<1>7. \A j \in Index : j # i => CallOK(j)'
  BY <1>1, <1>3, OthersKept DEF CallOK, SameCall
<1>8. (\A j \in Index : CallOK(j))'
  BY <1>6, <1>7
<1>9. QED
  BY <1>8 DEF CallOK, SnapshotIsCurrent, TempIsReady, ErrsSettle

(* A rename puts a complete file, built on the path's current content, in  *)
(* place of that content.                                                  *)
LEMMA RenameKept ==
  ASSUME NoAlias, IInv, NEW i \in Index, Rename(i)
  PROVE  /\ FileAt(Operands[i])'.edits = Append(FileAt(Operands[i]).edits, i)
         /\ SnapshotIsCurrent' /\ TempIsReady' /\ ErrsSettle'
         /\ NoLostUpdate' /\ NeverTorn'
<1> DEFINE p == Operands[i]
           s == FileAt(p).edits
<1>1. /\ FileAt(p)' = tmp[i]
      /\ \A q \in Paths : q # p => FileAt(q)' = FileAt(q)
      /\ Applied' = Applied \cup {i}
  BY RenameEdits
<1>2. p \in Paths /\ Index \subseteq Nat
  BY IndexFacts
<1>3. pc[i] = "moded" /\ pc' = [pc EXCEPT ![i] = "renamed"]
  BY DEF Rename, Goto
<1>4. FileAt(p)'.edits = Append(s, i)
  BY <1>1, <1>3 DEF IInv, TempIsReady, SnapshotIsCurrent, WithTemp
<1>5. FileAt(p)'.whole /\ FileAt(p)'.mode = LinkOf[EntryOf[p]]
  BY <1>1, <1>3 DEF IInv, TempIsReady, WithTemp
<1>6. NeverTorn'
  BY <1>1, <1>5 DEF IInv, NeverTorn
<1>7. \A j \in Index : j # i /\ Operands[j] = p
                          => pc[j] \in {"waiting", "returned"}
  BY <1>2, <1>3 DEF IInv, Sequential
<1>8. SnapshotIsCurrent'
  <2> SUFFICES ASSUME NEW j \in Index, pc'[j] \in BeforeTemp \cup WithTemp
               PROVE  snap'[j] = FileAt(Operands[j])'.edits
    BY DEF SnapshotIsCurrent
  <2>1. j # i /\ pc[j] = pc'[j]
    BY <1>3 DEF IInv, TypeOK, BeforeTemp, WithTemp
  <2>2. Operands[j] # p
    BY <1>7, <2>1 DEF BeforeTemp, WithTemp
  <2>3. QED
    BY <1>1, <2>1, <2>2, IndexFacts DEF IInv, SnapshotIsCurrent, Rename
<1>9. TempIsReady' /\ ErrsSettle'
  BY DEF Rename, Goto, IInv, TypeOK, TempIsReady, ErrsSettle, BeforeTemp,
     WithTemp
<1>10. NoLostUpdate'
  <2>1. s \in Seq(Index)
    BY <1>2, EntryAssumption, FileFacts DEF IInv, TypeOK, FileAt
  <2>2. {s[k] : k \in 1 .. Len(s)} = Applied \cap Of(p)
    BY <1>2 DEF IInv, NoLostUpdate
  <2>3. \A k, l \in 1 .. Len(s) : k < l => s[k] < s[l]
    BY <1>2 DEF IInv, NoLostUpdate
  <2>4. \A k \in 1 .. Len(s) : s[k] < i
    <3> SUFFICES ASSUME NEW k \in 1 .. Len(s) PROVE s[k] < i
      OBVIOUS
    <3>1. s[k] \in Applied /\ s[k] \in Of(p)
      BY <2>2
    <3>2. s[k] \in Index /\ Operands[s[k]] = p /\ pc[s[k]] # "waiting"
      BY <3>1 DEF Applied, Of
    <3>3. s[k] # i
      BY <1>3, <3>1 DEF Applied
    <3>4. ~(i < s[k])
      BY <1>3, <3>2 DEF IInv, Sequential
    <3>5. QED
      BY <1>2, <3>2, <3>3, <3>4
  <2> DEFINE t == Append(s, i)
  <2>5. /\ Len(t) = Len(s) + 1
        /\ \A k \in 1 .. Len(s) : t[k] = s[k]
        /\ t[Len(t)] = i
        /\ Len(s) \in Nat
    BY <2>1
  <2>6. {t[k] : k \in 1 .. Len(t)} = (Applied \cup {i}) \cap Of(p)
    <3>1. i \in Of(p)
      BY DEF Of
    <3> HIDE DEF s, t
    <3>2. {t[k] : k \in 1 .. Len(t)} = {s[k] : k \in 1 .. Len(s)} \cup {i}
      BY <2>5
    <3>3. QED
      BY <2>2, <3>1, <3>2
  <2>7. \A k, l \in 1 .. Len(t) : k < l => t[k] < t[l]
    <3> HIDE DEF s, t
    <3>1. QED
      BY <2>3, <2>4, <2>5
  <2> DEFINE Good(u, A, q) ==
        /\ {u[k] : k \in 1 .. Len(u)} = A \cap Of(q)
        /\ \A k, l \in 1 .. Len(u) : k < l => u[k] < u[l]
  <2>8. Good(FileAt(p)'.edits, Applied', p)
    BY <1>1, <1>4, <2>6, <2>7
  <2>9. ASSUME NEW q \in Paths, q # p
        PROVE  Good(FileAt(q)'.edits, Applied', q)
    <3>1. FileAt(q)' = FileAt(q)
      BY <1>1, <2>9
    <3>2. Applied' \cap Of(q) = Applied \cap Of(q)
      BY <1>1, <2>9 DEF Of
    <3>3. Good(FileAt(q).edits, Applied, q)
      BY DEF IInv, NoLostUpdate
    <3>4. QED
      BY <3>1, <3>2, <3>3
  <2>10. \A q \in Paths : Good(FileAt(q)'.edits, Applied', q)
    BY <2>8, <2>9
  <2>11. QED
    BY <2>10 DEF NoLostUpdate, Of
<1>11. QED
  BY <1>4, <1>6, <1>8, <1>9, <1>10

LEMMA InvNext == ASSUME NoAlias PROVE IInv /\ [Next]_vars => IInv'
<1> SUFFICES ASSUME IInv, [Next]_vars PROVE IInv'
  OBVIOUS
<1>1. TypeOK'
  BY TypeNext DEF IInv
<1>2. ASSUME NEW i \in Index, Rename(i) PROVE IInv'
  <2>1. RunFile(i)
    BY <1>2 DEF RunFile
  <2>2. QED
    BY <1>1, <1>2, <2>1, RenameEdits, RenameKept, SequentialKept DEF IInv
<1>3. ASSUME NEW i \in Index, RunFile(i), ~Rename(i) PROVE IInv'
  BY <1>1, <1>3, OnlyRenameEdits, ContentKept, CallStateKept, SequentialKept
     DEF IInv
<1>4. ASSUME UNCHANGED <<entry, link, tmp, pc, snap, mode, errs>> PROVE IInv'
  <2>1. Applied' = Applied
    BY <1>4 DEF Applied
  <2>2. \A p \in Paths : FileAt(p)' = FileAt(p)
    BY <1>4 DEF FileAt
  <2>3. SnapshotIsCurrent' /\ TempIsReady' /\ ErrsSettle'
    <3>1. \A j \in Index : FileAt(Operands[j])' = FileAt(Operands[j])
      BY <2>2, IndexFacts
    <3>2. \A j \in Index : CallOK(j)
      BY CallOKDef DEF IInv
    <3>3. (\A j \in Index : CallOK(j))'
      BY <1>4, <3>1, <3>2 DEF CallOK
    <3>4. QED
      BY <3>3 DEF CallOK, SnapshotIsCurrent, TempIsReady, ErrsSettle
  <2>4. Sequential'
    BY <1>4 DEF IInv, Sequential
  <2>5. QED
    BY <1>1, <1>4, <2>1, <2>3, <2>4, ContentKept DEF IInv
<1>5. CASE \/ \E p \in OperandPaths : Start(p)
           \/ Report \/ Crash \/ Finished \/ UNCHANGED vars
  BY <1>4, <1>5 DEF Start, Report, Crash, Finished, vars
<1>6. QED
  BY <1>2, <1>3, <1>5 DEF Next

LEMMA InvHolds == NoAlias => (Spec => []IInv)
<1> SUFFICES ASSUME NoAlias PROVE Spec => []IInv
  OBVIOUS
<1>1. IInv /\ [Next]_vars => IInv'
  BY InvNext
<1>2. QED
  BY InvInit, <1>1, PTL DEF Spec

(* Whatever the operands, the limit and the interleaving of the goroutines, *)
(* and wherever the process is killed, a path holds exactly the edits that  *)
(* were renamed into it, each built on the previous one (RunFiles).         *)
THEOREM NoLostUpdateHolds == NoAlias => (Spec => []NoLostUpdate)
<1>1. IInv => NoLostUpdate
  BY DEF IInv
<1>2. QED
  BY <1>1, InvHolds, PTL

(* No path ever reads as a truncated or partial file, or with permissions  *)
(* it did not have (writeFileAtomically).                                  *)
THEOREM NeverTornHolds == NoAlias => (Spec => []NeverTorn)
<1>1. IInv => NeverTorn
  BY DEF IInv
<1>2. QED
  BY <1>1, InvHolds, PTL

-----------------------------------------------------------------------------

(* Operands before an operand whose call is in progress are settled. *)
LEMMA TurnFollows ==
  ASSUME IInv, NEW i \in Index, ~crashed, i \notin Applied, errs[i] = "nil",
         \A j \in Index :
           j < i /\ Operands[j] = Operands[i] => pc[j] = "returned"
  PROVE  Abstract!Turn(i)
<1>1. OutcomeView[i] = "pending"
  BY DEF OutcomeView
<1>2. ASSUME NEW j \in Index, j < i, Operands[j] = Operands[i]
      PROVE  OutcomeView[j] # "pending"
  BY <1>2 DEF OutcomeView, Applied
<1>3. QED
  BY <1>1, <1>2 DEF Abstract!Turn, Abstract!Index, Index

LEMMA Predecessors ==
  ASSUME IInv, NEW i \in Index, RunFile(i)
  PROVE  \A j \in Index :
           j < i /\ Operands[j] = Operands[i] => pc[j] = "returned"
BY DEF IInv, Sequential, RunFile, Goto, MyTurn, Of, Decode, DecodeFails, Render,
   RenderFails, CreateTemp, CreateTempFails, WriteTemp, WriteTempFails,
   CloseTemp, ChmodTemp, Rename, TempStepFails, RemoveTemp

LEMMA RenameRefines ==
  ASSUME NoAlias, IInv, NEW i \in Index, Rename(i)
  PROVE  Abstract!Edit(i)
<1>1. RunFile(i)
  BY DEF RunFile
<1>2. ~crashed /\ crashed' = crashed /\ errs' = errs /\ pc[i] = "moded"
  BY DEF Rename, Goto
<1>3. i \notin Applied /\ errs[i] = "nil"
  BY <1>2 DEF Applied, IInv, ErrsSettle, WithTemp
<1>4. Abstract!Turn(i)
  BY <1>1, <1>2, <1>3, Predecessors, TurnFollows
<1>5. FileView' = [FileView EXCEPT ![Operands[i]] = Append(@, i)]
  BY RenameEdits, RenameKept, IndexFacts DEF FileView
<1>6. OutcomeView' = [OutcomeView EXCEPT ![i] = "edited"]
  BY <1>2, RenameEdits DEF OutcomeView
<1>7. QED
  BY <1>2, <1>4, <1>5, <1>6 DEF Abstract!Edit

LEMMA FailureRefines ==
  ASSUME IInv, NEW i \in Index,
         \/ DecodeFails(i) \/ RenderFails(i) \/ CreateTempFails(i)
         \/ WriteTempFails(i) \/ TempStepFails(i)
  PROVE  Abstract!Fail(i)
<1>1. RunFile(i) /\ ~Rename(i)
  <2>1. RunFile(i)
    BY DEF RunFile
  <2>2. i \in DOMAIN pc
    BY DEF IInv, TypeOK
  <2>3. pc'[i] # "renamed"
    BY <2>2 DEF DecodeFails, RenderFails, CreateTempFails, WriteTempFails,
       TempStepFails, Goto
  <2>4. QED
    BY <2>1, <2>2, <2>3 DEF Rename, Goto
<1>2. ~crashed /\ crashed' = crashed
  BY DEF DecodeFails, RenderFails, CreateTempFails, WriteTempFails,
     TempStepFails, ReturnError, WriteError, Goto
<1>3. i \notin Applied /\ errs[i] = "nil"
  <2>1. pc[i] \in {"waiting"} \cup BeforeTemp \cup WithTemp
    BY DEF DecodeFails, RenderFails, CreateTempFails, WriteTempFails,
       TempStepFails, Goto, BeforeTemp, WithTemp
  <2>2. QED
    BY <2>1 DEF Applied, IInv, ErrsSettle, BeforeTemp, WithTemp
<1>4. /\ errs'[i] # "nil"
      /\ \A j \in Index : j # i => errs'[j] = errs[j]
  BY DEF DecodeFails, RenderFails, CreateTempFails, WriteTempFails,
     TempStepFails, ReturnError, WriteError, IInv, TypeOK
<1>5. UNCHANGED <<entry, link>> /\ Applied' = Applied
  BY <1>1, OnlyRenameEdits
<1>6. Abstract!Turn(i)
  BY <1>1, <1>2, <1>3, Predecessors, TurnFollows
<1>7. FileView' = FileView
  BY <1>5 DEF FileView, FileAt
<1>8. OutcomeView' = [OutcomeView EXCEPT ![i] = "failed"]
  BY <1>3, <1>4, <1>5 DEF OutcomeView
<1>9. QED
  BY <1>2, <1>6, <1>7, <1>8 DEF Abstract!Fail

LEMMA StutterRefines ==
  ASSUME UNCHANGED <<entry, link, errs, crashed>>, Applied' = Applied
  PROVE  UNCHANGED Abstract!vars
BY DEF Abstract!vars, FileView, OutcomeView, FileAt

LEMMA StepRefines ==
  ASSUME NoAlias, IInv, [Next]_vars
  PROVE  [Abstract!Next]_(Abstract!vars)
<1>0. Abstract!Index = Index
  BY DEF Abstract!Index, Index
<1>1. ASSUME NEW i \in Index, Rename(i) PROVE Abstract!Next
  BY <1>0, <1>1, RenameRefines DEF Abstract!Next
<1>2. ASSUME NEW i \in Index,
             \/ DecodeFails(i) \/ RenderFails(i) \/ CreateTempFails(i)
             \/ WriteTempFails(i) \/ TempStepFails(i)
      PROVE  Abstract!Next
  BY <1>0, <1>2, FailureRefines DEF Abstract!Next
<1>3. ASSUME NEW i \in Index,
             \/ Decode(i) \/ Render(i) \/ CreateTemp(i) \/ WriteTemp(i)
             \/ CloseTemp(i) \/ ChmodTemp(i) \/ RemoveTemp(i)
      PROVE  UNCHANGED Abstract!vars
  <2>1. RunFile(i) /\ ~Rename(i)
    BY <1>3 DEF RunFile, Decode, Render, CreateTemp, WriteTemp, CloseTemp,
       ChmodTemp, RemoveTemp, Rename, Goto, IInv, TypeOK, Active
  <2>2. UNCHANGED <<errs, crashed>>
    BY <1>3 DEF Decode, Render, CreateTemp, WriteTemp, CloseTemp, ChmodTemp,
       RemoveTemp
  <2>3. QED
    BY <2>1, <2>2, OnlyRenameEdits, StutterRefines
<1>4. CASE Crash
  BY <1>4 DEF Crash, Abstract!Next, Abstract!Halt, FileView, OutcomeView,
     FileAt, Applied
<1>5. CASE \/ \E p \in OperandPaths : Start(p)
           \/ Report \/ Finished \/ UNCHANGED vars
  <2>1. UNCHANGED <<entry, link, errs, crashed, pc>>
    BY <1>5 DEF Start, Report, Finished, vars
  <2>2. Applied' = Applied
    BY <2>1 DEF Applied
  <2>3. QED
    BY <2>1, <2>2, StutterRefines
<1>6. QED
  BY <1>1, <1>2, <1>3, <1>4, <1>5 DEF Next, RunFile

(* Every run of RunFiles over operands that do not alias is a run of the   *)
(* atomic editor: edits are indivisible, settle once and compose.          *)
THEOREM Implementation == NoAlias => (Spec => ImplementsAtomicEdits)
<1> SUFFICES ASSUME NoAlias PROVE Spec => Abstract!Spec
  BY DEF ImplementsAtomicEdits
<1>1. Init => Abstract!Init
  <2> SUFFICES ASSUME Init PROVE Abstract!Init
    OBVIOUS
  <2>1. \A p \in Paths : FileAt(p).edits = <<>>
    BY EntryAssumption, LinkAssumption DEF Init, FileAt
  <2>2. FileView = [p \in Paths |-> <<>>]
    BY <2>1 DEF FileView
  <2>3. OutcomeView = [i \in Index |-> "pending"]
    BY DEF OutcomeView, Init, Applied
  <2>4. QED
    BY <2>2, <2>3 DEF Init, Abstract!Init, Abstract!Index, Index
<1>2. IInv /\ [Next]_vars => [Abstract!Next]_(Abstract!vars)
  BY StepRefines
<1>3. QED
  BY <1>1, <1>2, InvHolds, PTL DEF Spec, Abstract!Spec

(* A temporary file exists only while the call that made it is in          *)
(* progress (the deferred os.Remove of writeFileAtomically).               *)
THEOREM NoTempLeftHolds == Spec => []NoTempLeft
<1>1. Init => NoTempLeft
  BY DEF Init, NoTempLeft
<1>2. TypeOK /\ NoTempLeft /\ [Next]_vars => NoTempLeft'
  <2> SUFFICES ASSUME TypeOK, NoTempLeft, [Next]_vars PROVE NoTempLeft'
    OBVIOUS
  <2>1. ASSUME NEW i \in Index, RunFile(i) PROVE NoTempLeft'
    <3>1. \A j \in Index : j # i => pc'[j] = pc[j] /\ tmp'[j] = tmp[j]
      BY <2>1, OthersKept DEF SameCall
    <3>2. tmp'[i] # NoFile => pc'[i] \in WithTemp \cup {"failed"}
      BY <2>1 DEF TypeOK, NoTempLeft, Goto, RunFile, ReturnError, WriteError,
         WithTemp, Decode, DecodeFails, Render, RenderFails, CreateTemp,
         CreateTempFails, WriteTemp, WriteTempFails, CloseTemp, ChmodTemp,
         Rename, TempStepFails, RemoveTemp
    <3>3. QED
      BY <3>1, <3>2 DEF NoTempLeft
  <2>2. CASE \/ \E p \in OperandPaths : Start(p)
             \/ Report \/ Crash \/ Finished \/ UNCHANGED vars
    BY <2>2 DEF Start, Report, Crash, Finished, vars, NoTempLeft
  <2>3. QED
    BY <2>1, <2>2 DEF Next
<1>3. QED
  BY <1>1, <1>2, TypeCorrect, PTL DEF Spec

(* RunFiles reports once every goroutine is done, and nothing happens after. *)
ReportIsLast == result # NoResult => \A i \in Index : pc[i] = "returned"

LEMMA ReportIsLastHolds == Spec => []ReportIsLast
<1>1. Init => ReportIsLast
  BY DEF Init, ReportIsLast
<1>2. TypeOK /\ ReportIsLast /\ [Next]_vars => ReportIsLast'
  <2> SUFFICES ASSUME TypeOK, ReportIsLast, [Next]_vars PROVE ReportIsLast'
    OBVIOUS
  <2>1. ASSUME NEW i \in Index, RunFile(i) PROVE ReportIsLast'
    <3>1. pc[i] # "returned" /\ result' = result
      BY <2>1 DEF Goto, RunFile, ReturnError, WriteError, Decode, DecodeFails, Render, RenderFails,
         CreateTemp, CreateTempFails, WriteTemp, WriteTempFails, CloseTemp, ChmodTemp, Rename,
         TempStepFails, RemoveTemp
    <3>2. QED
      BY <3>1 DEF ReportIsLast
  <2>2. CASE Report
    BY <2>2 DEF Report, ReportIsLast
  <2>3. CASE (\E p \in OperandPaths : Start(p)) \/ Crash \/ Finished \/ UNCHANGED vars
    BY <2>3 DEF Start, Crash, Finished, vars, ReportIsLast
  <2>4. QED
    BY <2>1, <2>2, <2>3 DEF Next
<1>3. QED
  BY <1>1, <1>2, TypeCorrect, PTL DEF Spec

(* When RunFiles gathers the errors, an operand has one if and only if its *)
(* edit is not in its file: the half of NoSilentLoss that does not depend  *)
(* on how the errors are put in order (RunFiles' loop over errs).          *)
LossesHaveErrors ==
  result # NoResult =>
    \A i \in Index :
      LET s == FileAt(Operands[i]).edits
      IN  errs[i] # "nil" <=> ~ \E k \in 1 .. Len(s) : s[k] = i

(* Without aliases every operand that failed, and no other, has an error.  *)
LEMMA LossesHaveErrorsHolds == NoAlias => (Spec => []LossesHaveErrors)
<1>1. IInv /\ ReportIsLast => LossesHaveErrors
  <2> SUFFICES ASSUME IInv, ReportIsLast, result # NoResult, NEW i \in Index
               PROVE  errs[i] # "nil"
                        <=> ~ \E k \in 1 .. Len(FileAt(Operands[i]).edits) :
                                FileAt(Operands[i]).edits[k] = i
    BY DEF LossesHaveErrors
  <2> DEFINE s == FileAt(Operands[i]).edits
  <2>1. Operands[i] \in Paths
    BY IndexFacts
  <2>2. {s[k] : k \in 1 .. Len(s)} = Applied \cap Of(Operands[i])
    BY <2>1 DEF IInv, NoLostUpdate
  <2>3. i \in Of(Operands[i])
    BY DEF Of
  <2>4. i \in Applied <=> errs[i] = "nil"
    BY DEF Applied, ReportIsLast
  <2> HIDE DEF s
  <2>5. (\E k \in 1 .. Len(s) : s[k] = i) <=> errs[i] = "nil"
    BY <2>2, <2>3, <2>4
  <2>6. QED
    BY <2>5 DEF s
<1>2. QED
  BY <1>1, InvHolds, ReportIsLastHolds, PTL

-----------------------------------------------------------------------------
(* What RunFiles returns is exactly its failed operands, in order. *)

LEMMA InOrderIs ==
  ASSUME NEW S, S \subseteq Nat, IsFiniteSet(S)
  PROVE  /\ Len(InOrder(S)) = Cardinality(S) /\ Cardinality(S) \in Nat
         /\ \A i : (\E k \in 1 .. Len(InOrder(S)) : InOrder(S)[k] = i) <=> i \in S
         /\ \A k, l \in 1 .. Len(InOrder(S)) : k < l => InOrder(S)[k] < InOrder(S)[l]
<1> DEFINE N == Cardinality(S)
           id == [x \in S |-> x]
<1>1. id \in Injection(S, Nat)
  BY DEF Injection, IsInjective
<1>2. \A x \in S : Rank(S, id, x) = Cardinality({j \in S : j < x})
  <2> SUFFICES ASSUME NEW x \in S
               PROVE  Rank(S, id, x) = Cardinality({j \in S : j < x})
    OBVIOUS
  <2>1. {y \in S : id[y] < id[x]} = {j \in S : j < x}
    OBVIOUS
  <2>2. Rank(S, id, x) = Cardinality({y \in S : id[y] < id[x]})
    BY Zenon DEF Rank
  <2> QED
    BY <2>1, <2>2, Zenon
<1>3. /\ N \in Nat
      /\ \A x \in S : Rank(S, id, x) \in 0 .. N - 1
      /\ \A x, y \in S : id[x] < id[y] <=> Rank(S, id, x) < Rank(S, id, y)
      /\ \A x, y \in S : Rank(S, id, x) = Rank(S, id, y) => x = y
      /\ \A k \in 1 .. N : \E x \in S : Rank(S, id, x) = k - 1
  <2> HIDE DEF id
  <2> QED
    BY ONLY <1>1, RanksAreInterval, IsFiniteSet(S)
<1>4. \A k \in 1 .. N : InOrder(S)[k] \in S /\ Rank(S, id, InOrder(S)[k]) = k - 1
  <2> SUFFICES ASSUME NEW k \in 1 .. N
               PROVE  InOrder(S)[k] \in S /\ Rank(S, id, InOrder(S)[k]) = k - 1
    OBVIOUS
  <2>1. InOrder(S)[k] = CHOOSE i \in S : Cardinality({j \in S : j < i}) = k - 1
    BY DEF InOrder
  <2>2. \E i \in S : Cardinality({j \in S : j < i}) = k - 1
    BY <1>2, <1>3
  <2> QED
    BY <1>2, <2>1, <2>2
<1>5. Len(InOrder(S)) = N
  <2>1. InOrder(S) \in [1 .. N -> S]
    BY <1>4 DEF InOrder
  <2>2. InOrder(S) \in Seq(S) /\ DOMAIN InOrder(S) = 1 .. N
    BY <1>3, <2>1, SeqDef
  <2>3. 1 .. N = 1 .. Len(InOrder(S)) /\ Len(InOrder(S)) \in Nat
    BY <2>2, LenProperties
  <2> HIDE DEF N
  <2> QED
    BY <1>3, <2>3
<1>6. ASSUME NEW i \in S PROVE \E k \in 1 .. N : InOrder(S)[k] = i
  <2>1. Rank(S, id, i) + 1 \in 1 .. N /\ (Rank(S, id, i) + 1) - 1 = Rank(S, id, i)
    BY <1>3
  <2> QED
    BY <1>3, <1>4, <2>1
<1>7. ASSUME NEW k \in 1 .. N, NEW l \in 1 .. N, k < l
      PROVE  InOrder(S)[k] < InOrder(S)[l]
  <2>1. Rank(S, id, InOrder(S)[k]) < Rank(S, id, InOrder(S)[l])
    BY <1>4, <1>7
  <2> QED
    BY <1>3, <1>4, <2>1
<1> QED
  BY <1>3, <1>4, <1>5, <1>6, <1>7

Failed == {i \in Index : errs[i] # "nil"}

(* The report stays what it was made from, since every call is over. *)
ReportIsFailed == result # NoResult => result = InOrder(Failed)

LEMMA ReportIsFailedHolds == Spec => []ReportIsFailed
<1>1. Init => ReportIsFailed
  BY DEF Init, ReportIsFailed
<1>2. ReportIsLast /\ ReportIsFailed /\ [Next]_vars => ReportIsFailed'
  <2> SUFFICES ASSUME ReportIsLast, ReportIsFailed, [Next]_vars PROVE ReportIsFailed'
    OBVIOUS
  <2>1. ASSUME NEW i \in Index, RunFile(i) PROVE ReportIsFailed'
    <3>1. pc[i] # "returned" /\ result' = result
      BY <2>1 DEF Goto, RunFile, ReturnError, WriteError, Decode, DecodeFails, Render, RenderFails,
         CreateTemp, CreateTempFails, WriteTemp, WriteTempFails, CloseTemp, ChmodTemp, Rename,
         TempStepFails, RemoveTemp
    <3> QED
      BY <3>1 DEF ReportIsLast, ReportIsFailed
  <2>2. CASE Report
    BY <2>2 DEF Report, ReportIsFailed, Failed
  <2>3. CASE (\E p \in OperandPaths : Start(p)) \/ Crash \/ Finished \/ UNCHANGED vars
    BY <2>3 DEF Start, Crash, Finished, vars, ReportIsFailed, Failed
  <2> QED
    BY <2>1, <2>2, <2>3 DEF Next
<1> QED
  BY <1>1, <1>2, ReportIsLastHolds, PTL DEF Spec

(* Without aliases, an operand is in the errors RunFiles returns if and    *)
(* only if its edit is not in its file, and they are in operand order      *)
(* (the loop over errs at the end of RunFiles).                            *)
THEOREM NoSilentLossHolds == NoAlias => (Spec => []NoSilentLoss)
<1>1. LossesHaveErrors /\ ReportIsFailed => NoSilentLoss
  <2> SUFFICES ASSUME LossesHaveErrors, ReportIsFailed, result # NoResult PROVE NoSilentLoss
    BY DEF NoSilentLoss
  <2>1. Failed \subseteq Nat /\ IsFiniteSet(Failed)
    <3>1. Index = 1 .. Len(Operands) /\ Len(Operands) \in Nat
      BY OperandsAssumption DEF Index
    <3>2. IsFiniteSet(1 .. Len(Operands))
      BY <3>1, FS_Interval
    <3> QED
      BY <3>1, <3>2, FS_Subset DEF Failed
  <2>2. /\ \A i : (\E k \in 1 .. Len(result) : result[k] = i) <=> i \in Failed
        /\ \A k, l \in 1 .. Len(result) : k < l => result[k] < result[l]
    BY <2>1, InOrderIs DEF ReportIsFailed
  <2>3. ASSUME NEW i \in Index
        PROVE  (\E k \in 1 .. Len(result) : result[k] = i)
                 <=> ~ \E k \in 1 .. Len(FileAt(Operands[i]).edits) :
                         FileAt(Operands[i]).edits[k] = i
    BY <2>2 DEF LossesHaveErrors, Failed
  <2> QED
    BY <2>2, <2>3 DEF NoSilentLoss
<1> QED
  BY <1>1, LossesHaveErrorsHolds, ReportIsFailedHolds, PTL

==============================================================================
