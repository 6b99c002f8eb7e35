----------------------------- MODULE AtomicEdits -----------------------------
(***************************************************************************)
(* What `devbase yq -i` promises the user of a list of file operands:      *)
(* every operand's edit happens in one indivisible step or not at all,     *)
(* operands naming the same path take effect in the order they were given, *)
(* each one on top of the previous one's result, and a failing operand     *)
(* leaves its file, and every other operand, alone.                        *)
(***************************************************************************)
EXTENDS Naturals, Sequences

CONSTANTS
  Paths,    \* the path strings operands are written with
  Operands  \* the sequence of operands, as given on the command line

VARIABLES
  file,     \* file[p]: the operands whose edits p's content is made of
  outcome,  \* outcome[i]: what became of operand i
  halted    \* the process was killed

vars == <<file, outcome, halted>>

Index == DOMAIN Operands

TypeOK ==
  /\ file \in [Paths -> Seq(Index)]
  /\ outcome \in [Index -> {"pending", "edited", "failed"}]
  /\ halted \in BOOLEAN

Init ==
  /\ file = [p \in Paths |-> <<>>]
  /\ outcome = [i \in Index |-> "pending"]
  /\ halted = FALSE

(* Operand i's turn comes once every earlier operand on its path is settled. *)
Turn(i) ==
  /\ ~halted
  /\ outcome[i] = "pending"
  /\ \A j \in Index :
       j < i /\ Operands[j] = Operands[i] => outcome[j] # "pending"

Edit(i) ==
  /\ Turn(i)
  /\ file' = [file EXCEPT ![Operands[i]] = Append(@, i)]
  /\ outcome' = [outcome EXCEPT ![i] = "edited"]
  /\ UNCHANGED halted

Fail(i) ==
  /\ Turn(i)
  /\ outcome' = [outcome EXCEPT ![i] = "failed"]
  /\ UNCHANGED <<file, halted>>

Halt ==
  /\ ~halted
  /\ halted' = TRUE
  /\ UNCHANGED <<file, outcome>>

Next == Halt \/ \E i \in Index : Edit(i) \/ Fail(i)

Spec == Init /\ [][Next]_vars

==============================================================================
