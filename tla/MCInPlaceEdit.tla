---------------------------- MODULE MCInPlaceEdit ----------------------------
(***************************************************************************)
(* Instances of InPlaceEdit for TLC: `devbase yq -i F a l a`, where l is a *)
(* symbolic link to a file t that is not an operand, and, for the aliased  *)
(* run, `devbase yq -i F a ./a`.                                           *)
(***************************************************************************)
EXTENDS InPlaceEdit

CONSTANTS a, l, dot_a, t

RepeatedOperands == <<a, l, a>>
RepeatedEntryOf  == [p \in {a, l} |-> p]
RepeatedLinkOf   == [e \in {a, l, t} |-> IF e = l THEN t ELSE e]

AliasedOperands == <<a, dot_a>>
AliasedEntryOf  == [p \in {a, dot_a} |-> a]
AliasedLinkOf   == [e \in {a} |-> e]

==============================================================================
