--------------------------- MODULE MCDependencies ----------------------------
(***************************************************************************)
(* Instances of Dependencies for TLC.  GraphWorld is one larger graph:     *)
(* a cycle (x, y), a diamond (outreach is reached twice, under both        *)
(* names), a service without a manifest (z) and services whose candidate   *)
(* files disagree (y, v), with downloads that may fail.  SmallWorlds is    *)
(* every graph over three services with at most one manifest each, and     *)
(* every set of roots, with downloads that may not.                        *)
(***************************************************************************)
EXTENDS Dependencies

CONSTANTS flagship, outreach, x, y, z, v

GraphServices == {flagship, outreach, x, y, z, v}
GraphWorld ==
  [roots |-> {x, z},
   manifest |-> [s \in GraphServices |->
                   CASE s = x -> << {y, z} >>
                     [] s = y -> << {x, flagship}, {v} >>
                     [] s = outreach -> << {v} >>
                     [] s = v -> << {}, {outreach} >>
                     [] OTHER -> <<>>],
   mayFail |-> TRUE]

SmallServices == {flagship, outreach, x}
SmallWorlds ==
  [roots : SUBSET SmallServices,
   manifest : {[s \in GraphServices |-> IF s \in SmallServices THEN m[s] ELSE <<>>] :
                 m \in [SmallServices -> {<<>>} \cup {<<r>> : r \in SUBSET SmallServices}]},
   mayFail : {FALSE}]

OutageWorlds == {GraphWorld}
AllWorlds    == {GraphWorld} \cup SmallWorlds

==============================================================================
