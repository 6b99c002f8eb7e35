---------------------------- MODULE MCBootstrap -----------------------------
(***************************************************************************)
(* Bootstrap for TLC: a few lock files one after another.                  *)
(***************************************************************************)
EXTENDS Bootstrap

CONSTANTS v1, v2, v3, p1, p2

(* Upgrades, with a local checkout in between. *)
Upgrades == <<<<v1, p1>>, <<Local, p1>>, <<v2, p1>>, <<Local, p1>>, <<v3, p1>>>>

==============================================================================
