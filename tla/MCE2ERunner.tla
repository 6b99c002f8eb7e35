---------------------------- MODULE MCE2ERunner -----------------------------
(***************************************************************************)
(* E2ERunner for TLC.  Its state space is finite as it stands.             *)
(***************************************************************************)
EXTENDS E2ERunner

==============================================================================
