---------------------------- MODULE MCLocalizer -----------------------------
(***************************************************************************)
(* Localizer for TLC.  Its state space is finite as it stands.             *)
(***************************************************************************)
EXTENDS Localizer

==============================================================================
