-------------------------- MODULE MCConflictTracker --------------------------
(***************************************************************************)
(* Instances of ConflictTracker for TLC.                                   *)
(***************************************************************************)
EXTENDS ConflictTracker
==============================================================================
