----------------------------- MODULE Processes ------------------------------
(* The processes that use a device, and the holder of a lock that is free. *)
EXTENDS FiniteSets

CONSTANTS
  Procs,
  NoProc

ASSUME NoProcAssumption == NoProc \notin Procs
ASSUME ProcsAssumption == IsFiniteSet(Procs)
=============================================================================
