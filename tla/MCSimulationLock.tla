-------------------------- MODULE MCSimulationLock --------------------------
(***************************************************************************)
(* Instance of SimulationLock for TLC.                                     *)
(***************************************************************************)
EXTENDS SimulationLockInv, TLC

\* Clients are compared only for equality, and so are instances.
Symmetry == Permutations(Hosts) \cup Permutations(Instances)
=============================================================================
