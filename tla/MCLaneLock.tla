----------------------------- MODULE MCLaneLock -----------------------------
(***************************************************************************)
(* Instances of LaneLock with three processes: one that dies with the lock *)
(* and two that find it.                                                   *)
(***************************************************************************)
EXTENDS LaneLock, TLC

MCSymmetry == Permutations(Processes)

=============================================================================
