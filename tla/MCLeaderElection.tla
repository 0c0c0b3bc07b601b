---------------------------- MODULE MCLeaderElection ----------------------------
(***************************************************************************)
(* Leader election for TLC.                                                *)
(***************************************************************************)
EXTENDS LeaderElection, TLC

\* Processes of one version are interchangeable.
Symmetry == Permutations(Procs \ Old)

================================================================================
