------------------------------ MODULE MCRelocation ------------------------------
(***************************************************************************)
(* The instance of RelocationView that TLC checks.  No working directory   *)
(* is special to the code, so the session starts under a fixed one.        *)
(***************************************************************************)
EXTENDS RelocationView

CONSTANTS Start         \* the working directory the session starts under

MCInit == ViewInit /\ home[Start].kind = "whole"

MCSpec == MCInit /\ [][ViewNext]_vvars /\ Fairness

================================================================================
