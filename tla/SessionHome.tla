------------------------------ MODULE SessionHome ------------------------------
(***************************************************************************)
(* What moving a session's directory promises: at every moment the session *)
(* has exactly one home, and the only thing that ever happens to it is a   *)
(* move to another working directory, which raises cwd_generation by one.  *)
(* There is no step that loses the home, duplicates it or takes it back.   *)
(***************************************************************************)
EXTENDS Naturals

CONSTANTS Cwds          \* working directories a session can be stored under

VARIABLES place,        \* the working directory whose copy is the session
          generation    \* cwd_generation of that copy

vars == <<place, generation>>

Init == /\ place \in Cwds
        /\ generation = 0

Move == /\ place' \in Cwds \ {place}
        /\ generation' = generation + 1

Next == Move

Spec == Init /\ [][Next]_vars

================================================================================
