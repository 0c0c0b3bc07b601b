--------------------------- MODULE MCSessionActor ---------------------------
(* Finite instances of SessionActor for TLC. *)
EXTENDS SessionActor, TLC

CONSTANTS p1, p2, p3, j1, j2, w1, w2, u1, f1, c1, g1, r1, d1, d2, n1, m1, m2, mcp, alice, bob

\* Rows alternate between two clients.
MCOwner == [p \in Prompts |-> IF p = p2 THEN bob ELSE alice]

\* The first monitor's task completes with a wake, the second's with a notice.
MCSource == [m \in Monitors |-> IF m = m1 THEN w1 ELSE n1]

Option(trigger, rewind, early, kill) ==
  [trigger |-> trigger, rewind |-> rewind, early |-> early, kill |-> kill]

\* Esc, Esc on a pristine prompt, Ctrl+C with and without cancel_subagents.
PlainCancels == {Option("none", FALSE, FALSE, FALSE), Option("none", TRUE, FALSE, FALSE),
                 Option("ctrl_c", FALSE, TRUE, FALSE), Option("ctrl_c", FALSE, FALSE, FALSE)}

\* Ctrl+C and the hard teardown of a killed session.
TeardownCancels == {Option("ctrl_c", FALSE, FALSE, FALSE), Option("none", FALSE, TRUE, TRUE)}

\* Ctrl+C on a pristine prompt: the client restores it to its composer.
RewindCancels == {Option("ctrl_c", TRUE, FALSE, FALSE)}

CtrlCOnly == {Option("ctrl_c", FALSE, FALSE, FALSE)}
EscOnly   == {Option("none", FALSE, FALSE, FALSE)}
=============================================================================
