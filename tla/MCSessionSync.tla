--------------------------- MODULE MCSessionSync ---------------------------
(* One bot with one project. *)
EXTENDS SessionSync
CONSTANTS b1, p1
MCBotOf == [t \in Tasks |-> b1]
MCProjectOf == [t \in Tasks |-> p1]
=============================================================================
