------------------------------- MODULE MCShared -------------------------------
(* Two bots, a task each, in the project that both configure. *)
EXTENDS BridgeProperties
CONSTANTS b1, b2, t1, t2, p1
MCBotOf == [t \in Tasks |-> IF t = t1 THEN b1 ELSE b2]
MCProjectOf == [t \in Tasks |-> p1]
=============================================================================
