------------------------------ MODULE MCPrivate ------------------------------
(* One bot whose tasks are all in one project of its own. *)
EXTENDS BridgeProperties, TLC
CONSTANTS b1, p1
MCBotOf == [t \in Tasks |-> b1]
MCProjectOf == [t \in Tasks |-> p1]
\* The tasks are alike: same bot, same project, no order between them.
TaskSymmetry == Permutations(Tasks)
=============================================================================
