----------------------------- MODULE SerialTurns -----------------------------
(***************************************************************************)
(* What the bridge promises about the turns (the user's messages): a turn  *)
(* waits in the lane of its bot and project, lanes are first come first    *)
(* served, a turn runs at most once, and on an exclusive site (a project   *)
(* that several bots share) one turn runs at a time, whichever bot it came *)
(* from.  A turn may be settled from waiting (a stop or a restart cancels  *)
(* it) and from running (it ended, or its bridge died).                    *)
(***************************************************************************)
EXTENDS Naturals

CONSTANTS
    Turns,       \* numbered in the order of their arrival
    Lanes,       \* a bot and a project
    NoLane,
    Sites,       \* the projects
    SiteOf,      \* the site of a lane
    Exclusive    \* the sites with one turn at a time

VARIABLES turn, lane

vars == <<turn, lane>>

Running(s) == {m \in Turns : turn[m] = "running" /\ SiteOf[lane[m]] = s}

Init ==
    /\ turn = [m \in Turns |-> "none"]
    /\ lane = [m \in Turns |-> NoLane]

\* A turn comes after all that came before.
Accept(m, l) ==
    /\ turn[m] = "none"
    /\ \A n \in Turns : turn[n] # "none" => n < m
    /\ turn' = [turn EXCEPT ![m] = "waiting"]
    /\ lane' = [lane EXCEPT ![m] = l]

Start(m) ==
    /\ turn[m] = "waiting"
    /\ \A n \in Turns : n < m /\ lane[n] = lane[m] => turn[n] # "waiting"
    /\ SiteOf[lane[m]] \in Exclusive => Running(SiteOf[lane[m]]) = {}
    /\ turn' = [turn EXCEPT ![m] = "running"]
    /\ UNCHANGED lane

Settle(S) ==
    /\ \A m \in S : turn[m] \in {"waiting", "running"}
    /\ turn' = [m \in Turns |-> IF m \in S THEN "settled" ELSE turn[m]]
    /\ UNCHANGED lane

Next ==
    \/ \E m \in Turns, l \in Lanes : Accept(m, l)
    \/ \E m \in Turns : Start(m)
    \/ \E S \in SUBSET Turns : Settle(S)

Spec == Init /\ [][Next]_vars
=============================================================================
