-------------------------- MODULE BridgeProperties --------------------------
(***************************************************************************)
(* What the bridge of module Bridge is to guarantee, the abstract          *)
(* specification it implements, and the fairness its scheduling justifies. *)
(***************************************************************************)
EXTENDS Bridge

-----------------------------------------------------------------------------
(* Invariants *)

\* No message is forgotten and no task waits for nothing: a task is "queued"
\* only with a message to claim, and a waiting message belongs to a task that
\* is queued or running, the two statuses from which claimed_run or finish_run
\* get to it.  stop_task, finish_run and recover_interrupted each settle both
\* tables in one transaction to keep this.
QueueConsistent ==
    \A t \in Tasks :
        /\ taskStatus[t] = "queued" => MessagesOf(t, "queued") # {}
        /\ MessagesOf(t, "queued") # {} =>
              taskStatus[t] \in {"queued", "running"}

\* A "running" task keeps every other task of its project from being claimed,
\* so on a bot that is up one of its runs must have a live coroutine that will
\* come to finish_run; else the project would be blocked until a restart.
RunningHasCoroutine ==
    \A t \in Tasks :
        taskStatus[t] = "running" /\ bot[BotOf[t]] = "up"
            => \E r \in ActiveRuns : runTask[r] = t

\* The lock of a shared project is held exactly while some bot's coroutine
\* carries a run in it, by the task of that run, and there is one such run
\* over all bots: no lock leaks and no run goes on without it, whatever bots
\* stop, revive, crash and restart.
SharedRunsHoldTheLock ==
    \A p \in Shared :
        /\ \A r, q \in ActiveRunsIn(p) : r = q
        /\ \A r \in ActiveRunsIn(p) : lockHolder[p] = runTask[r]
        /\ lockHolder[p] # NoTask => ActiveRunsIn(p) # {}

\* A compaction always has a session to compact: queue_message asks for one
\* when it is queued, the claim reads the column again later, and no step in
\* between may have emptied it.
CompactResumes ==
    \A r \in ActiveRuns :
        msgOp[runMsg[r]] = "compact" => known[r] # NoSession

-----------------------------------------------------------------------------
(* What a step may never do *)

Settled == {"done", "cancelled", "interrupted"}

\* The end of a message is final: neither a run that finishes late nor a
\* recovery rewrites what the user was told.
SettledForGood ==
    [][\A m \in MessageIds :
          msgStatus[m] \in Settled => msgStatus'[m] = msgStatus[m]]_vars

\* A stopped task stays stopped until its user writes to it again: the run
\* that ends later, a restart and the claim loop all leave it so.
StoppedUntilRevived ==
    [][\A t \in Tasks :
          taskStatus[t] = "stopped" /\ taskStatus'[t] # "stopped"
              => /\ nextMsg' = nextMsg + 1
                 /\ msgTask'[nextMsg] = t]_vars

\* Once a task has a session, every later turn is of that session: nothing
\* replaces the column.  True of a project whose runs are serial.
SessionKept ==
    [][\A t \in Tasks :
          session[t] # NoSession => session'[t] = session[t]]_vars

-----------------------------------------------------------------------------
(* The abstract specification *)

TurnOf(m) ==
    CASE msgStatus[m] = "absent" -> "none"
      [] msgStatus[m] = "queued" -> "waiting"
      [] OTHER -> IF \E r \in ActiveRuns : runMsg[r] = m
                  THEN "running" ELSE "settled"

LaneOf(m) ==
    IF msgTask[m] = NoTask THEN <<>>
    ELSE <<BotOf[msgTask[m]], ProjectOf[msgTask[m]]>>

Turns == INSTANCE SerialTurns WITH
    Turns <- MessageIds,
    Lanes <- Bots \X Projects,
    NoLane <- <<>>,
    Sites <- Projects,
    SiteOf <- [l \in Bots \X Projects |-> l[2]],
    Exclusive <- Shared,
    turn <- [m \in MessageIds |-> TurnOf(m)],
    lane <- [m \in MessageIds |-> LaneOf(m)]

\* The bridges implement SerialTurns: per bot and project first come first
\* served, every message run at most once, and one run at a time in a shared
\* project over all bots.
ImplementsSerialTurns == Turns!Spec

-----------------------------------------------------------------------------
(* Fairness.  The event loop runs every coroutine that is ready.  The      *)
(* claim loop polls once a second, the receive thread goes on, systemd     *)
(* empties the control group and restarts the unit.  Of the agent nothing  *)
(* is assumed here: only a SIGKILL makes sure that it ends.                *)

LoopFairness ==
    /\ \A b \in Bots : WF_vars(ClaimStep(b))
    /\ \A r \in RunIds : WF_vars(CoroutineStep(r)) /\ WF_vars(KillStep(r))
    /\ \A t \in Tasks : WF_vars(SignalStep(t))

ProcessFairness ==
    \A b \in Bots :
        /\ WF_vars(CommitStop(b) \/ SubmitStop(b))
        /\ WF_vars(Recover(b))
        /\ WF_vars(Restart(b))

\* An agent of a bridge that is down is killed by systemd.
ReapFairness ==
    \A r \in RunIds :
        WF_vars(ExitStep(r) /\ bot[BotOf[runTask[r]]] = "down")

Fairness == LoopFairness /\ ProcessFairness /\ ReapFairness
FairSpec == Spec /\ Fairness

\* Under the further assumption that every agent ends some day.
AgentsEnd == \A r \in RunIds : WF_vars(ExitStep(r))
LiveSpec == FairSpec /\ AgentsEnd

\* Every message leaves the queue: it is claimed, or a stop or a restart
\* cancels it.  Nothing that a stop, a late finish or a recovery leaves behind
\* blocks its project for ever.
QueuedSettles ==
    \A m \in MessageIds :
        msgStatus[m] = "queued" ~> msgStatus[m] # "queued"

-----------------------------------------------------------------------------
(* What a document or a comment of the repository says, and the code does  *)
(* not keep: see the violation runs.                                       *)

\* "Atomically claim the oldest queued message whose project is not running."
\* (state.py, claimed_run): no run starts in a project where an agent runs.
NoClaimInBusyProject ==
    [][\A r \in RunIds :
          phase[r] = "none" /\ phase'[r] = "prepare"
              => \A q \in RunIds :
                    alive[q] => ProjectOf[runTask[q]] # ProjectOf[runTask'[r]]
      ]_vars
=============================================================================
