------------------------------- MODULE Bridge -------------------------------
(***************************************************************************)
(* The bridge processes as a whole: for each bot the SDK's receive thread  *)
(* (BridgeService.receive calling MessageRouter.handle), the event loop    *)
(* with the scheduler, and the life of the process under systemd.          *)
(*                                                                         *)
(* A bot is "starting" from the gateway thread's start to the end of       *)
(* recover_interrupted: messages are received before the recovery.         *)
(*                                                                         *)
(* The unit file has KillMode=control-group: agents of a bridge that died  *)
(* are sent SIGTERM, SIGKILL after TimeoutStopSec, and the bridge is       *)
(* started again when all are gone.                                        *)
(***************************************************************************)
EXTENDS Scheduler

CONSTANTS
    MaxCrashes,    \* bound: deaths of bridge processes
    Retried        \* bound: the tasks whose /stop Feishu may deliver again

ASSUME CrashAssumption == MaxCrashes \in Nat

VARIABLES
    bot,          \* "starting", "up" or "down"
    rxPc,         \* where the receive thread is with a /stop
    rxTask,       \* the task that /stop names
    retries,      \* the tasks whose /stop may come again
    crashes

bridgeVars == <<bot, rxPc, rxTask, retries, crashes>>
vars == <<storeVars, schedVars, bridgeVars>>

TypeOK ==
    /\ StoreTypeOK
    /\ SchedTypeOK
    /\ bot \in [Bots -> {"starting", "up", "down"}]
    /\ rxPc \in [Bots -> {"idle", "commit", "submit"}]
    /\ rxTask \in [Bots -> Tasks \cup {NoTask}]
    /\ retries \subseteq Tasks
    /\ crashes \in 0 .. MaxCrashes

Init ==
    /\ StoreInit
    /\ SchedInit
    /\ bot = [b \in Bots |-> "starting"]
    /\ rxPc = [b \in Bots |-> "idle"]
    /\ rxTask = [b \in Bots |-> NoTask]
    /\ retries = {}
    /\ crashes = 0

-----------------------------------------------------------------------------
(* The receive thread.  Authorisation, ownership and the choice of the     *)
(* selected task are left out: t is the task the message ends up at.       *)

Receives(b) == bot[b] \in {"starting", "up"} /\ rxPc[b] = "idle"

\* /new, and plain text with no task selected.
ReceiveNew(t) ==
    /\ Receives(BotOf[t])
    /\ CreateTask(t)
    /\ UNCHANGED <<schedVars, bridgeVars>>

\* Plain text, an attachment, or /compact for the selected task.
ReceiveContinue(t, op) ==
    /\ Receives(BotOf[t])
    /\ QueueMessage(t, op)
    /\ UNCHANGED <<schedVars, bridgeVars>>

\* /stop, first transaction: look at the status.  A task that is neither
\* queued nor running is not stopped, yet receive goes on to Scheduler.stop.
ReceiveStop(t) ==
    LET b == BotOf[t] IN
    /\ Receives(b)
    /\ taskStatus[t] # "absent"
    /\ rxTask' = [rxTask EXCEPT ![b] = t]
    /\ rxPc' = [rxPc EXCEPT
                   ![b] = IF taskStatus[t] \in {"queued", "running"}
                          THEN "commit" ELSE "submit"]
    /\ retries' = retries \cup ({t} \cap Retried)
    /\ UNCHANGED <<storeVars, schedVars, bot, crashes>>

\* A /stop delivered again: register_inbound refuses it and handle does
\* nothing, but receive does not ask and goes on to Scheduler.stop.
ReceiveStopAgain(t) ==
    LET b == BotOf[t] IN
    /\ Receives(b)
    /\ t \in retries
    /\ rxTask' = [rxTask EXCEPT ![b] = t]
    /\ rxPc' = [rxPc EXCEPT ![b] = "submit"]
    /\ UNCHANGED <<storeVars, schedVars, bot, retries, crashes>>

\* /stop, second transaction: stop_task, whatever the status is by now.
CommitStop(b) ==
    /\ rxPc[b] = "commit"
    /\ StopTask(rxTask[b])
    /\ rxPc' = [rxPc EXCEPT ![b] = "submit"]
    /\ UNCHANGED <<schedVars, bot, rxTask, retries, crashes>>

\* Mutation of SubmitStop: submitted again and again.
SubmitStopAlways(b) ==
    /\ bot[b] = "up"
    /\ stopQueue' = stopQueue \cup {rxTask[b]}
    /\ rxPc' = [rxPc EXCEPT ![b] = "idle"]
    /\ rxTask' = [rxTask EXCEPT ![b] = NoTask]
    /\ UNCHANGED <<storeVars, phase, alive, known, doomed, bot, retries,
                   crashes>>

\* /stop, last: run_coroutine_threadsafe(Scheduler.stop).  While the bot is
\* starting its loop may not be set, and then nothing is submitted.
SubmitStop(b) ==
    /\ rxPc[b] = "submit"
    /\ \/ stopQueue' = stopQueue \cup {rxTask[b]}
       \/ bot[b] = "starting" /\ UNCHANGED stopQueue
    /\ rxPc' = [rxPc EXCEPT ![b] = "idle"]
    /\ rxTask' = [rxTask EXCEPT ![b] = NoTask]
    /\ UNCHANGED <<storeVars, phase, alive, known, doomed, bot, retries,
                   crashes>>

-----------------------------------------------------------------------------
(* The event loop: every step of the scheduler while the bot is up. *)

RunStep(r) ==
    \/ Spawn(r)
    \/ RecordPid(r)
    \/ ReportSession(r)
    \/ Collect(r)
    \/ Finish(r)

ClaimStep(b) == bot[b] = "up" /\ Claim(b) /\ UNCHANGED bridgeVars
CoroutineStep(r) == RunStep(r) /\ UNCHANGED bridgeVars
FailStep(r) == ExecuteFails(r) /\ UNCHANGED bridgeVars
SignalStep(t) ==
    bot[BotOf[t]] = "up" /\ StopSignal(t) /\ UNCHANGED bridgeVars
KillStep(r) == StopKill(r) /\ UNCHANGED bridgeVars
ExitStep(r) == AgentExits(r) /\ UNCHANGED bridgeVars

-----------------------------------------------------------------------------
(* The life of the process. *)

OwnRuns(b) == {r \in RunIds : runTask[r] # NoTask /\ BotOf[runTask[r]] = b}

\* The process dies: its threads, coroutines and locks are gone at once,
\* its database and, for a while, its agents stay.
Crash(b) ==
    /\ bot[b] # "down"
    /\ crashes < MaxCrashes
    /\ crashes' = crashes + 1
    /\ bot' = [bot EXCEPT ![b] = "down"]
    /\ rxPc' = [rxPc EXCEPT ![b] = "idle"]
    /\ rxTask' = [rxTask EXCEPT ![b] = NoTask]
    /\ phase' = [r \in RunIds |->
                    IF r \in OwnRuns(b) /\ phase[r] \in Active
                    THEN "lost" ELSE phase[r]]
    /\ stopQueue' = {t \in stopQueue : BotOf[t] # b}
    /\ doomed' = doomed \ OwnRuns(b)
    /\ DropLocks(b)
    /\ UNCHANGED <<taskVars, msgVars, runVars, alive, known, retries>>

\* systemd starts the unit again once its control group is empty.
Restart(b) ==
    /\ bot[b] = "down"
    /\ \A r \in OwnRuns(b) : ~alive[r]
    /\ bot' = [bot EXCEPT ![b] = "starting"]
    /\ UNCHANGED <<storeVars, schedVars, rxPc, rxTask, retries, crashes>>

\* BridgeService.run up to the start of its loops.
Recover(b) ==
    /\ bot[b] = "starting"
    /\ RecoverInterrupted(b)
    /\ bot' = [bot EXCEPT ![b] = "up"]
    /\ UNCHANGED <<schedVars, rxPc, rxTask, retries, crashes>>

-----------------------------------------------------------------------------

ReceiveStep ==
    \/ \E t \in Tasks :
          ReceiveNew(t) \/ ReceiveStop(t) \/ ReceiveStopAgain(t)
    \/ \E t \in Tasks, op \in Operation : ReceiveContinue(t, op)
    \/ \E b \in Bots : CommitStop(b) \/ SubmitStop(b)

LoopStep ==
    \/ \E b \in Bots : ClaimStep(b)
    \/ \E r \in RunIds : CoroutineStep(r) \/ FailStep(r) \/ KillStep(r)
    \/ \E t \in Tasks : SignalStep(t)

ProcessStep ==
    \/ \E r \in RunIds : ExitStep(r)
    \/ \E b \in Bots : Crash(b) \/ Restart(b) \/ Recover(b)

Next == ReceiveStep \/ LoopStep \/ ProcessStep

Spec == Init /\ [][Next]_vars
=============================================================================
