----------------------------- MODULE StateStore -----------------------------
(***************************************************************************)
(* The task, message and run tables of core/state.py and the per-project   *)
(* file lock it takes for a claim.  Every method of StateStore runs under  *)
(* the store's RLock inside one SQLite transaction, so each is one atomic  *)
(* operator here.  The operators say nothing about who calls them: module  *)
(* Scheduler and module Bridge do.                                         *)
(*                                                                         *)
(* Every bot process has a database of its own.  The rows of all databases *)
(* are kept in one set of tables and BotOf says whose row it is; the ids   *)
(* of one database are then the ids below in the same order.               *)
(*                                                                         *)
(* A row that was never inserted has status "absent".  A message id also   *)
(* stands for the row's place in ORDER BY created_at, id: the wall clock   *)
(* that stamps created_at is taken never to step back.                     *)
(***************************************************************************)
EXTENDS Naturals

CONSTANTS
    Bots,         \* the bot processes, one database each
    Projects,     \* the configured projects
    Shared,       \* the projects that two or more bots configure
    Tasks,        \* the task ids that may be created
    NoTask,       \* "no task": a column not filled, a lock nobody holds
    BotOf,        \* the bot in whose database a task lives
    ProjectOf,    \* the project a task belongs to
    MaxMessages   \* bound: message rows inserted over all databases

ASSUME StoreAssumption ==
    /\ NoTask \notin Tasks
    /\ BotOf \in [Tasks -> Bots]
    /\ ProjectOf \in [Tasks -> Projects]
    /\ Shared \subseteq Projects
    /\ MaxMessages \in Nat

\* load_config refuses a project that two bots configure and that is not
\* the shared one.
OneOwner ==
    \A t, u \in Tasks :
        ProjectOf[t] = ProjectOf[u] /\ BotOf[t] # BotOf[u]
            => ProjectOf[t] \in Shared

ASSUME OwnershipAssumption == OneOwner

MessageIds == 1 .. MaxMessages
\* A run row is inserted when a message row leaves "queued", which it does
\* once, so there are never more runs than messages.
RunIds == 1 .. MaxMessages

\* A session is named after the run whose agent opened it; 0 is NULL.
NoSession == 0
SessionIds == {NoSession} \cup RunIds

\* "finished" is SUCCEEDED or FAILED, which nothing modelled tells apart.
TaskStatus ==
    {"absent", "queued", "running", "finished", "stopped", "interrupted"}
MessageStatus ==
    {"absent", "queued", "running", "done", "cancelled", "interrupted"}
RunStatus == {"absent", "running", "finished", "interrupted"}
Operation == {"message", "compact"}

VARIABLES
    taskStatus, session,              \* tasks
    msgTask, msgStatus, msgOp,        \* task_messages
    runTask, runMsg, runStatus,       \* runs
    runPid,                           \* runs.pid IS NOT NULL
    nextMsg, nextRun,                 \* AUTOINCREMENT of the two tables
    lockHolder                        \* the flock of a project's path, by
                                      \* the task that keys its descriptor

taskVars == <<taskStatus, session>>
msgVars == <<msgTask, msgStatus, msgOp, nextMsg>>
runVars == <<runTask, runMsg, runStatus, runPid, nextRun>>
storeVars == <<taskVars, msgVars, runVars, lockHolder>>

StoreTypeOK ==
    /\ taskStatus \in [Tasks -> TaskStatus]
    /\ session \in [Tasks -> SessionIds]
    /\ msgTask \in [MessageIds -> Tasks \cup {NoTask}]
    /\ msgStatus \in [MessageIds -> MessageStatus]
    /\ msgOp \in [MessageIds -> Operation]
    /\ nextMsg \in 1 .. MaxMessages + 1
    /\ runTask \in [RunIds -> Tasks \cup {NoTask}]
    /\ runMsg \in [RunIds -> MessageIds \cup {0}]
    /\ runStatus \in [RunIds -> RunStatus]
    /\ runPid \in [RunIds -> BOOLEAN]
    /\ nextRun \in 1 .. MaxMessages + 1
    /\ lockHolder \in [Projects -> Tasks \cup {NoTask}]

StoreInit ==
    /\ taskStatus = [t \in Tasks |-> "absent"]
    /\ session = [t \in Tasks |-> NoSession]
    /\ msgTask = [m \in MessageIds |-> NoTask]
    /\ msgStatus = [m \in MessageIds |-> "absent"]
    /\ msgOp = [m \in MessageIds |-> "message"]
    /\ nextMsg = 1
    /\ runTask = [r \in RunIds |-> NoTask]
    /\ runMsg = [r \in RunIds |-> 0]
    /\ runStatus = [r \in RunIds |-> "absent"]
    /\ runPid = [r \in RunIds |-> FALSE]
    /\ nextRun = 1
    /\ lockHolder = [p \in Projects |-> NoTask]

-----------------------------------------------------------------------------
(* What the queries select. *)

SameQueue(t, u) == BotOf[t] = BotOf[u] /\ ProjectOf[t] = ProjectOf[u]

MessagesOf(t, status) ==
    {m \in MessageIds : msgTask[m] = t /\ msgStatus[m] = status}

RunningRuns(t) == {r \in RunIds : runTask[r] = t /\ runStatus[r] = "running"}

\* running_pid: the pid of the newest running run of the task, if it has one.
RunningPid(t) ==
    {r \in RunningRuns(t) : runPid[r] /\ \A q \in RunningRuns(t) : q <= r}

\* The flock is taken only for a project of several bots, without waiting.
LockFree(p) == p \in Shared => lockHolder[p] = NoTask

\* The rows of claimed_run's query whose project lock can be taken: the loop
\* over the rows passes by the others.
Claimable(b) ==
    {m \in MessageIds :
        /\ msgStatus[m] = "queued"
        /\ BotOf[msgTask[m]] = b
        /\ taskStatus[msgTask[m]] # "stopped"
        /\ \A u \in Tasks :
              SameQueue(u, msgTask[m]) => taskStatus[u] # "running"
        /\ LockFree(ProjectOf[msgTask[m]])}

\* ORDER BY m.created_at, m.id
Oldest(m, S) == \A n \in S : m <= n

\* Mutation of CanQueue: a compaction of a task without a session.
CanQueueAnything(t, op) == taskStatus[t] # "absent"

CanQueue(t, op) ==
    /\ taskStatus[t] # "absent"
    /\ op = "compact" => session[t] # NoSession

\* The messages that stop_task cancels.
Cancelled(t) == MessagesOf(t, "queued")

\* Mutation of StatusAfterRun: a waiting message is forgotten.
StatusForgetsWaiting(t) ==
    IF taskStatus[t] = "stopped" THEN "stopped" ELSE "finished"

\* finish_run: a stopped task stays stopped, a waiting message queues the
\* task again, else the task ends like the run.
StatusAfterRun(t) ==
    IF taskStatus[t] = "stopped" THEN "stopped"
    ELSE IF MessagesOf(t, "queued") # {} THEN "queued"
    ELSE "finished"

\* Mutations of Lost: only the tasks whose pid is known; also those that were
\* stopped with their run in progress.
LostWithPid(b) ==
    {t \in Tasks : BotOf[t] = b /\ taskStatus[t] = "running"
                                /\ RunningPid(t) # {}}
LostWithStopped(b) == {t \in Tasks : BotOf[t] = b /\ RunningRuns(t) # {}}

\* The tasks that recover_interrupted takes for interrupted: their status
\* says running, whatever the runs table says.
Lost(b) == {t \in Tasks : BotOf[t] = b /\ taskStatus[t] = "running"}

\* Mutations of StatusRecovered: all messages become interrupted; a message in
\* progress is queued again.
RecoverInterruptsAll(status) ==
    CASE status = "absent" -> "absent"
      [] status = "queued" -> "cancelled"
      [] OTHER -> "interrupted"
RecoverRunsAgain(status) ==
    IF status = "running" THEN "queued" ELSE status

\* What becomes of a message of a lost task.
StatusRecovered(status) ==
    CASE status = "running" -> "interrupted"
      [] status = "queued" -> "cancelled"
      [] OTHER -> status

-----------------------------------------------------------------------------
(* The transactions. *)

InsertMessage(t, op) ==
    /\ nextMsg <= MaxMessages
    /\ msgTask' = [msgTask EXCEPT ![nextMsg] = t]
    /\ msgStatus' = [msgStatus EXCEPT ![nextMsg] = "queued"]
    /\ msgOp' = [msgOp EXCEPT ![nextMsg] = op]
    /\ nextMsg' = nextMsg + 1

CreateTask(t) ==
    /\ taskStatus[t] = "absent"
    /\ taskStatus' = [taskStatus EXCEPT ![t] = "queued"]
    /\ InsertMessage(t, "message")
    /\ UNCHANGED <<session, runVars, lockHolder>>

\* A running task keeps its status, every other one (a stopped one too) is
\* queued again.
QueueMessage(t, op) ==
    /\ CanQueue(t, op)
    /\ taskStatus' =
          [taskStatus EXCEPT ![t] = IF @ = "running" THEN @ ELSE "queued"]
    /\ InsertMessage(t, op)
    /\ UNCHANGED <<session, runVars, lockHolder>>

\* No guard on the status: the caller looked at it in an earlier transaction.
StopTask(t) ==
    /\ taskStatus[t] # "absent"
    /\ taskStatus' = [taskStatus EXCEPT ![t] = "stopped"]
    /\ msgStatus' = [m \in MessageIds |->
                        IF m \in Cancelled(t) THEN "cancelled"
                        ELSE msgStatus[m]]
    /\ UNCHANGED <<session, msgTask, msgOp, nextMsg, runVars, lockHolder>>

\* The first row that can be had: message, task and run change together.
ClaimMessage(b, m) ==
    LET t == msgTask[m] IN
    /\ nextRun <= MaxMessages
    /\ m \in Claimable(b)
    /\ Oldest(m, Claimable(b))
    /\ msgStatus' = [msgStatus EXCEPT ![m] = "running"]
    /\ taskStatus' = [taskStatus EXCEPT ![t] = "running"]
    /\ runTask' = [runTask EXCEPT ![nextRun] = t]
    /\ runMsg' = [runMsg EXCEPT ![nextRun] = m]
    /\ runStatus' = [runStatus EXCEPT ![nextRun] = "running"]
    /\ nextRun' = nextRun + 1
    /\ lockHolder' = IF ProjectOf[t] \in Shared
                     THEN [lockHolder EXCEPT ![ProjectOf[t]] = t]
                     ELSE lockHolder
    /\ UNCHANGED <<session, msgTask, msgOp, nextMsg, runPid>>

SetRunPid(r) ==
    /\ runPid' = [runPid EXCEPT ![r] = TRUE]
    /\ UNCHANGED <<taskVars, msgVars, runTask, runMsg, runStatus, nextRun,
                   lockHolder>>

SetTaskSession(t, s) ==
    /\ session' = [session EXCEPT ![t] = s]
    /\ UNCHANGED <<taskStatus, msgVars, runVars, lockHolder>>

\* The lock is the descriptor filed under the task in _project_locks.
ReleaseLock(t) ==
    lockHolder' = [p \in Projects |->
                      IF lockHolder[p] = t THEN NoTask ELSE lockHolder[p]]

FinishRun(r, reported) ==
    LET t == runTask[r] IN
    /\ runStatus' = [runStatus EXCEPT ![r] = "finished"]
    /\ msgStatus' = [msgStatus EXCEPT ![runMsg[r]] = "done"]
    /\ taskStatus' = [taskStatus EXCEPT ![t] = StatusAfterRun(t)]
    /\ session' = [session EXCEPT
                      ![t] = IF reported = NoSession THEN @ ELSE reported]
    /\ ReleaseLock(t)
    /\ UNCHANGED <<msgTask, msgOp, nextMsg, runTask, runMsg, runPid, nextRun>>

RecoverInterrupted(b) ==
    /\ taskStatus' = [t \in Tasks |->
                         IF t \in Lost(b) THEN "interrupted"
                         ELSE taskStatus[t]]
    /\ runStatus' = [r \in RunIds |->
                        IF runTask[r] \in Lost(b) /\ runStatus[r] = "running"
                        THEN "interrupted" ELSE runStatus[r]]
    /\ msgStatus' = [m \in MessageIds |->
                        IF msgTask[m] \in Lost(b)
                        THEN StatusRecovered(msgStatus[m])
                        ELSE msgStatus[m]]
    /\ UNCHANGED <<session, msgTask, msgOp, nextMsg, runTask, runMsg, runPid,
                   nextRun, lockHolder>>

\* Mutation of DropLocks: a lock that outlives its process.
KeepLocks(b) == UNCHANGED lockHolder

\* The process ends: the kernel drops every flock its descriptors held.
DropLocks(b) ==
    lockHolder' = [p \in Projects |->
                      IF lockHolder[p] \in {t \in Tasks : BotOf[t] = b}
                      THEN NoTask ELSE lockHolder[p]]
=============================================================================
