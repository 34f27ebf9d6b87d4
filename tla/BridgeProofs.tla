---------------------------- MODULE BridgeProofs ----------------------------
(***************************************************************************)
(* Proofs about the specification of module Bridge for any bots, projects  *)
(* and tasks, and any bounds.                                              *)
(***************************************************************************)
EXTENDS BridgeProperties, TLAPS

-----------------------------------------------------------------------------
(* The inductive invariant: what the tables and the coroutines keep.       *)

\* A message row has a task from its insertion on.
MessageRows ==
    \A m \in MessageIds :
        /\ msgStatus[m] = "absent" <=> msgTask[m] = NoTask
        /\ m >= nextMsg => msgStatus[m] = "absent"

\* A run row has a task and its message, which is never queued again; every
\* row that was inserted has been given a coroutine.
RunRows ==
    \A r \in RunIds :
        /\ r >= nextRun <=> phase[r] = "none"
        /\ phase[r] # "none" =>
              /\ runTask[r] \in Tasks
              /\ runMsg[r] \in MessageIds
              /\ msgTask[runMsg[r]] = runTask[r]
              /\ msgStatus[runMsg[r]] # "queued"

\* A message is run once.
OneRunEach ==
    \A r, q \in RunIds :
        phase[r] # "none" /\ phase[q] # "none" /\ runMsg[r] = runMsg[q]
            => r = q

\* A coroutine lives in a bot that is up, and its message is in progress.
ActiveOK ==
    \A r \in RunIds :
        phase[r] \in Active =>
            /\ bot[BotOf[runTask[r]]] = "up"
            /\ msgStatus[runMsg[r]] = "running"

\* The receive thread is busy with a /stop of some task.
ReceiverOK == \A b \in Bots : rxPc[b] # "idle" => rxTask[b] \in Tasks

TablesOK ==
    /\ TypeOK
    /\ MessageRows
    /\ RunRows
    /\ ReceiverOK

-----------------------------------------------------------------------------

\* The initial state satisfies the invariant of the tables.
LEMMA InitTables == Init => TablesOK
  BY StoreAssumption, CrashAssumption
  DEF Init, StoreInit, SchedInit, TablesOK, TypeOK, StoreTypeOK, SchedTypeOK,
      MessageRows, RunRows, ReceiverOK, TaskStatus, MessageStatus, RunStatus,
      Operation, SessionIds, NoSession, MessageIds, RunIds, Phase
\* Every step keeps it.
LEMMA StepTables == TablesOK /\ [Next]_vars => TablesOK'
<1> SUFFICES ASSUME TablesOK, [Next]_vars PROVE TablesOK'
  OBVIOUS
<1> USE StoreAssumption, CrashAssumption
    DEF TablesOK, TypeOK, StoreTypeOK, SchedTypeOK, MessageRows, RunRows,
        ReceiverOK, MessageIds, RunIds
<1>1. ASSUME NEW t \in Tasks, ReceiveNew(t) PROVE TablesOK'
  BY <1>1 DEF ReceiveNew, CreateTask, InsertMessage, runVars, schedVars,
      bridgeVars, TaskStatus, MessageStatus, Operation
<1>2. ASSUME NEW t \in Tasks, ReceiveStop(t) PROVE TablesOK'
  BY <1>2 DEF ReceiveStop, storeVars, taskVars, msgVars, runVars, schedVars
<1>3. ASSUME NEW t \in Tasks, NEW op \in Operation, ReceiveContinue(t, op)
      PROVE  TablesOK'
  BY <1>3 DEF ReceiveContinue, QueueMessage, InsertMessage, runVars, schedVars,
      bridgeVars, TaskStatus, MessageStatus, Operation
<1>4. ASSUME NEW b \in Bots, CommitStop(b) PROVE TablesOK'
  BY <1>4 DEF CommitStop, StopTask, Cancelled, MessagesOf, runVars, schedVars,
      TaskStatus, MessageStatus
<1>5. ASSUME NEW b \in Bots, SubmitStop(b) PROVE TablesOK'
  BY <1>5 DEF SubmitStop, storeVars, taskVars, msgVars, runVars
<1>6. ASSUME NEW b \in Bots, ClaimStep(b) PROVE TablesOK'
  BY <1>6 DEF ClaimStep, Claim, ClaimMessage, Claimable, bridgeVars,
      TaskStatus, MessageStatus, RunStatus, Phase, SessionIds
<1>7. ASSUME NEW r \in RunIds, CoroutineStep(r) PROVE TablesOK'
  <2>1. CASE Spawn(r)
    BY <1>7, <2>1 DEF CoroutineStep, Spawn, storeVars, taskVars, msgVars,
        runVars, bridgeVars, Phase
  <2>2. CASE RecordPid(r)
    BY <1>7, <2>2 DEF CoroutineStep, RecordPid, SetRunPid, taskVars, msgVars,
        bridgeVars, Phase
  <2>3. CASE ReportSession(r)
    BY <1>7, <2>3 DEF CoroutineStep, ReportSession, SetTaskSession, msgVars,
        runVars, bridgeVars, Phase, SessionIds
  <2>4. CASE Collect(r)
    BY <1>7, <2>4 DEF CoroutineStep, Collect, storeVars, taskVars, msgVars,
        runVars, bridgeVars, Phase
  <2>5. CASE Finish(r)
    <3>1. StatusAfterRun(runTask[r]) \in TaskStatus
      BY DEF StatusAfterRun, TaskStatus
    <3> QED
      BY <1>7, <2>5, <3>1 DEF CoroutineStep, Finish, FinishRun, ReleaseLock,
          bridgeVars, Phase, MessageStatus, RunStatus, SessionIds
  <2> QED
    BY <1>7, <2>1, <2>2, <2>3, <2>4, <2>5 DEF CoroutineStep, RunStep
<1>8. ASSUME NEW r \in RunIds, FailStep(r) PROVE TablesOK'
  BY <1>8 DEF FailStep, ExecuteFails, storeVars, taskVars, msgVars, runVars,
      bridgeVars, Phase, SessionIds, NoSession
<1>9. ASSUME NEW r \in RunIds, KillStep(r) PROVE TablesOK'
  BY <1>9 DEF KillStep, StopKill, storeVars, taskVars, msgVars, runVars,
      bridgeVars
<1>10. ASSUME NEW t \in Tasks, SignalStep(t) PROVE TablesOK'
  BY <1>10 DEF SignalStep, StopSignal, RunningPid, RunningRuns, storeVars, taskVars, msgVars, runVars,
      bridgeVars
<1>11. ASSUME NEW r \in RunIds, ExitStep(r) PROVE TablesOK'
  BY <1>11 DEF ExitStep, AgentExits, storeVars, taskVars, msgVars, runVars,
      bridgeVars
<1>12. ASSUME NEW b \in Bots, Crash(b) PROVE TablesOK'
  <2>1. phase' \in [RunIds -> Phase] /\ \A r \in RunIds :
            phase'[r] = "none" <=> phase[r] = "none"
    BY <1>12 DEF Crash, Phase, Active
  <2>2. doomed' \subseteq RunIds /\ stopQueue' \subseteq Tasks
    BY <1>12 DEF Crash
  <2>3. lockHolder' \in [Projects -> Tasks \cup {NoTask}]
    BY <1>12 DEF Crash, DropLocks
  <2> QED
    BY <1>12, <2>1, <2>2, <2>3 DEF Crash, taskVars, msgVars, runVars
<1>13. ASSUME NEW b \in Bots, Restart(b) PROVE TablesOK'
  BY <1>13 DEF Restart, storeVars, taskVars, msgVars, runVars, schedVars
<1>14. ASSUME NEW b \in Bots, Recover(b) PROVE TablesOK'
  BY <1>14 DEF Recover, RecoverInterrupted, StatusRecovered, schedVars,
      TaskStatus, MessageStatus, RunStatus
<1>15. ASSUME NEW t \in Tasks, ReceiveStopAgain(t) PROVE TablesOK'
  BY <1>15 DEF ReceiveStopAgain, storeVars, taskVars, msgVars, runVars,
      schedVars
<1>16. CASE UNCHANGED vars
  BY <1>16 DEF vars, storeVars, taskVars, msgVars, runVars, schedVars,
      bridgeVars
<1> QED
  BY <1>1, <1>2, <1>3, <1>4, <1>5, <1>6, <1>7, <1>8, <1>9, <1>10, <1>11,
     <1>12, <1>13, <1>14, <1>15, <1>16
  DEF Next, ReceiveStep, LoopStep, ProcessStep

-----------------------------------------------------------------------------
(* Which steps matter to the tables and which to the coroutines.           *)

\* The steps that write a task's or a message's row.
LEMMA TableSteps ==
  ASSUME [Next]_vars
  PROVE  \/ UNCHANGED <<taskStatus, msgTask, msgStatus, nextMsg>>
         \/ \E t \in Tasks : ReceiveNew(t)
         \/ \E t \in Tasks, op \in Operation : ReceiveContinue(t, op)
         \/ \E b \in Bots : CommitStop(b)
         \/ \E b \in Bots : ClaimStep(b)
         \/ \E r \in RunIds : Finish(r)
         \/ \E b \in Bots : Recover(b)
<1>1. ASSUME NEW r \in RunIds, CoroutineStep(r)
      PROVE  Finish(r) \/ UNCHANGED <<taskStatus, msgTask, msgStatus, nextMsg>>
  BY <1>1 DEF CoroutineStep, RunStep, Spawn, RecordPid, ReportSession, Collect,
      SetRunPid, SetTaskSession, storeVars, taskVars, msgVars
<1> QED
  BY <1>1 DEF Next, ReceiveStep, LoopStep, ProcessStep, vars, ReceiveStop,
      ReceiveStopAgain, SubmitStop, FailStep, ExecuteFails, KillStep, StopKill, SignalStep,
      StopSignal, ExitStep, AgentExits, Crash, Restart, storeVars, taskVars,
      msgVars

\* The steps that begin or end a coroutine, or change the life of a bot.
LEMMA RunSteps ==
  ASSUME TypeOK, [Next]_vars
  PROVE  \/ /\ UNCHANGED <<runTask, runMsg, bot, lockHolder>>
            /\ ActiveRuns' = ActiveRuns
            /\ \A r \in RunIds : phase'[r] = "none" <=> phase[r] = "none"
         \/ \E b \in Bots : ClaimStep(b)
         \/ \E r \in RunIds : Finish(r) /\ UNCHANGED bot
         \/ \E b \in Bots : Crash(b)
         \/ \E b \in Bots : Restart(b)
         \/ \E b \in Bots : Recover(b)
<1> USE DEF ActiveRuns, Active, TypeOK, SchedTypeOK
<1>1. ASSUME NEW r \in RunIds, CoroutineStep(r) \/ FailStep(r)
      PROVE  \/ Finish(r) /\ UNCHANGED bot
             \/ /\ UNCHANGED <<runTask, runMsg, bot, lockHolder>>
                /\ ActiveRuns' = ActiveRuns
                /\ \A q \in RunIds : phase'[q] = "none" <=> phase[q] = "none"
  BY <1>1 DEF CoroutineStep, RunStep, Spawn, RecordPid, ReportSession, Collect,
      FailStep, ExecuteFails, SetRunPid, SetTaskSession, storeVars, runVars,
      bridgeVars
<1>2. ASSUME ReceiveStep PROVE UNCHANGED <<runTask, runMsg, bot, lockHolder, phase>>
  BY <1>2 DEF ReceiveStep, ReceiveNew, CreateTask, ReceiveContinue,
      QueueMessage, ReceiveStop, ReceiveStopAgain, CommitStop, StopTask,
      SubmitStop, storeVars,
      runVars, schedVars, bridgeVars
<1>3. ASSUME \/ \E r \in RunIds : KillStep(r) \/ ExitStep(r)
             \/ \E t \in Tasks : SignalStep(t)
             \/ UNCHANGED vars
      PROVE  UNCHANGED <<runTask, runMsg, bot, lockHolder, phase>>
  BY <1>3 DEF KillStep, StopKill, SignalStep, StopSignal, ExitStep, AgentExits,
      vars, storeVars, runVars, schedVars, bridgeVars
<1> QED
  BY <1>1, <1>2, <1>3 DEF Next, LoopStep, ProcessStep

-----------------------------------------------------------------------------
(* The queue *)

\* Initially nothing waits.
LEMMA InitQueue == Init => QueueConsistent
  BY DEF Init, StoreInit, QueueConsistent, MessagesOf

\* An inserted message waits in its task and in no other.
LEMMA InsertedWaits ==
  ASSUME TablesOK, NEW t \in Tasks, NEW op \in Operation, InsertMessage(t, op)
  PROVE  /\ MessagesOf(t, "queued")' # {}
         /\ \A u \in Tasks \ {t} :
               MessagesOf(u, "queued")' = MessagesOf(u, "queued")
<1>1. /\ nextMsg \in MessageIds
      /\ msgTask \in [MessageIds -> Tasks \cup {NoTask}]
      /\ msgStatus \in [MessageIds -> MessageStatus]
      /\ msgTask[nextMsg] = NoTask
  BY StoreAssumption DEF InsertMessage, TablesOK, TypeOK, StoreTypeOK,
     MessageRows, MessageIds
<1>2. /\ msgTask' = [msgTask EXCEPT ![nextMsg] = t]
      /\ msgStatus' = [msgStatus EXCEPT ![nextMsg] = "queued"]
  BY DEF InsertMessage
<1> HIDE DEF TablesOK
<1>3. nextMsg \in MessagesOf(t, "queued")'
  BY <1>1, <1>2 DEF MessagesOf
<1>4. ASSUME NEW u \in Tasks \ {t}
      PROVE  MessagesOf(u, "queued")' = MessagesOf(u, "queued")
  BY <1>1, <1>2, StoreAssumption DEF MessagesOf
<1> QED
  BY <1>3, <1>4

\* Every step keeps tasks and waiting messages consistent.
LEMMA StepQueue ==
  TablesOK /\ QueueConsistent /\ [Next]_vars => QueueConsistent'
<1> SUFFICES ASSUME TablesOK, QueueConsistent, [Next]_vars
             PROVE  QueueConsistent'
  OBVIOUS
<1>1. CASE UNCHANGED <<taskStatus, msgTask, msgStatus, nextMsg>>
  BY <1>1 DEF QueueConsistent, MessagesOf
<1>2. ASSUME NEW t \in Tasks, ReceiveNew(t) PROVE QueueConsistent'
  <2>1. /\ MessagesOf(t, "queued")' # {}
        /\ \A u \in Tasks \ {t} :
              MessagesOf(u, "queued")' = MessagesOf(u, "queued")
    BY <1>2, InsertedWaits DEF ReceiveNew, CreateTask, Operation
  <2> QED
    BY <1>2, <2>1 DEF ReceiveNew, CreateTask, QueueConsistent, TablesOK,
        TypeOK, StoreTypeOK
<1>3. ASSUME NEW t \in Tasks, NEW op \in Operation, ReceiveContinue(t, op)
      PROVE  QueueConsistent'
  <2>1. /\ MessagesOf(t, "queued")' # {}
        /\ \A u \in Tasks \ {t} :
              MessagesOf(u, "queued")' = MessagesOf(u, "queued")
    BY <1>3, InsertedWaits DEF ReceiveContinue, QueueMessage
  <2> QED
    BY <1>3, <2>1 DEF ReceiveContinue, QueueMessage, QueueConsistent, TablesOK,
        TypeOK, StoreTypeOK
<1>4. ASSUME NEW b \in Bots, CommitStop(b) PROVE QueueConsistent'
  <2>1. taskStatus \in [Tasks -> TaskStatus]
    BY DEF TablesOK, TypeOK, StoreTypeOK
  <2>2. PICK t \in Tasks : t = rxTask[b]
    BY <1>4 DEF CommitStop, TablesOK, ReceiverOK
  <2>3. /\ taskStatus' = [taskStatus EXCEPT ![t] = "stopped"]
        /\ msgTask' = msgTask
        /\ \A m \in MessageIds :
              msgStatus'[m] = IF msgTask[m] = t /\ msgStatus[m] = "queued"
                              THEN "cancelled" ELSE msgStatus[m]
    BY <1>4, <2>2 DEF CommitStop, StopTask, Cancelled, MessagesOf
  <2> HIDE DEF TablesOK
  <2>4. taskStatus'[t] = "stopped" /\ MessagesOf(t, "queued")' = {}
    BY <2>1, <2>3 DEF MessagesOf
  <2>5. ASSUME NEW u \in Tasks, u # t
        PROVE  /\ taskStatus'[u] = taskStatus[u]
               /\ MessagesOf(u, "queued")' = MessagesOf(u, "queued")
    BY <2>1, <2>3, <2>5 DEF MessagesOf
  <2> QED
    BY <2>4, <2>5 DEF QueueConsistent
<1>5. ASSUME NEW b \in Bots, ClaimStep(b) PROVE QueueConsistent'
  BY <1>5 DEF ClaimStep, Claim, ClaimMessage, Claimable, QueueConsistent,
      MessagesOf, TablesOK, TypeOK, StoreTypeOK, MessageRows, MessageIds
<1>6. ASSUME NEW r \in RunIds, Finish(r) PROVE QueueConsistent'
  BY <1>6 DEF Finish, FinishRun, StatusAfterRun, QueueConsistent, MessagesOf,
      TablesOK, TypeOK, StoreTypeOK, RunRows, RunIds
<1>7. ASSUME NEW b \in Bots, Recover(b) PROVE QueueConsistent'
  BY <1>7 DEF Recover, RecoverInterrupted, Lost, StatusRecovered,
      QueueConsistent, MessagesOf, TablesOK, TypeOK, StoreTypeOK
<1> QED
  BY <1>1, <1>2, <1>3, <1>4, <1>5, <1>6, <1>7, TableSteps

-----------------------------------------------------------------------------
(* The coroutines *)

CoroutinesOK ==
    /\ OneRunEach
    /\ ActiveOK
    /\ RunningHasCoroutine

\* Initially there are none, and nothing is running.
LEMMA InitCoroutines == Init => CoroutinesOK
  BY DEF Init, StoreInit, SchedInit, CoroutinesOK, OneRunEach, ActiveOK,
      RunningHasCoroutine, Active

\* A message that a step queues, cancels or recovers is not one in progress.
LEMMA InProgressStays ==
  ASSUME TablesOK, ActiveOK, [Next]_vars, ~ \E q \in RunIds : Finish(q),
         NEW r \in ActiveRuns
  PROVE  msgStatus'[runMsg[r]] = "running"
<1> USE StoreAssumption
    DEF TablesOK, TypeOK, StoreTypeOK, SchedTypeOK, MessageRows, RunRows,
        ActiveOK, ActiveRuns, MessageIds, RunIds
<1>1. r \in RunIds /\ phase[r] # "none" /\ msgStatus[runMsg[r]] = "running"
  BY DEF Active
<1>2. CASE \E b \in Bots : Recover(b)
  BY <1>1, <1>2 DEF Recover, RecoverInterrupted, Lost
<1>3. CASE \E b \in Bots : CommitStop(b)
  BY <1>1, <1>3 DEF CommitStop, StopTask, Cancelled, MessagesOf
<1>4. CASE \E b \in Bots : ClaimStep(b)
  BY <1>1, <1>4 DEF ClaimStep, Claim, ClaimMessage
<1>5. CASE \/ \E t \in Tasks : ReceiveNew(t)
           \/ \E t \in Tasks, op \in Operation : ReceiveContinue(t, op)
  BY <1>1, <1>5 DEF ReceiveNew, CreateTask, ReceiveContinue, QueueMessage,
      InsertMessage
<1> QED
  BY <1>1, <1>2, <1>3, <1>4, <1>5, TableSteps

\* Every step keeps the coroutines in order.
LEMMA StepCoroutines ==
  TablesOK /\ CoroutinesOK /\ [Next]_vars => CoroutinesOK'
<1> SUFFICES ASSUME TablesOK, CoroutinesOK, [Next]_vars
             PROVE  CoroutinesOK'
  OBVIOUS
<1> USE StoreAssumption
    DEF TablesOK, TypeOK, StoreTypeOK, SchedTypeOK, MessageRows, RunRows,
        MessageIds, RunIds, CoroutinesOK
<1>1. OneRunEach'
  <2> USE DEF OneRunEach
  <2>1. ASSUME NEW b \in Bots, ClaimStep(b) PROVE OneRunEach'
    BY <2>1 DEF ClaimStep, Claim, ClaimMessage, Claimable
  <2>2. ASSUME NEW r \in RunIds, Finish(r) PROVE OneRunEach'
    BY <2>2 DEF Finish, FinishRun
  <2>3. ASSUME NEW b \in Bots, Crash(b) PROVE OneRunEach'
    BY <2>3 DEF Crash, Active, runVars
  <2>4. ASSUME NEW b \in Bots, Restart(b) \/ Recover(b) PROVE OneRunEach'
    BY <2>4 DEF Restart, Recover, RecoverInterrupted, schedVars, storeVars,
        runVars
  <2> QED
    BY <2>1, <2>2, <2>3, <2>4, RunSteps
<1>2. ActiveOK'
  <2> USE DEF ActiveOK, ActiveRuns
  <2>1. ASSUME NEW b \in Bots, ClaimStep(b) PROVE ActiveOK'
    BY <2>1 DEF ClaimStep, Claim, ClaimMessage, Claimable, Active, bridgeVars
  <2>2. ASSUME NEW r \in RunIds, Finish(r), UNCHANGED bot PROVE ActiveOK'
    BY <2>2 DEF Finish, FinishRun, OneRunEach, Active
  <2>3. ASSUME NEW b \in Bots, Crash(b) PROVE ActiveOK'
    BY <2>3 DEF Crash, Active, runVars, msgVars, OwnRuns
  <2>4. ASSUME NEW b \in Bots, Restart(b) \/ Recover(b) PROVE ActiveOK'
    BY <2>4 DEF Restart, Recover, RecoverInterrupted, Lost, schedVars,
        storeVars, runVars, msgVars, Active
  <2>5. CASE /\ UNCHANGED <<runTask, runMsg, bot, lockHolder>>
             /\ ActiveRuns' = ActiveRuns
    <3>1. ~ \E q \in RunIds : Finish(q)
      <4> SUFFICES ASSUME NEW q \in RunIds, Finish(q) PROVE FALSE
        OBVIOUS
      <4>1. phase[q] = "result" /\ phase'[q] = "ended"
        BY DEF Finish
      <4> QED
        BY <2>5, <4>1 DEF Active
    <3>2. \A r \in ActiveRuns : msgStatus'[runMsg[r]] = "running"
      BY <3>1, InProgressStays DEF ActiveRuns
    <3> QED
      BY <2>5, <3>2
  <2> QED
    BY <2>1, <2>2, <2>3, <2>4, <2>5, RunSteps
<1>3. RunningHasCoroutine'
  <2> SUFFICES ASSUME NEW t \in Tasks, taskStatus'[t] = "running",
                      bot'[BotOf[t]] = "up"
               PROVE  \E r \in ActiveRuns' : runTask'[r] = t
    BY DEF RunningHasCoroutine
  <2> DEFINE Carried == \E r \in ActiveRuns : runTask[r] = t
  <2>1. ASSUME NEW b \in Bots, ClaimStep(b) PROVE Carried'
    <3> PICK m \in MessageIds : ClaimMessage(b, m) /\ phase' = [phase EXCEPT ![nextRun] = "prepare"]
      BY <2>1 DEF ClaimStep, Claim
    <3>1. nextRun \in RunIds /\ phase[nextRun] = "none"
      BY DEF ClaimMessage
    <3>2. CASE msgTask[m] = t
      BY <3>1, <3>2 DEF ClaimMessage, ActiveRuns, Active
    <3>3. CASE msgTask[m] # t
      <4>1. taskStatus[t] = "running" /\ bot[BotOf[t]] = "up"
        BY <2>1, <3>3 DEF ClaimMessage, ClaimStep, bridgeVars
      <4>2. PICK r \in ActiveRuns : runTask[r] = t
        BY <4>1 DEF RunningHasCoroutine
      <4> QED
        BY <3>1, <4>2 DEF ClaimMessage, ActiveRuns, Active
    <3> QED
      BY <3>2, <3>3
  <2>2. ASSUME ~ \E b \in Bots : ClaimStep(b) PROVE taskStatus[t] = "running"
    <3>1. ASSUME NEW b \in Bots, CommitStop(b) PROVE taskStatus[t] = "running"
      BY <3>1 DEF CommitStop, StopTask
    <3>2. ASSUME NEW u \in Tasks, ReceiveNew(u) \/ \E op \in Operation : ReceiveContinue(u, op)
          PROVE taskStatus[t] = "running"
      BY <3>2 DEF ReceiveNew, CreateTask, ReceiveContinue, QueueMessage
    <3>3. ASSUME NEW r \in RunIds, Finish(r) PROVE taskStatus[t] = "running"
      BY <3>3 DEF Finish, FinishRun, StatusAfterRun
    <3>4. ASSUME NEW b \in Bots, Recover(b) PROVE taskStatus[t] = "running"
      BY <3>4 DEF Recover, RecoverInterrupted
    <3> QED
      BY <2>2, <3>1, <3>2, <3>3, <3>4, TableSteps
  <2>3. ASSUME NEW q \in RunIds, Finish(q), UNCHANGED bot PROVE Carried'
    BY <2>3 DEF Finish, FinishRun, StatusAfterRun, Active, ActiveRuns, RunningHasCoroutine
  <2>4. ASSUME NEW b \in Bots, Crash(b) PROVE Carried'
    BY <2>4 DEF Crash, Active, taskVars, runVars, OwnRuns, ActiveRuns, RunningHasCoroutine
  <2>5. ASSUME NEW b \in Bots, Restart(b) PROVE Carried'
    BY <2>5 DEF Restart, schedVars,
        storeVars, runVars, taskVars, ActiveRuns, RunningHasCoroutine
  <2>6. ASSUME NEW b \in Bots, Recover(b) PROVE Carried'
    <3>1. taskStatus[t] = "running" /\ BotOf[t] # b
      BY <2>6 DEF Recover, RecoverInterrupted, Lost
    <3>2. bot[BotOf[t]] = "up"
      BY <2>6, <3>1 DEF Recover
    <3> QED
      BY <2>6, <3>1, <3>2 DEF Recover, RecoverInterrupted, schedVars, ActiveRuns, RunningHasCoroutine
  <2>7. CASE /\ UNCHANGED <<runTask, runMsg, bot, lockHolder>>
             /\ ActiveRuns' = ActiveRuns
             /\ ~ \E b \in Bots : ClaimStep(b)
    BY <2>2, <2>7 DEF RunningHasCoroutine
  <2> QED
    BY <2>1, <2>3, <2>4, <2>5, <2>6, <2>7, RunSteps
<1> QED
  BY <1>1, <1>2, <1>3

-----------------------------------------------------------------------------
(* The lock of a shared project *)

\* Initially no lock is held and nothing runs.
LEMMA InitLocks == Init => SharedRunsHoldTheLock
  BY StoreAssumption
  DEF Init, StoreInit, SchedInit, SharedRunsHoldTheLock, ActiveRunsIn,
      ActiveRuns, Active

\* Every step keeps the lock with the one run of a shared project.
LEMMA StepLocks ==
  TablesOK /\ SharedRunsHoldTheLock /\ [Next]_vars => SharedRunsHoldTheLock'
<1> SUFFICES ASSUME TablesOK, SharedRunsHoldTheLock, [Next]_vars,
                    NEW p \in Shared
             PROVE  /\ \A r, q \in ActiveRunsIn(p)' : r = q
                    /\ \A r \in ActiveRunsIn(p)' : lockHolder'[p] = runTask'[r]
                    /\ lockHolder'[p] # NoTask => ActiveRunsIn(p)' # {}
  BY DEF SharedRunsHoldTheLock
<1> DEFINE Locked == /\ \A r, q \in ActiveRunsIn(p) : r = q
                     /\ \A r \in ActiveRunsIn(p) : lockHolder[p] = runTask[r]
                     /\ lockHolder[p] # NoTask => ActiveRunsIn(p) # {}
<1>1. /\ TypeOK
      /\ p \in Projects
      /\ lockHolder \in [Projects -> Tasks \cup {NoTask}]
      /\ phase \in [RunIds -> Phase]
      /\ runTask \in [RunIds -> Tasks \cup {NoTask}]
      /\ \A r \in ActiveRuns : r \in RunIds /\ runTask[r] \in Tasks
  BY StoreAssumption DEF TablesOK, TypeOK, StoreTypeOK, SchedTypeOK, RunRows, ActiveRuns,
     Active
<1>2. Locked
  BY DEF SharedRunsHoldTheLock
<1>3. ASSUME NEW b \in Bots, ClaimStep(b) PROVE Locked'
  <2> PICK m \in MessageIds :
        /\ ClaimMessage(b, m)
        /\ phase' = [phase EXCEPT ![nextRun] = "prepare"]
    BY <1>3 DEF ClaimStep, Claim
  <2> DEFINE t == msgTask[m]
  <2>1. /\ nextRun \in RunIds
        /\ phase[nextRun] = "none"
        /\ t \in Tasks
    BY DEF TablesOK, TypeOK, StoreTypeOK, RunRows, MessageRows, RunIds,
       MessageIds, ClaimMessage, Claimable
  <2>2. /\ runTask' = [runTask EXCEPT ![nextRun] = t]
        /\ ActiveRuns' = ActiveRuns \cup {nextRun}
        /\ nextRun \notin ActiveRuns
    BY <1>1, <2>1 DEF ClaimMessage, ActiveRuns, Active
  <2>3. CASE ProjectOf[t] = p
    <3>1. lockHolder[p] = NoTask /\ lockHolder' = [lockHolder EXCEPT ![p] = t]
      BY <2>3 DEF ClaimMessage, Claimable, LockFree
    <3>2. ActiveRunsIn(p) = {}
      BY <1>1, <1>2, <3>1, StoreAssumption DEF ActiveRunsIn
    <3>3. ActiveRunsIn(p)' = {nextRun}
      BY <1>1, <2>1, <2>2, <2>3, <3>2 DEF ActiveRunsIn
    <3> QED
      BY <1>1, <2>1, <2>2, <3>1, <3>3
  <2>4. CASE ProjectOf[t] # p
    <3>1. lockHolder'[p] = lockHolder[p]
      BY <1>1, <2>4 DEF ClaimMessage
    <3>2. ActiveRunsIn(p)' = ActiveRunsIn(p)
      BY <1>1, <2>1, <2>2, <2>4 DEF ActiveRunsIn
    <3> QED
      BY <1>1, <1>2, <2>2, <3>1, <3>2 DEF ActiveRunsIn
  <2> QED
    BY <2>3, <2>4
<1>4. ASSUME NEW q \in RunIds, Finish(q) PROVE Locked'
  <2> DEFINE t == runTask[q]
  <2>1. /\ q \in ActiveRuns
        /\ ActiveRuns' = ActiveRuns \ {q}
        /\ runTask' = runTask
        /\ lockHolder'[p] = IF lockHolder[p] = t THEN NoTask ELSE lockHolder[p]
    BY <1>1, <1>4 DEF Finish, FinishRun, ReleaseLock, ActiveRuns, Active
  <2>2. CASE ProjectOf[t] = p
    <3>1. ActiveRunsIn(p) = {q} /\ lockHolder[p] = t
      BY <1>2, <2>1, <2>2 DEF ActiveRunsIn
    <3>2. ActiveRunsIn(p)' = {}
      BY <2>1, <3>1 DEF ActiveRunsIn
    <3> QED
      BY <2>1, <3>1, <3>2
  <2>3. CASE ProjectOf[t] # p
    <3>1. ActiveRunsIn(p)' = ActiveRunsIn(p)
      BY <2>1, <2>3 DEF ActiveRunsIn
    <3>2. lockHolder[p] # t
      BY <1>1, <1>2, <2>1, <2>3, StoreAssumption DEF ActiveRunsIn
    <3> QED
      BY <1>2, <2>1, <3>1, <3>2
  <2> QED
    BY <2>2, <2>3
<1>5. ASSUME NEW b \in Bots, Crash(b) PROVE Locked'
  <2>1. /\ runTask' = runTask
        /\ ActiveRuns' = {r \in ActiveRuns : BotOf[runTask[r]] # b}
        /\ lockHolder'[p] = IF lockHolder[p] \in {t \in Tasks : BotOf[t] = b}
                            THEN NoTask ELSE lockHolder[p]
    <3>1. \A r \in RunIds : phase'[r] = IF r \in OwnRuns(b) /\ phase[r] \in Active
                                        THEN "lost" ELSE phase[r]
      BY <1>5 DEF Crash
    <3>2. \A r \in ActiveRuns : r \in OwnRuns(b) <=> BotOf[runTask[r]] = b
      BY <1>1, StoreAssumption DEF OwnRuns
    <3> QED
      BY <1>1, <1>5, <3>1, <3>2 DEF Crash, DropLocks, runVars, ActiveRuns, Active
  <2> QED
    BY <1>1, <1>2, <2>1, StoreAssumption DEF ActiveRunsIn
<1>6. ASSUME NEW b \in Bots, Restart(b) \/ Recover(b)
      PROVE  /\ UNCHANGED <<runTask, lockHolder>>
             /\ ActiveRuns' = ActiveRuns
  BY <1>6 DEF Restart, Recover, RecoverInterrupted, storeVars, runVars,
      schedVars, ActiveRuns
<1>7. CASE UNCHANGED <<runTask, lockHolder>> /\ ActiveRuns' = ActiveRuns
  BY <1>2, <1>7 DEF ActiveRunsIn
<1> QED
  BY <1>1, <1>3, <1>4, <1>5, <1>6, <1>7, RunSteps

-----------------------------------------------------------------------------
(* The inductive invariant and what follows from it *)

Inv ==
    /\ TablesOK
    /\ QueueConsistent
    /\ CoroutinesOK
    /\ SharedRunsHoldTheLock

\* The tables, the queue, the coroutines and the locks are in order in every
\* state that the bridges reach.
THEOREM Invariance == Spec => []Inv
<1>1. Init => Inv
  BY InitTables, InitQueue, InitCoroutines, InitLocks DEF Inv
<1>2. Inv /\ [Next]_vars => Inv'
  BY StepTables, StepQueue, StepCoroutines, StepLocks DEF Inv
<1> QED
  BY <1>1, <1>2, PTL DEF Spec

\* Every variable keeps its type.
THEOREM TypeCorrect == Spec => []TypeOK
<1>1. Inv => TypeOK
  BY DEF Inv, TablesOK
<1> QED
  BY <1>1, Invariance, PTL

\* claimed_run, stop_task, finish_run and recover_interrupted never leave a
\* queued task without a message, nor a waiting message in a settled task.
THEOREM QueueIsConsistent == Spec => []QueueConsistent
<1>1. Inv => QueueConsistent
  BY DEF Inv
<1> QED
  BY <1>1, Invariance, PTL

\* On a bot that is up every running task has a coroutine that will finish it.
THEOREM RunningIsCarried == Spec => []RunningHasCoroutine
<1>1. Inv => RunningHasCoroutine
  BY DEF Inv, CoroutinesOK
<1> QED
  BY <1>1, Invariance, PTL

\* The flock of a shared project is held exactly by its one run.
THEOREM LockIsHeld == Spec => []SharedRunsHoldTheLock
<1>1. Inv => SharedRunsHoldTheLock
  BY DEF Inv
<1> QED
  BY <1>1, Invariance, PTL

-----------------------------------------------------------------------------
(* What a step may never do *)

\* No step rewrites the end of a message.
THEOREM SettledIsFinal == Spec => SettledForGood
<1> DEFINE Kept == \A m \in MessageIds :
                      msgStatus[m] \in Settled => msgStatus'[m] = msgStatus[m]
<1>1. ASSUME Inv, [Next]_vars, NEW m \in MessageIds, msgStatus[m] \in Settled
      PROVE  msgStatus'[m] = msgStatus[m]
  <2> USE <1>1 DEF Settled
  <2>1. msgStatus \in [MessageIds -> MessageStatus] /\ msgStatus[m] # "absent"
    BY DEF Inv, TablesOK, TypeOK, StoreTypeOK
  <2>2. ASSUME NEW t \in Tasks, NEW op \in Operation, InsertMessage(t, op)
        PROVE  msgStatus'[m] = msgStatus[m]
    BY <2>1, <2>2 DEF InsertMessage, Inv, TablesOK, TypeOK, StoreTypeOK,
        MessageRows, MessageIds
  <2>3. ASSUME NEW b \in Bots, CommitStop(b)
        PROVE  msgStatus'[m] = msgStatus[m]
    BY <2>3 DEF CommitStop, StopTask, Cancelled, MessagesOf
  <2>4. ASSUME NEW b \in Bots, ClaimStep(b)
        PROVE  msgStatus'[m] = msgStatus[m]
    BY <2>1, <2>4 DEF ClaimStep, Claim, ClaimMessage, Claimable
  <2>5. ASSUME NEW r \in RunIds, Finish(r)
        PROVE  msgStatus'[m] = msgStatus[m]
    BY <2>1, <2>5 DEF Finish, FinishRun, Inv, CoroutinesOK, ActiveOK, Active
  <2>6. ASSUME NEW b \in Bots, Recover(b)
        PROVE  msgStatus'[m] = msgStatus[m]
    BY <2>6 DEF Recover, RecoverInterrupted, StatusRecovered
  <2> QED
    BY <2>2, <2>3, <2>4, <2>5, <2>6, TableSteps
    DEF ReceiveNew, CreateTask, ReceiveContinue, QueueMessage, Operation
<1>2. Inv /\ [Next]_vars => [Kept]_vars
  BY <1>1
<1> QED
  BY <1>2, Invariance, PTL DEF Spec, SettledForGood

\* A stopped task is left alone until its user writes to it.
THEOREM StoppedIsLeftAlone == Spec => StoppedUntilRevived
<1> DEFINE Revived(t) == nextMsg' = nextMsg + 1 /\ msgTask'[nextMsg] = t
           Kept == \A t \in Tasks :
                      taskStatus[t] = "stopped" /\ taskStatus'[t] # "stopped"
                          => /\ nextMsg' = nextMsg + 1
                             /\ msgTask'[nextMsg] = t
<1>1. ASSUME Inv, [Next]_vars, NEW t \in Tasks,
             taskStatus[t] = "stopped", taskStatus'[t] # "stopped"
      PROVE  Revived(t)
  <2> USE <1>1
  <2>1. /\ taskStatus \in [Tasks -> TaskStatus]
        /\ msgTask \in [MessageIds -> Tasks \cup {NoTask}]
    BY DEF Inv, TablesOK, TypeOK, StoreTypeOK
  <2>2. ASSUME NEW u \in Tasks, ReceiveNew(u)
        PROVE  Revived(t)
    BY <2>1, <2>2 DEF ReceiveNew, CreateTask
  <2>3. ASSUME NEW u \in Tasks, NEW op \in Operation, ReceiveContinue(u, op)
        PROVE  Revived(t)
    BY <2>1, <2>3 DEF ReceiveContinue, QueueMessage, InsertMessage, Inv, TablesOK, TypeOK, StoreTypeOK, MessageIds
  <2>4. ASSUME NEW b \in Bots, CommitStop(b)
        PROVE  Revived(t)
    BY <2>1, <2>4 DEF CommitStop, StopTask
  <2>5. ASSUME NEW b \in Bots, ClaimStep(b)
        PROVE  Revived(t)
    BY <2>1, <2>5 DEF ClaimStep, Claim, ClaimMessage, Claimable
  <2>6. ASSUME NEW r \in RunIds, Finish(r)
        PROVE  Revived(t)
    BY <2>1, <2>6 DEF Finish, FinishRun, StatusAfterRun
  <2>7. ASSUME NEW b \in Bots, Recover(b)
        PROVE  Revived(t)
    BY <2>7 DEF Recover, RecoverInterrupted, Lost
  <2> QED
    BY <2>2, <2>3, <2>4, <2>5, <2>6, <2>7, TableSteps
<1>2. Inv /\ [Next]_vars => [Kept]_vars
  BY <1>1
<1> QED
  BY <1>2, Invariance, PTL DEF Spec, StoppedUntilRevived

=============================================================================
