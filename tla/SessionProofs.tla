---------------------------- MODULE SessionProofs ----------------------------
(***************************************************************************)
(* Proofs about the sessions: a compaction always has one, and a task of a *)
(* shared project keeps the one it has.                                    *)
(***************************************************************************)
EXTENDS BridgeProofs

sessionVars == <<session, known, nextRun, msgTask, msgOp, runMsg, runTask, phase>>

\* The steps that open, read or forget a session.
LEMMA SessionSteps ==
  ASSUME [Next]_vars
  PROVE  \/ UNCHANGED sessionVars
         \/ \E t \in Tasks, op \in Operation :
               /\ InsertMessage(t, op)
               /\ op = "compact" => session[t] # NoSession
               /\ UNCHANGED <<session, runVars, schedVars>>
         \/ \E b \in Bots : ClaimStep(b)
         \/ \E r \in RunIds : CoroutineStep(r) \/ FailStep(r)
         \/ \E b \in Bots : Crash(b)
<1>1. ASSUME NEW t \in Tasks, ReceiveNew(t)
      PROVE  InsertMessage(t, "message") /\ UNCHANGED <<session, runVars, schedVars>>
  BY <1>1 DEF ReceiveNew, CreateTask
<1>2. ASSUME NEW t \in Tasks, NEW op \in Operation, ReceiveContinue(t, op)
      PROVE  /\ InsertMessage(t, op)
             /\ op = "compact" => session[t] # NoSession
             /\ UNCHANGED <<session, runVars, schedVars>>
  BY <1>2 DEF ReceiveContinue, QueueMessage, CanQueue
<1>3. ASSUME \/ \E b \in Bots : CommitStop(b) \/ SubmitStop(b)
             \/ \E t \in Tasks :
                   ReceiveStop(t) \/ ReceiveStopAgain(t) \/ SignalStep(t)
             \/ \E r \in RunIds : KillStep(r) \/ ExitStep(r)
             \/ \E b \in Bots : Restart(b) \/ Recover(b)
             \/ UNCHANGED vars
      PROVE  UNCHANGED sessionVars
  BY <1>3 DEF sessionVars, CommitStop, StopTask, SubmitStop, ReceiveStop,
      ReceiveStopAgain, SignalStep,
      StopSignal, KillStep, StopKill, ExitStep, AgentExits, Restart, Recover,
      RecoverInterrupted, vars, storeVars, taskVars, msgVars, runVars, schedVars
<1> QED
  BY <1>1, <1>2, <1>3 DEF Next, ReceiveStep, LoopStep, ProcessStep, Operation

-----------------------------------------------------------------------------
(* Compactions *)

\* A session is older than the next run; a task with a compaction queued has
\* one; and a compaction in progress resumes one that is not its own.
SessionsOK ==
    /\ \A t \in Tasks : session[t] < nextRun
    /\ \A r \in RunIds : known[r] < nextRun
    /\ \A m \in MessageIds :
          msgTask[m] \in Tasks /\ msgOp[m] = "compact" => session[msgTask[m]] # NoSession
    /\ \A r \in ActiveRuns :
          msgOp[runMsg[r]] = "compact" => known[r] # NoSession /\ known[r] # r

\* The types the proofs about sessions use.
LEMMA SessionTypes ==
  ASSUME TablesOK
  PROVE  /\ session \in [Tasks -> SessionIds]
         /\ known \in [RunIds -> SessionIds]
         /\ phase \in [RunIds -> Phase]
         /\ msgTask \in [MessageIds -> Tasks \cup {NoTask}]
         /\ msgOp \in [MessageIds -> Operation]
         /\ runMsg \in [RunIds -> MessageIds \cup {0}]
         /\ runTask \in [RunIds -> Tasks \cup {NoTask}]
         /\ nextRun \in Nat /\ nextRun >= 1
         /\ SessionIds \subseteq Nat /\ RunIds \subseteq Nat
         /\ \A r \in ActiveRuns :
               /\ r \in RunIds /\ r < nextRun
               /\ runTask[r] \in Tasks
               /\ runMsg[r] \in MessageIds
               /\ msgTask[runMsg[r]] = runTask[r]
  BY StoreAssumption
  DEF TablesOK, TypeOK, StoreTypeOK, SchedTypeOK, RunRows, ActiveRuns, Active,
      SessionIds, NoSession, RunIds

\* Initially there are no sessions.
LEMMA InitSessions == Init => SessionsOK
  BY DEF Init, StoreInit, SchedInit, SessionsOK, ActiveRuns, Active, NoSession

\* Every step keeps the sessions in order.
LEMMA StepSessions == TablesOK /\ SessionsOK /\ [Next]_vars => SessionsOK'
<1> SUFFICES ASSUME TablesOK, SessionsOK, [Next]_vars PROVE SessionsOK'
  OBVIOUS
<1>1. CASE UNCHANGED sessionVars
  BY <1>1 DEF sessionVars, SessionsOK, ActiveRuns
<1>2. ASSUME NEW t \in Tasks, NEW op \in Operation, InsertMessage(t, op),
             op = "compact" => session[t] # NoSession,
             UNCHANGED <<session, runVars, schedVars>>
      PROVE  SessionsOK'
  <2>1. /\ nextMsg \in MessageIds /\ msgTask[nextMsg] = NoTask
        /\ ActiveRuns' = ActiveRuns
        /\ msgTask' = [msgTask EXCEPT ![nextMsg] = t]
        /\ msgOp' = [msgOp EXCEPT ![nextMsg] = op]
        /\ UNCHANGED <<session, known, nextRun, runMsg>>
    BY <1>2 DEF InsertMessage, TablesOK, TypeOK, StoreTypeOK, MessageRows,
       MessageIds, ActiveRuns, runVars, schedVars
  <2>2. \A r \in ActiveRuns : runMsg[r] # nextMsg
    BY <2>1, SessionTypes, StoreAssumption
  <2> QED
    BY <1>2, <2>1, <2>2, SessionTypes DEF SessionsOK
<1>3. ASSUME NEW b \in Bots, ClaimStep(b) PROVE SessionsOK'
  <2> PICK m \in MessageIds :
        /\ ClaimMessage(b, m)
        /\ phase' = [phase EXCEPT ![nextRun] = "prepare"]
        /\ known' = [known EXCEPT ![nextRun] = session[msgTask[m]]]
    BY <1>3 DEF ClaimStep, Claim
  <2>1. /\ nextRun \in RunIds /\ nextRun \notin ActiveRuns
        /\ msgTask[m] \in Tasks
        /\ ActiveRuns' = ActiveRuns \cup {nextRun}
        /\ runMsg' = [runMsg EXCEPT ![nextRun] = m]
        /\ nextRun' = nextRun + 1
        /\ UNCHANGED <<session, msgTask, msgOp>>
    <3>1. nextRun \in RunIds /\ phase[nextRun] = "none" /\ msgTask[m] \in Tasks
      BY DEF TablesOK, TypeOK, StoreTypeOK, RunRows, RunIds, ClaimMessage,
         Claimable, MessageRows
    <3> QED
      BY <3>1, SessionTypes DEF ClaimMessage, ActiveRuns, Active
  <2> QED
    BY <2>1, SessionTypes DEF SessionsOK
<1>4. ASSUME NEW r \in RunIds, CoroutineStep(r) PROVE SessionsOK'
  <2> USE <1>4
  <2>1. CASE Spawn(r) \/ RecordPid(r) \/ Collect(r)
    <3>1. /\ UNCHANGED <<session, known, nextRun, msgTask, msgOp, runMsg>>
          /\ ActiveRuns' = ActiveRuns
      BY <2>1, SessionTypes DEF Spawn, RecordPid, Collect, SetRunPid,
          storeVars, taskVars, msgVars, runVars, ActiveRuns, Active
    <3> QED
      BY <3>1 DEF SessionsOK
  <2>2. CASE ReportSession(r)
    <3>1. /\ r \in ActiveRuns /\ ActiveRuns' = ActiveRuns
          /\ known[r] = NoSession
          /\ known' = [known EXCEPT ![r] = r]
          /\ session' = [session EXCEPT ![runTask[r]] = r]
          /\ UNCHANGED <<nextRun, msgTask, msgOp, runMsg>>
      BY <2>2 DEF ReportSession, OpensSession, SetTaskSession, msgVars,
          runVars, ActiveRuns, Active
    <3>2. r < nextRun /\ r # NoSession
      BY <3>1, SessionTypes DEF RunIds, NoSession
    <3> QED
      BY <3>1, <3>2, SessionTypes DEF SessionsOK
  <2>3. CASE Finish(r)
    BY <2>3, SessionTypes DEF Finish, FinishRun, SessionsOK, ActiveRuns,
        Active, NoSession
  <2> QED
    BY <2>1, <2>2, <2>3 DEF CoroutineStep, RunStep
<1>5. ASSUME NEW r \in RunIds, FailStep(r) PROVE SessionsOK'
  BY <1>5, SessionTypes DEF FailStep, ExecuteFails, storeVars, taskVars,
      msgVars, runVars, SessionsOK, ActiveRuns, Active, NoSession
<1>6. ASSUME NEW b \in Bots, Crash(b) PROVE SessionsOK'
  BY <1>6 DEF Crash, taskVars, msgVars, runVars, SessionsOK, ActiveRuns, Active
<1> QED
  BY <1>1, <1>2, <1>3, <1>4, <1>5, <1>6, SessionSteps

\* A compaction in progress always has a session to compact.
THEOREM CompactionResumes == Spec => []CompactResumes
<1>1. Inv => TablesOK
  BY DEF Inv
<1>2. SessionsOK => CompactResumes
  BY DEF SessionsOK, CompactResumes
<1> QED
  BY <1>1, <1>2, InitSessions, StepSessions, Invariance, PTL DEF Spec

-----------------------------------------------------------------------------
(* Sessions of shared projects *)

\* Where all runs are serial the session a run knows is that of its task.
SessionsAgree ==
    \A r \in ActiveRuns :
        ProjectOf[runTask[r]] \in Shared =>
            \/ known[r] = session[runTask[r]]
            \/ known[r] = NoSession /\ phase[r] = "result"

\* Initially nothing runs.
LEMMA InitAgree == Init => SessionsAgree
  BY DEF Init, SchedInit, SessionsAgree, ActiveRuns, Active

\* Two runs of a shared task are one.
LEMMA OneSharedRun ==
  ASSUME TablesOK, SharedRunsHoldTheLock, NEW r \in ActiveRuns, NEW q \in ActiveRuns,
         runTask[r] = runTask[q], ProjectOf[runTask[r]] \in Shared
  PROVE  r = q
  BY DEF SharedRunsHoldTheLock, ActiveRunsIn

\* Every step keeps runs and tasks of shared projects agreed on the session,
\* and no step replaces such a task's session.
LEMMA StepAgree ==
  ASSUME TablesOK, SharedRunsHoldTheLock, SessionsAgree, [Next]_vars
  PROVE  /\ SessionsAgree'
         /\ \A t \in Tasks :
               ProjectOf[t] \in Shared /\ session[t] # NoSession
                  => session'[t] = session[t]
<1> DEFINE Kept == \A t \in Tasks :
                      ProjectOf[t] \in Shared /\ session[t] # NoSession
                         => session'[t] = session[t]
<1>1. CASE UNCHANGED sessionVars
  BY <1>1 DEF sessionVars, SessionsAgree, ActiveRuns
<1>2. CASE UNCHANGED <<session, runVars, schedVars>>
  BY <1>2 DEF SessionsAgree, ActiveRuns, runVars, schedVars
<1>3. ASSUME NEW b \in Bots, ClaimStep(b) PROVE SessionsAgree' /\ Kept
  <2> PICK m \in MessageIds :
        /\ ClaimMessage(b, m)
        /\ phase' = [phase EXCEPT ![nextRun] = "prepare"]
        /\ known' = [known EXCEPT ![nextRun] = session[msgTask[m]]]
    BY <1>3 DEF ClaimStep, Claim
  <2>1. nextRun \in RunIds /\ phase[nextRun] = "none"
    BY DEF TablesOK, TypeOK, StoreTypeOK, RunRows, RunIds, ClaimMessage
  <2>2. /\ ActiveRuns' = ActiveRuns \cup {nextRun}
        /\ runTask' = [runTask EXCEPT ![nextRun] = msgTask[m]]
        /\ nextRun \notin ActiveRuns
        /\ session' = session
    BY <2>1, SessionTypes DEF ClaimMessage, ActiveRuns, Active
  <2> QED
    BY <2>1, <2>2, SessionTypes DEF SessionsAgree
<1>4. ASSUME NEW r \in RunIds, CoroutineStep(r) PROVE SessionsAgree' /\ Kept
  <2> USE <1>4
  <2>1. CASE Spawn(r) \/ RecordPid(r) \/ Collect(r)
    BY <2>1, SessionTypes DEF Spawn, RecordPid, Collect, SetRunPid, storeVars, taskVars,
        SessionsAgree, ActiveRuns, Active, runVars
  <2>2. CASE ReportSession(r)
    <3>1. /\ r \in ActiveRuns /\ ActiveRuns' = ActiveRuns /\ runTask' = runTask
          /\ phase' = phase /\ phase[r] = "watching" /\ known[r] = NoSession
          /\ known' = [known EXCEPT ![r] = r]
          /\ session' = [session EXCEPT ![runTask[r]] = r]
      BY <2>2 DEF ReportSession, OpensSession, SetTaskSession, runVars,
          ActiveRuns, Active
    <3>2. ProjectOf[runTask[r]] \in Shared => session[runTask[r]] = NoSession
      BY <3>1 DEF SessionsAgree
    <3> QED
      BY <3>1, <3>2, SessionTypes, OneSharedRun DEF SessionsAgree
  <2>3. CASE Finish(r)
    <3>1. /\ r \in ActiveRuns /\ ActiveRuns' = ActiveRuns \ {r} /\ runTask' = runTask
          /\ known' = known
          /\ \A q \in ActiveRuns' : phase'[q] = phase[q]
          /\ session' = [session EXCEPT
                ![runTask[r]] = IF known[r] = NoSession THEN @ ELSE known[r]]
      BY <2>3, SessionTypes DEF Finish, FinishRun, ActiveRuns, Active
    <3> QED
      BY <3>1, SessionTypes, OneSharedRun DEF SessionsAgree
  <2> QED
    BY <2>1, <2>2, <2>3 DEF CoroutineStep, RunStep
<1>5. ASSUME NEW r \in RunIds, FailStep(r) PROVE SessionsAgree' /\ Kept
  <2>1. /\ ActiveRuns' = ActiveRuns /\ runTask' = runTask /\ session' = session
        /\ r \in ActiveRuns
        /\ phase' = [phase EXCEPT ![r] = "result"]
        /\ known' = [known EXCEPT ![r] = IF @ = r THEN NoSession ELSE @]
    BY <1>5, SessionTypes DEF FailStep, ExecuteFails, storeVars, taskVars,
       runVars, ActiveRuns, Active
  <2> QED
    BY <2>1, SessionTypes DEF SessionsAgree
<1>6. ASSUME NEW b \in Bots, Crash(b) PROVE SessionsAgree' /\ Kept
  BY <1>6 DEF Crash, taskVars, runVars, SessionsAgree, ActiveRuns, Active
<1> QED
  BY <1>1, <1>2, <1>3, <1>4, <1>5, <1>6, SessionSteps

\* Where every project is shared, so that every project's runs are serial, no
\* task's session is ever replaced.
THEOREM SharedSessionKept ==
  ASSUME \A t \in Tasks : ProjectOf[t] \in Shared
  PROVE  Spec => SessionKept
<1> DEFINE Kept == \A t \in Tasks : session[t] # NoSession => session'[t] = session[t]
<1>1. Inv => TablesOK /\ SharedRunsHoldTheLock
  BY DEF Inv
<1>2. Inv /\ SessionsAgree /\ [Next]_vars => SessionsAgree' /\ [Kept]_vars
  BY <1>1, StepAgree
<1> QED
  BY <1>2, InitAgree, Invariance, PTL DEF Spec, SessionKept

=============================================================================
