----------------------------- MODULE TurnsProofs -----------------------------
(***************************************************************************)
(* Proof that the bridges of module Bridge implement SerialTurns, by the   *)
(* inductive invariant of module BridgeProofs, and of what that invariant  *)
(* says of the queues themselves: the order they are served in, and that   *)
(* none is ever stuck.                                                     *)
(***************************************************************************)
EXTENDS BridgeProofs, FiniteSetTheorems

\* The types that the mapping of turns rests on.
LEMMA TurnTypes ==
  ASSUME Inv
  PROVE  /\ msgTask \in [MessageIds -> Tasks \cup {NoTask}]
         /\ msgStatus \in [MessageIds -> MessageStatus]
         /\ \A m \in MessageIds : msgStatus[m] = "absent" <=> msgTask[m] = NoTask
         /\ \A r \in ActiveRuns :
               /\ r \in RunIds /\ phase[r] # "none" /\ r < nextRun
               /\ runMsg[r] \in MessageIds
               /\ runTask[r] \in Tasks
               /\ msgTask[runMsg[r]] = runTask[r]
               /\ msgStatus[runMsg[r]] = "running"
               /\ \A q \in ActiveRuns : runMsg[q] = runMsg[r] => q = r
  BY DEF Inv, TablesOK, TypeOK, StoreTypeOK, SchedTypeOK, MessageRows, RunRows,
     CoroutinesOK, OneRunEach, ActiveOK, ActiveRuns, Active, RunIds

\* A waiting turn is a queued message, a running turn has a coroutine.
LEMMA TurnMeaning ==
  ASSUME Inv, NEW m \in MessageIds
  PROVE  /\ TurnOf(m) = "none" <=> msgStatus[m] = "absent"
         /\ TurnOf(m) = "waiting" <=> msgStatus[m] = "queued"
         /\ TurnOf(m) = "running" <=> \E r \in ActiveRuns : runMsg[r] = m
         /\ TurnOf(m) \in {"none", "waiting", "running", "settled"}
  BY TurnTypes DEF TurnOf

\* The lane of a message is that of its task, and nothing changes it.
LEMMA LaneMeaning ==
  ASSUME Inv, NEW m \in MessageIds, msgStatus[m] # "absent"
  PROVE  /\ LaneOf(m) = <<BotOf[msgTask[m]], ProjectOf[msgTask[m]]>>
         /\ LaneOf(m) \in Bots \X Projects
  BY TurnTypes, StoreAssumption DEF LaneOf

-----------------------------------------------------------------------------

\* Before the first message no turn has come.
LEMMA InitTurns == Init => Turns!Init
  BY DEF Init, StoreInit, Turns!Init, TurnOf, LaneOf

\* A message is accepted.
LEMMA InsertIsAccept ==
  ASSUME Inv, NEW t \in Tasks, NEW op \in Operation, InsertMessage(t, op),
         UNCHANGED <<runMsg, ActiveRuns>>
  PROVE  Turns!Next
<1> DEFINE m == nextMsg
           l == <<BotOf[t], ProjectOf[t]>>
<1>1. m \in MessageIds /\ msgStatus[m] = "absent"
  BY DEF Inv, TablesOK, TypeOK, StoreTypeOK, MessageRows, InsertMessage,
     MessageIds
<1>2. /\ msgTask' = [msgTask EXCEPT ![m] = t]
      /\ msgStatus' = [msgStatus EXCEPT ![m] = "queued"]
  BY DEF InsertMessage
<1> HIDE DEF m
<1>3. l \in Bots \X Projects
  BY StoreAssumption
<1>4. \A n \in MessageIds : TurnOf(n)' = IF n = m THEN "waiting" ELSE TurnOf(n)
  BY <1>1, <1>2, TurnTypes DEF TurnOf
<1>5. \A n \in MessageIds : LaneOf(n)' = IF n = m THEN l ELSE LaneOf(n)
  BY <1>1, <1>2, TurnTypes, StoreAssumption DEF LaneOf
<1>6. TurnOf(m) = "none"
  BY <1>1 DEF TurnOf
<1>7. \A n \in MessageIds : TurnOf(n) # "none" => n < m
  BY DEF m, Inv, TablesOK, TypeOK, StoreTypeOK, MessageRows, MessageIds, TurnOf
<1>8. Turns!Accept(m, l)
  BY <1>1, <1>4, <1>5, <1>6, <1>7 DEF Turns!Accept
<1> QED
  BY <1>1, <1>3, <1>8 DEF Turns!Next

\* Turns that stop waiting or running without starting are settled.
LEMMA SettledTurns ==
  ASSUME Inv, NEW S \in SUBSET MessageIds, msgTask' = msgTask,
         \A m \in S : TurnOf(m) \in {"waiting", "running"},
         \A m \in S : TurnOf(m)' = "settled",
         \A m \in MessageIds \ S : TurnOf(m)' = TurnOf(m)
  PROVE  Turns!Next
<1>1. \A m \in MessageIds : LaneOf(m)' = LaneOf(m)
  BY DEF LaneOf
<1>2. Turns!Settle(S)
  BY <1>1 DEF Turns!Settle
<1> QED
  BY <1>2 DEF Turns!Next

-----------------------------------------------------------------------------
(* Each kind of step *)

\* /stop settles the messages it cancels.
LEMMA StopIsSettle ==
  ASSUME Inv, NEW b \in Bots, CommitStop(b)
  PROVE  Turns!Next
<1> DEFINE S == Cancelled(rxTask[b])
<1>1. /\ msgTask' = msgTask /\ runMsg' = runMsg /\ ActiveRuns' = ActiveRuns
      /\ \A m \in MessageIds :
            msgStatus'[m] = IF m \in S THEN "cancelled" ELSE msgStatus[m]
  BY DEF CommitStop, StopTask, runVars, schedVars, ActiveRuns
<1>2. S \in SUBSET MessageIds /\ \A m \in S : msgStatus[m] = "queued"
  BY DEF Cancelled, MessagesOf
<1> HIDE DEF S
<1>3. \A m \in S : TurnOf(m) = "waiting"
  BY <1>2, TurnMeaning
<1>4. \A m \in S : TurnOf(m)' = "settled"
  BY <1>1, <1>2, TurnTypes DEF TurnOf
<1>5. \A m \in MessageIds \ S : TurnOf(m)' = TurnOf(m)
  BY <1>1 DEF TurnOf
<1> QED
  BY <1>1, <1>2, <1>3, <1>4, <1>5, SettledTurns

\* finish_run settles the message of its run.
LEMMA FinishIsSettle ==
  ASSUME Inv, NEW r \in RunIds, Finish(r)
  PROVE  Turns!Next
<1> DEFINE S == {runMsg[r]}
<1>1. /\ r \in ActiveRuns
      /\ ActiveRuns' = ActiveRuns \ {r}
      /\ msgTask' = msgTask /\ runMsg' = runMsg
      /\ msgStatus' = [msgStatus EXCEPT ![runMsg[r]] = "done"]
  BY DEF Finish, FinishRun, ActiveRuns, Active, Inv, TablesOK, TypeOK,
     SchedTypeOK
<1>2. S \in SUBSET MessageIds /\ \A m \in S : TurnOf(m) = "running"
  BY <1>1, TurnTypes, TurnMeaning
<1>3. \A m \in S : TurnOf(m)' = "settled"
  BY <1>1, TurnTypes DEF TurnOf
<1>4. \A m \in MessageIds \ S : TurnOf(m)' = TurnOf(m)
  BY <1>1, TurnTypes DEF TurnOf
<1> QED
  BY <1>1, <1>2, <1>3, <1>4, SettledTurns

\* The death of a bridge settles the turns that were running in it.
LEMMA CrashIsSettle ==
  ASSUME Inv, NEW b \in Bots, Crash(b)
  PROVE  Turns!Next
<1> DEFINE Dead == {r \in ActiveRuns : r \in OwnRuns(b)}
           S == {runMsg[r] : r \in Dead}
<1>1. /\ ActiveRuns' = ActiveRuns \ Dead
      /\ msgTask' = msgTask /\ msgStatus' = msgStatus /\ runMsg' = runMsg
  <2>1. \A r \in RunIds : phase'[r] = IF r \in OwnRuns(b) /\ phase[r] \in Active
                                      THEN "lost" ELSE phase[r]
    BY DEF Crash
  <2> QED
    BY <2>1 DEF Crash, msgVars, runVars, ActiveRuns, Active
<1> HIDE DEF Dead
<1>2. Dead \subseteq ActiveRuns
  BY DEF Dead
<1>3. S \in SUBSET MessageIds /\ \A m \in S : TurnOf(m) = "running"
  BY <1>2, TurnTypes, TurnMeaning
<1>4. \A m \in S : TurnOf(m)' = "settled"
  BY <1>1, <1>2, TurnTypes DEF TurnOf
<1>5. \A m \in MessageIds \ S : TurnOf(m)' = TurnOf(m)
  BY <1>1, <1>2, TurnTypes DEF TurnOf
<1> QED
  BY <1>1, <1>3, <1>4, <1>5, SettledTurns

\* The recovery settles the messages that waited in an interrupted task; those
\* in progress were settled when their bridge died.
LEMMA RecoverIsSettle ==
  ASSUME Inv, NEW b \in Bots, Recover(b)
  PROVE  Turns!Next
<1> DEFINE S == {m \in MessageIds : msgTask[m] \in Lost(b) /\ msgStatus[m] = "queued"}
<1>1. /\ ActiveRuns' = ActiveRuns
      /\ msgTask' = msgTask /\ runMsg' = runMsg
      /\ \A m \in MessageIds :
            msgStatus'[m] = IF msgTask[m] \in Lost(b)
                            THEN StatusRecovered(msgStatus[m])
                            ELSE msgStatus[m]
  BY DEF Recover, RecoverInterrupted, schedVars, ActiveRuns
<1>2. S \in SUBSET MessageIds /\ \A m \in S : TurnOf(m) = "waiting"
  BY TurnMeaning
<1>3. \A m \in S : TurnOf(m)' = "settled"
  BY <1>1, TurnTypes DEF TurnOf, StatusRecovered
<1>4. \A m \in MessageIds \ S : TurnOf(m)' = TurnOf(m)
  BY <1>1, TurnTypes DEF TurnOf, StatusRecovered, MessageStatus
<1> QED
  BY <1>1, <1>2, <1>3, <1>4, SettledTurns

\* A message that waits in the queue of a claimable one is claimable too, as
\* its task is not stopped.
LEMMA OlderIsClaimable ==
  ASSUME Inv, NEW b \in Bots, NEW m \in MessageIds, NEW n \in MessageIds,
         ClaimMessage(b, m), msgStatus[n] = "queued",
         SameQueue(msgTask[n], msgTask[m])
  PROVE  n \in Claimable(b)
<1>1. msgTask[n] \in Tasks
  BY TurnTypes
<1>2. taskStatus[msgTask[n]] # "stopped"
  BY <1>1 DEF Inv, QueueConsistent, MessagesOf
<1> QED
  BY <1>1, <1>2 DEF ClaimMessage, Claimable, SameQueue

\* A claim starts the turn that is first in its lane.
LEMMA ClaimIsStart ==
  ASSUME Inv, NEW b \in Bots, ClaimStep(b)
  PROVE  Turns!Next
<1> PICK m \in MessageIds :
      ClaimMessage(b, m) /\ phase' = [phase EXCEPT ![nextRun] = "prepare"]
  BY DEF ClaimStep, Claim
<1> DEFINE t == msgTask[m]
           p == ProjectOf[t]
<1>1. /\ msgStatus[m] = "queued" /\ t \in Tasks
      /\ LaneOf(m) = <<BotOf[t], p>> /\ p \in Projects
      /\ TurnOf(m) = "waiting"
  BY TurnTypes, TurnMeaning, LaneMeaning, StoreAssumption
  DEF ClaimMessage, Claimable
<1>2. /\ nextRun \in RunIds /\ nextRun \notin ActiveRuns
      /\ ActiveRuns' = ActiveRuns \cup {nextRun}
      /\ runMsg' = [runMsg EXCEPT ![nextRun] = m]
      /\ msgTask' = msgTask
      /\ msgStatus' = [msgStatus EXCEPT ![m] = "running"]
  <2>1. nextRun \in RunIds /\ phase[nextRun] = "none"
    BY DEF Inv, TablesOK, TypeOK, StoreTypeOK, RunRows, RunIds, ClaimMessage
  <2> QED
    BY <2>1 DEF ClaimMessage, ActiveRuns, Active, Inv, TablesOK, TypeOK,
       SchedTypeOK
<1>3. \A n \in MessageIds : TurnOf(n)' = IF n = m THEN "running" ELSE TurnOf(n)
  <2>1. runMsg \in [RunIds -> MessageIds \cup {0}]
    BY DEF Inv, TablesOK, TypeOK, StoreTypeOK
  <2>2. \A n \in MessageIds :
           (\E r \in ActiveRuns' : runMsg'[r] = n)
              <=> n = m \/ \E r \in ActiveRuns : runMsg[r] = n
    BY <1>2, <2>1, TurnTypes
  <2> QED
    BY <1>1, <1>2, <2>2, TurnTypes DEF TurnOf
<1>4. \A n \in MessageIds : LaneOf(n)' = LaneOf(n)
  BY <1>2 DEF LaneOf
<1>5. ASSUME NEW n \in MessageIds, n < m, LaneOf(n) = LaneOf(m)
      PROVE  TurnOf(n) # "waiting"
  <2> SUFFICES ASSUME msgStatus[n] = "queued" PROVE FALSE
    BY TurnMeaning
  <2>1. /\ msgTask[n] \in Tasks
        /\ BotOf[msgTask[n]] = BotOf[t] /\ ProjectOf[msgTask[n]] = p
    BY <1>1, <1>5, TurnTypes, LaneMeaning
  <2>2. n \in Claimable(b)
    BY <2>1, OlderIsClaimable DEF SameQueue
  <2>3. m <= n
    BY <2>2 DEF ClaimMessage, Oldest
  <2> QED
    BY <1>5, <2>3 DEF MessageIds
<1>6. p \in Shared => \A n \in MessageIds :
         TurnOf(n) = "running" => LaneOf(n)[2] # p
  <2> SUFFICES ASSUME p \in Shared, NEW n \in MessageIds,
                      TurnOf(n) = "running", LaneOf(n)[2] = p
               PROVE  FALSE
    OBVIOUS
  <2>1. PICK r \in ActiveRuns : runMsg[r] = n
    BY TurnMeaning
  <2>2. ProjectOf[runTask[r]] = p /\ runTask[r] \in Tasks
    BY <2>1, TurnTypes, LaneMeaning
  <2>3. lockHolder[p] = NoTask
    BY DEF ClaimMessage, Claimable, LockFree
  <2>4. lockHolder[p] = runTask[r]
    BY <2>1, <2>2 DEF Inv, SharedRunsHoldTheLock, ActiveRunsIn
  <2> QED
    BY <2>2, <2>3, <2>4, StoreAssumption
<1>7. Turns!Start(m)
  <2> HIDE DEF p, t
  <2>1. LaneOf(m) \in Bots \X Projects /\ LaneOf(m)[2] = p
    BY <1>1, LaneMeaning
  <2>2. \A n \in MessageIds : TurnOf(n) = "running" => LaneOf(n) \in Bots \X Projects
    BY TurnTypes, TurnMeaning, LaneMeaning
  <2> QED
    BY <1>1, <1>3, <1>4, <1>5, <1>6, <2>1, <2>2
    DEF Turns!Start, Turns!Running
<1> QED
  BY <1>7 DEF Turns!Next

-----------------------------------------------------------------------------

\* Every step of the bridges is a step of the turns or changes none.
LEMMA StepTurns ==
  ASSUME Inv, [Next]_vars
  PROVE  [Turns!Next]_Turns!vars
<1> TypeOK
  BY DEF Inv, TablesOK
<1>1. ASSUME NEW t \in Tasks, ReceiveNew(t) PROVE Turns!Next
  BY <1>1, InsertIsAccept DEF ReceiveNew, CreateTask, runVars, schedVars,
      ActiveRuns, Operation
<1>2. ASSUME NEW t \in Tasks, NEW op \in Operation, ReceiveContinue(t, op)
      PROVE  Turns!Next
  BY <1>2, InsertIsAccept DEF ReceiveContinue, QueueMessage, runVars,
      schedVars, ActiveRuns
<1>3. CASE /\ UNCHANGED <<taskStatus, msgTask, msgStatus, nextMsg>>
           /\ UNCHANGED <<runMsg, ActiveRuns>>
  BY <1>3 DEF Turns!vars, TurnOf, LaneOf
<1>4. ASSUME NEW b \in Bots, Restart(b)
      PROVE  UNCHANGED <<runMsg, ActiveRuns>>
  BY <1>4 DEF Restart, storeVars, runVars, schedVars, ActiveRuns
<1> QED
  BY <1>1, <1>2, <1>3, <1>4, StopIsSettle, ClaimIsStart, FinishIsSettle,
     RecoverIsSettle, CrashIsSettle, TableSteps, RunSteps

\* The bridges implement the serial turns.
THEOREM Refinement == Spec => ImplementsSerialTurns
<1>1. Inv /\ [Next]_vars => [Turns!Next]_Turns!vars
  BY StepTurns
<1> QED
  BY <1>1, InitTurns, Invariance, PTL
  DEF Spec, ImplementsSerialTurns, Turns!Spec

-----------------------------------------------------------------------------
(* The order in which a queue is served                                    *)

\* claimed_run takes a bot's messages for a project in the order they came: a
\* run in progress is of an older message than any that still waits in its
\* queue, also where a stop lets a second run begin beside the first and where
\* a revived task waits again.
ServedInOrder ==
    \A r \in ActiveRuns, m \in MessageIds :
        msgStatus[m] = "queued" /\ SameQueue(msgTask[m], runTask[r])
            => runMsg[r] < m

\* Only the insertions queue a message.
LEMMA QueuedBefore ==
  ASSUME Inv, [Next]_vars, NEW m \in MessageIds, msgStatus'[m] = "queued",
         ~ \E t \in Tasks, op \in Operation : InsertMessage(t, op)
  PROVE  msgStatus[m] = "queued" /\ msgTask' = msgTask
<1>1. msgStatus \in [MessageIds -> MessageStatus]
  BY DEF Inv, TablesOK, TypeOK, StoreTypeOK
<1>2. ASSUME NEW b \in Bots, CommitStop(b)
      PROVE  msgStatus[m] = "queued" /\ msgTask' = msgTask
  BY <1>2 DEF CommitStop, StopTask
<1>3. ASSUME NEW b \in Bots, ClaimStep(b)
      PROVE  msgStatus[m] = "queued" /\ msgTask' = msgTask
  BY <1>1, <1>3 DEF ClaimStep, Claim, ClaimMessage
<1>4. ASSUME NEW r \in RunIds, Finish(r)
      PROVE  msgStatus[m] = "queued" /\ msgTask' = msgTask
  BY <1>1, <1>4 DEF Finish, FinishRun
<1>5. ASSUME NEW b \in Bots, Recover(b)
      PROVE  msgStatus[m] = "queued" /\ msgTask' = msgTask
  BY <1>5 DEF Recover, RecoverInterrupted, StatusRecovered
<1> QED
  BY <1>2, <1>3, <1>4, <1>5, TableSteps
  DEF ReceiveNew, CreateTask, ReceiveContinue, QueueMessage, Operation

\* Only the claims begin a run.
LEMMA RunningBefore ==
  ASSUME Inv, [Next]_vars, ~ \E b \in Bots : ClaimStep(b)
  PROVE  ActiveRuns' \subseteq ActiveRuns /\ UNCHANGED <<runTask, runMsg>>
<1>1. TypeOK
  BY DEF Inv, TablesOK
<1>2. ASSUME NEW r \in RunIds, Finish(r)
      PROVE  ActiveRuns' \subseteq ActiveRuns /\ UNCHANGED <<runTask, runMsg>>
  BY <1>1, <1>2 DEF Finish, FinishRun, ActiveRuns, Active, TypeOK, SchedTypeOK
<1>3. ASSUME NEW b \in Bots, Crash(b)
      PROVE  ActiveRuns' \subseteq ActiveRuns /\ UNCHANGED <<runTask, runMsg>>
  BY <1>3 DEF Crash, runVars, ActiveRuns, Active
<1>4. ASSUME NEW b \in Bots, Restart(b) \/ Recover(b)
      PROVE  ActiveRuns' \subseteq ActiveRuns /\ UNCHANGED <<runTask, runMsg>>
  BY <1>4 DEF Restart, Recover, RecoverInterrupted, storeVars, runVars,
     schedVars, ActiveRuns
<1> QED
  BY <1>1, <1>2, <1>3, <1>4, RunSteps

\* Every step keeps the order.
LEMMA StepOrder ==
  ASSUME Inv, ServedInOrder, [Next]_vars
  PROVE  ServedInOrder'
<1> SUFFICES ASSUME NEW r \in ActiveRuns', NEW m \in MessageIds,
                    msgStatus'[m] = "queued",
                    SameQueue(msgTask'[m], runTask'[r])
             PROVE  runMsg'[r] < m
  BY DEF ServedInOrder, SameQueue
<1>1. CASE \E b \in Bots : ClaimStep(b)
  <2> PICK b \in Bots, n \in MessageIds :
        ClaimMessage(b, n) /\ phase' = [phase EXCEPT ![nextRun] = "prepare"]
    BY <1>1 DEF ClaimStep, Claim
  <2>1. /\ nextRun \in RunIds /\ ActiveRuns' = ActiveRuns \cup {nextRun}
        /\ nextRun \notin ActiveRuns
        /\ runMsg' = [runMsg EXCEPT ![nextRun] = n]
        /\ runTask' = [runTask EXCEPT ![nextRun] = msgTask[n]]
        /\ msgTask' = msgTask
        /\ msgStatus' = [msgStatus EXCEPT ![n] = "running"]
        /\ runMsg \in [RunIds -> MessageIds \cup {0}]
        /\ runTask \in [RunIds -> Tasks \cup {NoTask}]
    <3>1. nextRun \in RunIds /\ phase[nextRun] = "none"
      BY DEF Inv, TablesOK, TypeOK, StoreTypeOK, RunRows, RunIds, ClaimMessage
    <3> QED
      BY <3>1 DEF ClaimMessage, ActiveRuns, Active, Inv, TablesOK, TypeOK,
         StoreTypeOK, SchedTypeOK
  <2>2. msgStatus[m] = "queued" /\ m # n
    BY <2>1, TurnTypes
  <2>3. CASE r # nextRun
    BY <2>1, <2>2, <2>3 DEF ServedInOrder, ActiveRuns
  <2>4. CASE r = nextRun
    <3>1. SameQueue(msgTask[m], msgTask[n])
      BY <2>1, <2>4
    <3>2. m \in Claimable(b)
      BY <2>2, <3>1, OlderIsClaimable
    <3>3. n <= m
      BY <3>2 DEF ClaimMessage, Oldest
    <3> QED
      BY <2>1, <2>2, <2>4, <3>3 DEF MessageIds
  <2> QED
    BY <2>3, <2>4
<1>2. CASE \E t \in Tasks, op \in Operation : InsertMessage(t, op)
  <2>1. /\ nextMsg \in MessageIds
        /\ msgTask' = [msgTask EXCEPT ![nextMsg] = msgTask'[nextMsg]]
        /\ msgStatus' = [msgStatus EXCEPT ![nextMsg] = "queued"]
    BY <1>2, TurnTypes DEF InsertMessage, Inv, TablesOK, TypeOK, StoreTypeOK,
       MessageIds
  <2>2. ~ \E b \in Bots : ClaimStep(b)
    <3>1. nextMsg' # nextMsg
      BY <1>2, <2>1 DEF InsertMessage, MessageIds
    <3> QED
      BY <3>1 DEF ClaimStep, Claim, ClaimMessage
  <2>3. r \in ActiveRuns /\ UNCHANGED <<runTask, runMsg>>
    BY <2>2, RunningBefore
  <2>4. runMsg[r] < nextMsg /\ runMsg[r] \in MessageIds
    BY <2>3, TurnTypes
    DEF Inv, TablesOK, TypeOK, StoreTypeOK, MessageRows, MessageIds
  <2>5. CASE m = nextMsg
    BY <2>3, <2>4, <2>5
  <2>6. CASE m # nextMsg
    BY <2>1, <2>3, <2>6, TurnTypes DEF ServedInOrder
  <2> QED
    BY <2>5, <2>6
<1>3. CASE /\ ~ \E b \in Bots : ClaimStep(b)
           /\ ~ \E t \in Tasks, op \in Operation : InsertMessage(t, op)
  BY <1>3, QueuedBefore, RunningBefore DEF ServedInOrder
<1> QED
  BY <1>1, <1>2, <1>3

\* Every queue is served in the order in which its messages came.
THEOREM FirstComeFirstServed == Spec => []ServedInOrder
<1>1. Init => ServedInOrder
  BY DEF Init, StoreInit, ServedInOrder
<1>2. Inv /\ ServedInOrder /\ [Next]_vars => ServedInOrder'
  BY StepOrder
<1> QED
  BY <1>1, <1>2, Invariance, PTL DEF Spec

-----------------------------------------------------------------------------
(* No queue is stuck                                                       *)

\* Whatever stops, late finishes, deaths and recoveries left behind, on a bot
\* that is up a waiting message can be claimed now, or a run is in progress in
\* its project that will come to finish_run.  The bound on runs is never what
\* keeps it waiting.
NeverStuck ==
    \A m \in MessageIds :
        msgStatus[m] = "queued" /\ bot[BotOf[msgTask[m]]] = "up" =>
            /\ nextRun \in RunIds
            /\ \/ m \in Claimable(BotOf[msgTask[m]])
               \/ ActiveRunsIn(ProjectOf[msgTask[m]]) # {}

\* Each run has taken a message of its own out of the queue, so one that waits
\* has a run left to take it.
LEMMA RunsAreLeft ==
  ASSUME Inv, NEW m \in MessageIds, msgStatus[m] = "queued"
  PROVE  nextRun \in RunIds
<1> DEFINE n == nextRun - 1
           f == [r \in 1 .. n |-> runMsg[r]]
           Others == MessageIds \ {m}
<1>1. nextRun \in 1 .. MaxMessages + 1 /\ MaxMessages \in Nat
  BY StoreAssumption DEF Inv, TablesOK, TypeOK, StoreTypeOK
<1>2. \A r \in 1 .. n : r \in RunIds /\ phase[r] # "none"
  BY <1>1 DEF Inv, TablesOK, RunRows, RunIds
<1>3. \A r \in 1 .. n : runMsg[r] \in Others
  BY <1>2 DEF Inv, TablesOK, RunRows
<1>4. \A r, q \in 1 .. n : runMsg[r] = runMsg[q] => r = q
  BY <1>2 DEF Inv, CoroutinesOK, OneRunEach
<1>5. f \in Injection(1 .. n, Others)
  BY <1>3, <1>4, Z3 DEF Injection, IsInjective
<1>6. /\ IsFiniteSet(MessageIds)
      /\ Cardinality(MessageIds) = MaxMessages
  BY <1>1, FS_Interval DEF MessageIds
<1>7. /\ IsFiniteSet(Others)
      /\ Cardinality(Others) = MaxMessages - 1
  BY <1>6, FS_RemoveElement
<1>8. IsFiniteSet(1 .. n) /\ Cardinality(1 .. n) = n
  BY <1>1, FS_Interval
<1>9. Cardinality(1 .. n) <= Cardinality(Others)
  BY <1>5, <1>7, FS_Injection
<1> QED
  BY <1>1, <1>7, <1>8, <1>9 DEF RunIds

\* Nothing keeps a queue waiting but a run that is in progress.
THEOREM NoMessageIsStuck == Spec => []NeverStuck
<1>1. ASSUME Inv, NEW m \in MessageIds, msgStatus[m] = "queued",
             bot[BotOf[msgTask[m]]] = "up",
             ActiveRunsIn(ProjectOf[msgTask[m]]) = {}
      PROVE  m \in Claimable(BotOf[msgTask[m]])
  <2> USE <1>1
  <2> DEFINE t == msgTask[m]
  <2>1. t \in Tasks /\ BotOf[t] \in Bots /\ ProjectOf[t] \in Projects
    BY TurnTypes, StoreAssumption
  <2>2. taskStatus[t] # "stopped"
    BY <2>1 DEF Inv, QueueConsistent, MessagesOf
  <2>3. ASSUME NEW u \in Tasks, SameQueue(u, t), taskStatus[u] = "running"
        PROVE  FALSE
    <3>1. PICK r \in ActiveRuns : runTask[r] = u
      BY <2>3 DEF Inv, CoroutinesOK, RunningHasCoroutine, SameQueue
    <3> QED
      BY <2>3, <3>1 DEF SameQueue, ActiveRunsIn
  <2>4. LockFree(ProjectOf[t])
    BY DEF LockFree, Inv, SharedRunsHoldTheLock
  <2> QED
    BY <2>1, <2>2, <2>3, <2>4 DEF Claimable
<1>2. Inv => NeverStuck
  BY <1>1, RunsAreLeft DEF NeverStuck
<1> QED
  BY <1>2, Invariance, PTL

=============================================================================
