---------------------------- MODULE SyncProofs ----------------------------
(***************************************************************************)
(* Proofs about SessionSync, for any number of messages, requests,         *)
(* commands, records and deaths.                                           *)
(***************************************************************************)
EXTENDS SessionSync, TLAPS

USE SyncAssumption, StoreAssumption

-----------------------------------------------------------------------------
(* Types of the tables. *)

LEMMA QueueTyped ==
  ASSUME StoreTypeOK, NEW t \in Tasks, QueueMessage(t, "message")
  PROVE  StoreTypeOK'
BY DEF StoreTypeOK, QueueMessage, InsertMessage, TaskStatus, MessageStatus,
   Operation, MessageIds, RunIds, SessionIds, runVars

LEMMA StopTyped ==
  ASSUME StoreTypeOK, NEW t \in Tasks, StopTask(t)
  PROVE  StoreTypeOK'
BY DEF StoreTypeOK, StopTask, TaskStatus, MessageStatus, runVars

LEMMA ClaimTyped ==
  ASSUME StoreTypeOK, NEW b \in Bots, NEW m \in MessageIds, ClaimMessage(b, m)
  PROVE  StoreTypeOK' /\ nextRun \in RunIds
<1>1. nextRun \in RunIds /\ nextRun' \in 1 .. MaxMessages + 1
  BY DEF StoreTypeOK, ClaimMessage, RunIds
<1>2. msgTask[m] \in Tasks \cup {NoTask}
  BY DEF StoreTypeOK
<1>3. lockHolder' \in [Projects -> Tasks \cup {NoTask}]
  BY <1>2 DEF StoreTypeOK, ClaimMessage
<1> QED
  BY <1>1, <1>2, <1>3
  DEF StoreTypeOK, ClaimMessage, TaskStatus, MessageStatus, RunStatus

LEMMA FinishTyped ==
  ASSUME StoreTypeOK, NEW r \in RunIds, FinishRun(r, NoSession)
  PROVE  StoreTypeOK' /\ session' = session
<1>1. \A t : StatusAfterRun(t) \in TaskStatus
  BY DEF StatusAfterRun, TaskStatus
<1>2. session' = session
  BY DEF StoreTypeOK, FinishRun
<1>3. lockHolder' \in [Projects -> Tasks \cup {NoTask}]
  BY DEF StoreTypeOK, FinishRun, ReleaseLock
<1> QED
  BY <1>1, <1>2, <1>3 DEF StoreTypeOK, FinishRun, MessageStatus, RunStatus

LEMMA RecoverTyped ==
  ASSUME StoreTypeOK, NEW b \in Bots, RecoverInterrupted(b)
  PROVE  StoreTypeOK'
<1>1. \A status \in MessageStatus : StatusRecovered(status) \in MessageStatus
  BY DEF StatusRecovered, MessageStatus
<1>2. msgStatus' \in [MessageIds -> MessageStatus]
  BY <1>1 DEF StoreTypeOK, RecoverInterrupted
<1>3. taskStatus' \in [Tasks -> TaskStatus] /\ runStatus' \in [RunIds -> RunStatus]
  BY DEF StoreTypeOK, RecoverInterrupted, TaskStatus, RunStatus
<1> QED
  BY <1>2, <1>3 DEF StoreTypeOK, RecoverInterrupted

LEMMA SameTyped == StoreTypeOK /\ UNCHANGED storeVars => StoreTypeOK'
BY DEF StoreTypeOK, storeVars, taskVars, msgVars, runVars

-----------------------------------------------------------------------------
(* Types of the rest, in three parts. *)

Phases == {"none", "claimed", "live", "returned", "captured", "over"}
RequestStates ==
    [state : {"none", "spooled", "captured", "answered"},
     run : RunIds \cup {0}, outcome : Outcomes]
Rollouts ==
    [ino : Nat, size : 0 .. MaxRecords, source : {"exec", "cli"}, active : BOOLEAN]

BridgeTyped ==
    /\ life \in {"up", "down", "starting"}
    /\ deaths \in 0 .. MaxDeaths
    /\ phase \in [RunIds -> Phases]
    /\ script \in RunIds \cup {0}
CodexTyped ==
    /\ rollout \in Rollouts
    /\ index \in {"exec", "cli"}
    /\ archived \in BOOLEAN
    /\ backup \in BOOLEAN
    /\ wrote \in 0 .. MaxRecords /\ late \in 0 .. MaxRecords
SyncTyped ==
    /\ request \in [Requests -> RequestStates]
    /\ batch \subseteq Requests
    /\ sync \in [Syncers -> SyncStates]
    /\ commands \in 0 .. MaxCommands
    /\ transcript \in [Tasks -> 0 .. MaxRecords]

LEMMA TypeParts ==
  /\ TypeOK <=> StoreTypeOK /\ BridgeTyped /\ CodexTyped /\ SyncTyped
  /\ TypeOK' <=> (StoreTypeOK /\ BridgeTyped /\ CodexTyped /\ SyncTyped)'
BY DEF TypeOK, BridgeTyped, CodexTyped, SyncTyped, Phases, RequestStates, Rollouts

-----------------------------------------------------------------------------
(* Five kinds of steps. *)

\* The bridge and its users: no synchronisation is at work on the database.
TableStep ==
    /\ \/ Chat \/ Claim \/ CaptureUnfinished \/ Recover \/ Poll
       \/ \E r \in RunIds : Launch(r) \/ Return(r) \/ CaptureRun(r) \/ Finish(r)
       \/ \E r \in RunIds : Submit(r)
ClientStep == Append \/ Archive
EndStep == Answer \/ AnswerFails \/ CommandDies \/ Death
Refuses(x, q) ==
    sync' = [sync EXCEPT ![x] = [Idle EXCEPT !.pc = "answer", !.req = q,
                                             !.outcome = "refused"]]
BeginStep(x) ==
    /\ \E q \in Requests \cup {0} :
          \/ Refuses(x, q)
          \/ \E t \in Tasks : ExportBegins(x, q, t)
          \/ x = "cli" /\ ForeignExportBegins
          \/ ImportBegins(x, q)
    /\ commands' \in 0 .. MaxCommands
    /\ UNCHANGED <<storeVars, bridgeVars, codexVars, request, batch, transcript>>

LEMMA FiveKinds ==
  ASSUME TypeOK, [Next]_vars
  PROVE  \/ TableStep \/ ClientStep \/ EndStep
         \/ \E x \in Syncers : BeginStep(x) \/ Progress(x)
         \/ UNCHANGED vars
<1>1. ASSUME NEW q \in Requests, WatcherBegins(q)
      PROVE  BeginStep("watcher")
  <2>1. commands' \in 0 .. MaxCommands
    BY <1>1 DEF WatcherBegins, TypeOK
  <2>2. UNCHANGED <<storeVars, bridgeVars, codexVars, request, batch, transcript>>
    BY <1>1 DEF WatcherBegins
  <2>3. \/ Refuses("watcher", q)
        \/ \E t \in Tasks : ExportBegins("watcher", q, t)
        \/ ImportBegins("watcher", q)
    BY <1>1 DEF WatcherBegins, Refuses
  <2> QED
    BY <2>1, <2>2, <2>3 DEF BeginStep
<1>2. ASSUME CommandBegins
      PROVE  BeginStep("cli")
  <2>1. commands' \in 0 .. MaxCommands
    BY <1>2 DEF CommandBegins, TypeOK
  <2>2. UNCHANGED <<storeVars, bridgeVars, codexVars, request, batch, transcript>>
    BY <1>2 DEF CommandBegins
  <2>3. \/ \E t \in Tasks : ExportBegins("cli", 0, t)
        \/ ForeignExportBegins
        \/ ImportBegins("cli", 0)
    BY <1>2 DEF CommandBegins
  <2> QED
    BY <2>1, <2>2, <2>3 DEF BeginStep
<1>3. "watcher" \in Syncers /\ "cli" \in Syncers
  BY DEF Syncers
<1> QED
  BY <1>1, <1>2, <1>3 DEF Next, LoopStep, TableStep, ClientStep, EndStep

-----------------------------------------------------------------------------
(* The inductive invariant: the session's file and Codex's index. *)

InIndex(x) == sync[x].pc \in CodexLocked

\* No record is counted that was not written.
Counted ==
    /\ late <= wrote /\ rollout.size <= wrote
    /\ \A x \in Syncers : sync[x].size <= wrote

\* One export at a time holds the index, and none of an archived session.
IndexHeld ==
    /\ \A x, y \in Syncers : InIndex(x) /\ InIndex(y) => x = y
    /\ archived => \A x \in Syncers : ~ InIndex(x)

\* What an export has seen of the file, and what it may rely on.
Seen(x) ==
    /\ sync[x].pc \in {"read"} \cup CodexLocked /\ sync[x].source = "cli"
          => rollout.source = "cli"
    /\ sync[x].pc = "checked" => backup /\ wrote <= sync[x].size + late
    /\ sync[x].pc = "replaced" => rollout.source = "cli"

\* What is being told of a synchronisation, and what was told.
Told(outcome) ==
    /\ outcome = "exported" => index = "cli" /\ rollout.source = "cli"
    /\ outcome = "imported" => \E t \in Linked : transcript[t] > 0
Honest(x) ==
    /\ sync[x].pc = "snapshot" => sync[x].size > 0
    /\ sync[x].pc = "answer" => Told(sync[x].outcome)

FileOK ==
    /\ Counted /\ IndexHeld
    /\ \A x \in Syncers : Seen(x)
    /\ LossWindow /\ Repairable

\* The inductive invariant: the tables.  A task that is there has the session.
Named(t) == t \in Tasks /\ session[t] = TheSession
TaskOK == \A t \in Tasks : taskStatus[t] # "absent" => session[t] = TheSession
RowsOK ==
    /\ \A m \in MessageIds : msgStatus[m] # "absent" => Named(msgTask[m])
    /\ \A r \in RunIds :
          phase[r] # "none" => /\ Named(runTask[r]) /\ runMsg[r] \in MessageIds
                               /\ msgStatus[runMsg[r]] # "absent"

\* A task being exported is idle.
Gated ==
    \A x \in Syncers :
        sync[x].mine /\ sync[x].pc \in Exporting
           => taskStatus[sync[x].task] \notin {"queued", "running"}

TableOK == TaskOK /\ RowsOK /\ Gated /\ OneTaskPerSession

AnswersOK ==
    /\ \A x \in Syncers : Honest(x)
    /\ \A q \in Requests : Told(request[q].outcome)

Inv == TypeOK /\ FileOK /\ TableOK /\ AnswersOK

LEMMA InvInit == Init => Inv
<1> SUFFICES ASSUME Init PROVE Inv
  OBVIOUS
<1>1. StoreTypeOK
  BY DEF Init, StoreInit, StoreTypeOK, TaskStatus, MessageStatus, RunStatus, Operation,
     SessionIds
<1>2. BridgeTyped /\ CodexTyped
  <2>1. rollout \in Rollouts
    BY DEF Init, Rollouts
  <2>2. phase \in [RunIds -> Phases]
    BY DEF Init, Phases
  <2>3. BridgeTyped
    BY <2>2 DEF Init, BridgeTyped
  <2>4. CodexTyped
    <3>1. 0 \in 0 .. MaxRecords
      OBVIOUS
    <3>2. wrote = 0 /\ late = 0 /\ archived = FALSE /\ backup = FALSE /\ index \in {"exec", "cli"}
      BY DEF Init
    <3> QED
      BY <2>1, <3>1, <3>2 DEF CodexTyped
  <2> QED
    BY <2>3, <2>4
<1>3. Idle \in SyncStates
  BY DEF Idle, SyncStates, Outcomes, Exporting
<1>4. SyncTyped
  BY <1>3 DEF Init, SyncTyped, RequestStates, Outcomes
<1>5. \A x \in Syncers : sync[x] = Idle
  BY DEF Init
<1>6. FileOK
  BY <1>5 DEF Init, FileOK, Counted, IndexHeld, InIndex, Seen, CodexLocked, Idle, LossWindow,
     Repairable
<1>7. TableOK
  BY <1>5 DEF Init, StoreInit, TableOK, TaskOK, RowsOK, Gated, OneTaskPerSession, Exporting,
     Idle, Linked, NoSession, TheSession
<1>8. AnswersOK
  BY <1>5 DEF Init, AnswersOK, Honest, Told, Idle
<1> QED
  BY <1>1, <1>2, <1>4, <1>6, <1>7, <1>8, TypeParts DEF Inv

-----------------------------------------------------------------------------
(* Types. *)

LEMMA TableTypes ==
  ASSUME TypeOK, TableStep
  PROVE  TypeOK'
<1>a. StoreTypeOK /\ BridgeTyped /\ CodexTyped /\ SyncTyped
  BY TypeParts
<1>1. CodexTyped' /\ sync' = sync
  BY <1>a DEF TableStep, Chat, Claim, Launch, Return, CaptureRun, Finish, Submit, Recover,
     CaptureUnfinished, Poll, Advance, codexVars, syncVars, CodexTyped
<1>2. StoreTypeOK'
  <2>1. CASE Chat
    BY <1>a, <2>1, QueueTyped, StopTyped DEF Chat
  <2>2. CASE Claim
    BY <1>a, <2>2, ClaimTyped DEF Claim
  <2>3. CASE \E r \in RunIds : Finish(r)
    BY <1>a, <2>3, FinishTyped DEF Finish
  <2>4. CASE Recover
    BY <1>a, <2>4, RecoverTyped DEF Recover
  <2>5. CASE UNCHANGED storeVars
    BY <1>a, <2>5, SameTyped
  <2> QED
    BY <2>1, <2>2, <2>3, <2>4, <2>5
    DEF TableStep, Launch, Return, CaptureRun, Submit, CaptureUnfinished, Poll
<1>3. BridgeTyped'
  <2>1. CASE Claim
    <3>1. nextRun \in RunIds
      BY <1>a, <2>1, ClaimTyped DEF Claim
    <3> QED
      BY <1>a, <2>1 DEF Claim, BridgeTyped, Phases
  <2>2. ASSUME NEW r \in RunIds, Launch(r) \/ Return(r) \/ CaptureRun(r) \/ Finish(r)
        PROVE  BridgeTyped'
    BY <1>a, <2>2 DEF Launch, Return, CaptureRun, Finish, Advance, BridgeTyped, Phases
  <2>3. CASE Recover \/ CaptureUnfinished
    BY <1>a, <2>3 DEF Recover, CaptureUnfinished, BridgeTyped
  <2>4. CASE UNCHANGED bridgeVars
    BY <1>a, <2>4 DEF bridgeVars, BridgeTyped
  <2> QED
    BY <2>1, <2>2, <2>3, <2>4 DEF TableStep, Chat, Submit, Poll
<1>4. SyncTyped'
  <2>1. ASSUME NEW R, request' = [q \in Requests |-> Captured(q, R)],
               UNCHANGED <<batch, sync, commands, transcript>>
        PROVE  SyncTyped'
    <3>1. \A q \in Requests : Captured(q, R) \in RequestStates
      BY <1>a DEF Captured, SyncTyped, RequestStates
    <3> QED
      BY <1>a, <2>1, <3>1 DEF SyncTyped
  <2>2. ASSUME NEW r \in RunIds, Submit(r)
        PROVE  SyncTyped'
    <3>1. PICK q \in Requests :
            request' = [request EXCEPT ![q] = [@ EXCEPT !.state = "spooled", !.run = script]]
      BY <2>2 DEF Submit
    <3>2. request' \in [Requests -> RequestStates]
      BY <1>a, <3>1 DEF SyncTyped, BridgeTyped, RequestStates
    <3> QED
      BY <1>a, <2>2, <3>2 DEF Submit, SyncTyped
  <2>3. CASE Poll
    BY <1>a, <2>3 DEF Poll, Pending, SyncTyped
  <2>4. CASE UNCHANGED syncVars
    BY <1>a, <2>4 DEF syncVars, SyncTyped
  <2> QED
    BY <2>1, <2>2, <2>3, <2>4
    DEF TableStep, Chat, Claim, Launch, Return, CaptureRun, Finish, Recover, CaptureUnfinished
<1> QED
  BY <1>1, <1>2, <1>3, <1>4, TypeParts

\* A client appends to the file, or to one that was replaced.
LEMMA Appends ==
  ASSUME wrote \in Nat, late \in Nat, rollout \in Rollouts, rollout.size < MaxRecords, Append
  PROVE  /\ wrote' = wrote + 1 /\ wrote < MaxRecords /\ UNCHANGED <<index, archived, backup>>
         /\ rollout' \in Rollouts /\ rollout'.ino = rollout.ino
         /\ rollout'.source = rollout.source
         /\ late' \in {late, late + 1}
         /\ (\E x \in Syncers : At(x, "checked")) => late' = late + 1
         /\ \/ rollout'.size = rollout.size + 1
            \/ rollout'.size = rollout.size /\ late' = late + 1
<1> DEFINE last == \E x \in Syncers : At(x, "checked")
<1>1. wrote' = wrote + 1 /\ wrote < MaxRecords /\ UNCHANGED <<index, archived, backup>>
  BY DEF Append
<1>2. CASE /\ late' = late + (IF last THEN 1 ELSE 0)
           /\ \E a \in BOOLEAN :
                 rollout' = [rollout EXCEPT !.size = @ + 1, !.active = a]
  <2>1. late' \in {late, late + 1} /\ (last => late' = late + 1)
    BY <1>2
  <2>2. /\ rollout' \in Rollouts /\ rollout'.ino = rollout.ino
        /\ rollout'.source = rollout.source /\ rollout'.size = rollout.size + 1
    <3>1. PICK a \in BOOLEAN : rollout' = [rollout EXCEPT !.size = @ + 1, !.active = a]
      BY <1>2
    <3>2. rollout.size + 1 \in 0 .. MaxRecords
      BY DEF Rollouts
    <3> QED
      BY <3>1, <3>2 DEF Rollouts
  <2> QED
    BY <1>1, <2>1, <2>2
<1>3. CASE late' = late + 1 /\ rollout' = rollout
  BY <1>1, <1>3
<1> QED
  BY <1>2, <1>3 DEF Append

LEMMA ClientTypes ==
  ASSUME TypeOK, Counted, ClientStep
  PROVE  TypeOK'
<1>a. StoreTypeOK /\ BridgeTyped /\ CodexTyped /\ SyncTyped
  BY TypeParts
<1>1. StoreTypeOK' /\ BridgeTyped' /\ SyncTyped'
  <2>1. UNCHANGED <<storeVars, bridgeVars, syncVars>>
    BY DEF ClientStep, Append, Archive
  <2> QED
    BY <1>a, <2>1, SameTyped DEF bridgeVars, syncVars, BridgeTyped, SyncTyped
<1>2. CodexTyped'
  <2>1. CASE Append
    <3>1. wrote \in Nat /\ late \in Nat /\ rollout \in Rollouts /\ rollout.size < MaxRecords
      <4>1. wrote < MaxRecords /\ rollout.size <= wrote
        BY <2>1 DEF Append, Counted
      <4>2. wrote \in Nat /\ late \in Nat /\ rollout \in Rollouts
        BY <1>a DEF CodexTyped
      <4>3. rollout.size \in Nat
        BY <4>2 DEF Rollouts
      <4> QED
        BY <4>1, <4>2, <4>3
    <3>2. /\ wrote' \in 0 .. MaxRecords /\ late' \in 0 .. MaxRecords
          /\ rollout' \in Rollouts /\ UNCHANGED <<index, archived, backup>>
      BY <2>1, <3>1, Appends DEF Counted
    <3> QED
      BY <1>a, <3>2 DEF CodexTyped
  <2>2. CASE Archive
    <3>1. archived' = TRUE /\ UNCHANGED <<rollout, index, backup, wrote, late>>
      BY <2>2 DEF Archive
    <3> QED
      BY <1>a, <3>1 DEF CodexTyped
  <2> QED
    BY <2>1, <2>2 DEF ClientStep
<1> QED
  BY <1>1, <1>2, TypeParts

LEMMA PutTyped ==
  ASSUME SyncTyped, NEW x \in Syncers, NEW s \in SyncStates,
         sync' = [sync EXCEPT ![x] = s]
  PROVE  /\ sync' \in [Syncers -> SyncStates]
         /\ sync'[x] = s
         /\ \A y \in Syncers \ {x} : sync'[y] = sync[y]
BY DEF SyncTyped

LEMMA EndTypes ==
  ASSUME TypeOK, EndStep
  PROVE  TypeOK'
<1>a. StoreTypeOK /\ BridgeTyped /\ CodexTyped /\ SyncTyped
  BY TypeParts
<1>1. StoreTypeOK' /\ CodexTyped'
  <2>1. UNCHANGED <<storeVars, codexVars>>
    BY DEF EndStep, Answer, AnswerFails, CommandDies, Death
  <2> QED
    BY <1>a, <2>1, SameTyped DEF codexVars, CodexTyped
<1>2. Idle \in SyncStates
  BY DEF Idle, SyncStates, Outcomes, Exporting
<1>3. sync' \in [Syncers -> SyncStates]
  BY <1>a, <1>2 DEF EndStep, Answer, AnswerFails, CommandDies, Death, SyncTyped
<1>4. request' \in [Requests -> RequestStates]
  <2>1. CASE Answer
    <3>1. "watcher" \in Syncers
      BY DEF Syncers
    <3>2. sync["watcher"].outcome \in Outcomes
      BY <1>a, <3>1 DEF SyncTyped, SyncStates
    <3>3. request' = [request EXCEPT ![sync["watcher"].req] =
                        [@ EXCEPT !.state = "answered", !.outcome = sync["watcher"].outcome]]
      BY <2>1 DEF Answer
    <3> DEFINE q == sync["watcher"].req
    <3>4. CASE q \in Requests
      <4>1. [request[q] EXCEPT !.state = "answered", !.outcome = sync["watcher"].outcome]
               \in RequestStates
        <5>1. request[q] \in RequestStates
          BY <1>a, <3>4 DEF SyncTyped
        <5> QED
          BY <3>2, <5>1 DEF RequestStates
      <4> QED
        BY <1>a, <3>3, <4>1 DEF SyncTyped
    <3>5. CASE q \notin Requests
      BY <1>a, <3>3, <3>5 DEF SyncTyped
    <3> QED
      BY <3>4, <3>5
  <2>2. CASE request' = request
    BY <1>a, <2>2 DEF SyncTyped
  <2> QED
    BY <2>1, <2>2 DEF EndStep, AnswerFails, CommandDies, Death
<1>5. batch' \subseteq Requests /\ commands' = commands /\ transcript' = transcript
  BY <1>a DEF EndStep, Answer, AnswerFails, CommandDies, Death, SyncTyped
<1>6. SyncTyped'
  BY <1>a, <1>3, <1>4, <1>5 DEF SyncTyped
<1>7. BridgeTyped'
  <2>1. CASE Death
    <3>1. deaths' \in 0 .. MaxDeaths /\ life' = "down" /\ script' = script
      BY <1>a, <2>1 DEF Death, BridgeTyped
    <3>2. phase' \in [RunIds -> Phases]
      BY <1>a, <2>1 DEF Death, BridgeTyped, Phases
    <3> QED
      BY <1>a, <3>1, <3>2 DEF BridgeTyped
  <2>2. CASE UNCHANGED bridgeVars
    BY <1>a, <2>2 DEF bridgeVars, BridgeTyped
  <2> QED
    BY <2>1, <2>2 DEF EndStep, Answer, AnswerFails, CommandDies
<1> QED
  BY <1>1, <1>6, <1>7, TypeParts

\* A synchronisation that begins, or a request that is refused.
Begun(x) ==
    /\ \A y \in Syncers \ {x} : sync'[y] = sync[y]
    /\ \/ /\ sync'[x].pc = "answer" /\ sync'[x].outcome = "refused"
          /\ sync'[x].size = 0
       \/ /\ sync'[x].pc = "gated" /\ sync'[x].size = sync[x].size
          /\ sync'[x].mine => \E t \in Tasks : sync'[x].task = t /\ IdleForSync(t)
       \/ /\ sync'[x].pc = "snapshot" /\ sync'[x].size = rollout.size
          /\ rollout.size > 0

LEMMA BeginTypes ==
  ASSUME TypeOK, NEW x \in Syncers, BeginStep(x)
  PROVE  TypeOK' /\ Begun(x)
<1>a. StoreTypeOK /\ BridgeTyped /\ CodexTyped /\ SyncTyped
  BY TypeParts
<1>1. StoreTypeOK' /\ CodexTyped' /\ BridgeTyped'
  <2>1. UNCHANGED <<storeVars, bridgeVars, codexVars>>
    BY DEF BeginStep
  <2> QED
    BY <1>a, <2>1, SameTyped DEF codexVars, bridgeVars, CodexTyped, BridgeTyped
<1>2. sync' \in [Syncers -> SyncStates] /\ Begun(x)
  <2>1. PICK q \in Requests \cup {0} :
          \/ Refuses(x, q)
          \/ \E t \in Tasks : ExportBegins(x, q, t)
          \/ x = "cli" /\ ForeignExportBegins
          \/ ImportBegins(x, q)
    BY DEF BeginStep
  <2>a. sync[x] \in SyncStates
    BY <1>a DEF SyncTyped
  <2>2. CASE Refuses(x, q)
    <3>0. Idle \in SyncStates
      BY DEF Idle, SyncStates, Outcomes, Exporting
    <3>1. [Idle EXCEPT !.pc = "answer", !.req = q, !.outcome = "refused"] \in SyncStates
      BY <3>0 DEF SyncStates, Outcomes
    <3> QED
      BY <1>a, <2>2, <3>1, PutTyped DEF Refuses, Begun, Idle
  <2>3. ASSUME NEW t \in Tasks, ExportBegins(x, q, t)
        PROVE  sync' \in [Syncers -> SyncStates] /\ Begun(x)
    <3>1. [sync[x] EXCEPT !.pc = "gated", !.req = q, !.task = t] \in SyncStates
      BY <2>a DEF SyncStates, Exporting
    <3> QED
      <4>1. /\ sync' \in [Syncers -> SyncStates]
            /\ \A y \in Syncers \ {x} : sync'[y] = sync[y]
            /\ sync'[x] = [sync[x] EXCEPT !.pc = "gated", !.req = q, !.task = t]
        BY <1>a, <2>3, <3>1, PutTyped DEF ExportBegins
      <4>2. sync'[x].pc = "gated" /\ sync'[x].size = sync[x].size /\ sync'[x].task = t
        BY <2>a, <4>1 DEF SyncStates
      <4> QED
        BY <2>3, <4>1, <4>2 DEF Begun, ExportBegins
  <2>4. CASE x = "cli" /\ ForeignExportBegins
    <3>1. [sync[x] EXCEPT !.pc = "gated", !.mine = FALSE] \in SyncStates
      BY <2>a DEF SyncStates, Exporting
    <3> QED
      <4>1. /\ sync' \in [Syncers -> SyncStates]
            /\ \A y \in Syncers \ {x} : sync'[y] = sync[y]
            /\ sync'[x] = [sync[x] EXCEPT !.pc = "gated", !.mine = FALSE]
        BY <1>a, <2>4, <3>1, PutTyped DEF ForeignExportBegins
      <4>2. sync'[x].pc = "gated" /\ sync'[x].size = sync[x].size /\ ~ sync'[x].mine
        BY <2>a, <4>1 DEF SyncStates
      <4> QED
        BY <4>1, <4>2 DEF Begun
  <2>5. CASE ImportBegins(x, q)
    <3>1. rollout.size \in 0 .. MaxRecords
      BY <1>a DEF CodexTyped, Rollouts
    <3>2. [Idle EXCEPT !.pc = "snapshot", !.req = q, !.size = rollout.size] \in SyncStates
      BY <3>1 DEF Idle, SyncStates, Outcomes
    <3> QED
      BY <1>a, <2>5, <3>2, PutTyped DEF ImportBegins, Begun, Idle
  <2> QED
    BY <2>1, <2>2, <2>3, <2>4, <2>5
<1>3. SyncTyped'
  BY <1>a, <1>2 DEF BeginStep, SyncTyped
<1> QED
  BY <1>1, <1>2, <1>3, TypeParts

-----------------------------------------------------------------------------
(* What a step of a synchronisation does to its own record. *)

LEMMA ThroughTyped ==
  ASSUME SyncTyped, NEW x \in Syncers, NEW o \in Outcomes, Through(x, o)
  PROVE  /\ sync' \in [Syncers -> SyncStates]
         /\ \A y \in Syncers \ {x} : sync'[y] = sync[y]
         /\ \/ sync'[x] = Idle
            \/ sync'[x].pc = "answer" /\ sync'[x].outcome = o /\ sync'[x].size = 0
<1>1. Idle \in SyncStates
  BY DEF Idle, SyncStates, Outcomes, Exporting
<1>2. [Idle EXCEPT !.pc = "answer", !.req = sync[x].req, !.outcome = o] \in SyncStates
  BY <1>1 DEF SyncTyped, SyncStates
<1> QED
  BY <1>1, <1>2 DEF SyncTyped, Through, Idle

LEMMA GoesTyped ==
  ASSUME SyncTyped, NEW x \in Syncers, NEW pc \in Exporting, GoesTo(x, pc)
  PROVE  /\ sync' \in [Syncers -> SyncStates]
         /\ \A y \in Syncers \ {x} : sync'[y] = sync[y]
         /\ sync'[x].pc = pc /\ sync'[x].size = sync[x].size
         /\ sync'[x].source = sync[x].source /\ sync'[x].mine = sync[x].mine
         /\ sync'[x].task = sync[x].task
<1>1. sync[x] \in SyncStates
  BY DEF SyncTyped
<1>2. sync' = [sync EXCEPT ![x] = [sync[x] EXCEPT !.pc = pc]]
  BY DEF GoesTo
<1>3. [sync[x] EXCEPT !.pc = pc] \in SyncStates
  BY <1>1 DEF SyncStates
<1>4. sync' \in [Syncers -> SyncStates] /\ sync'[x] = [sync[x] EXCEPT !.pc = pc]
      /\ \A y \in Syncers \ {x} : sync'[y] = sync[y]
  BY <1>2, <1>3, PutTyped
<1> QED
  BY <1>1, <1>4 DEF SyncStates

LEMMA SnapshotTyped ==
  ASSUME SyncTyped, CodexTyped, NEW x \in Syncers, Snapshot(x, "read")
  PROVE  /\ sync' \in [Syncers -> SyncStates]
         /\ \A y \in Syncers \ {x} : sync'[y] = sync[y]
         /\ sync'[x].pc = "read" /\ sync'[x].size = rollout.size
         /\ sync'[x].source = rollout.source /\ sync'[x].mine = sync[x].mine
         /\ sync'[x].task = sync[x].task
<1>1. sync[x] \in SyncStates
  BY DEF SyncTyped
<1>2. /\ rollout.size \in 0 .. MaxRecords /\ rollout.ino \in Nat
      /\ rollout.source \in {"exec", "cli"}
  BY DEF CodexTyped, Rollouts
<1>3. [sync[x] EXCEPT !.pc = "read", !.size = rollout.size, !.ino = rollout.ino,
                      !.source = rollout.source] \in SyncStates
  BY <1>1, <1>2 DEF SyncStates, Exporting
<1>4. /\ sync' \in [Syncers -> SyncStates]
      /\ \A y \in Syncers \ {x} : sync'[y] = sync[y]
      /\ sync'[x] = [sync[x] EXCEPT !.pc = "read", !.size = rollout.size,
                                    !.ino = rollout.ino, !.source = rollout.source]
  BY <1>3, PutTyped DEF Snapshot
<1> QED
  BY <1>1, <1>4 DEF SyncStates

LEMMA ProgressTypes ==
  ASSUME TypeOK, Counted, NEW x \in Syncers, Progress(x)
  PROVE  TypeOK'
<1>a. StoreTypeOK /\ BridgeTyped /\ CodexTyped /\ SyncTyped
  BY TypeParts
<1>b. BridgeTyped' /\ UNCHANGED <<request, batch, commands>>
  BY <1>a DEF Progress, bridgeVars, BridgeTyped
<1>c. sync[x] \in SyncStates /\ Outcomes = {"none", "refused", "exported", "imported"}
  BY <1>a DEF SyncTyped, Outcomes
<1>1. ASSUME NEW s \in 0 .. MaxRecords, NEW a \in BOOLEAN
      PROVE  [ino |-> rollout.ino + 1, size |-> s, source |-> "cli", active |-> a] \in Rollouts
  BY <1>a DEF CodexTyped, Rollouts
<1>2. CASE Export(x) /\ UNCHANGED <<storeVars, transcript>>
  <2>1. sync' \in [Syncers -> SyncStates]
    BY <1>a, <1>c, <1>2, ThroughTyped, GoesTyped, SnapshotTyped
    DEF Export, ExportReads, ExportLocks, ExportChecks, ExportReplaces, ExportCommits, Exporting
  <2>2. rollout' \in Rollouts
    <3>1. CASE ExportReplaces(x)
      <4>1. sync[x].size \in 0 .. MaxRecords
        BY <1>c DEF SyncStates
      <4> QED
        BY <1>1, <3>1, <4>1 DEF ExportReplaces
    <3>2. CASE rollout' = rollout
      BY <1>a, <3>2 DEF CodexTyped
    <3> QED
      BY <1>2, <3>1, <3>2
      DEF Export, ExportReads, ExportLocks, ExportChecks, ExportCommits, codexVars
  <2>3. index' \in {index, "cli"} /\ backup' \in {backup, TRUE} /\ UNCHANGED <<archived, wrote, late>>
    BY <1>2 DEF Export, ExportReads, ExportLocks, ExportChecks, ExportReplaces, ExportCommits,
       codexVars
  <2>4. CodexTyped'
    BY <1>a, <2>2, <2>3 DEF CodexTyped
  <2>5. StoreTypeOK' /\ SyncTyped'
    BY <1>a, <1>b, <1>2, <2>1, SameTyped DEF SyncTyped
  <2> QED
    BY <1>b, <2>4, <2>5, TypeParts
<1>3. CASE ImportCommits(x) /\ UNCHANGED codexVars
  <2>1. sync' \in [Syncers -> SyncStates]
    BY <1>a, <1>c, <1>3, ThroughTyped DEF ImportCommits
  <2>2. CodexTyped'
    BY <1>a, <1>3 DEF codexVars, CodexTyped
  <2>3. StoreTypeOK' /\ transcript' \in [Tasks -> 0 .. MaxRecords]
    <3>1. CASE UNCHANGED <<taskStatus, session, transcript>>
      <4>1. UNCHANGED storeVars
        BY <1>3, <3>1 DEF ImportCommits, storeVars, taskVars
      <4> QED
        BY <1>a, <3>1, <4>1, SameTyped DEF SyncTyped
    <3>2. ASSUME NEW t \in Importable,
                 taskStatus' = [taskStatus EXCEPT ![t] = IF @ = "absent" THEN "finished" ELSE @],
                 session' = [session EXCEPT ![t] = TheSession],
                 transcript' = [transcript EXCEPT ![t] = sync[x].size]
          PROVE  StoreTypeOK' /\ transcript' \in [Tasks -> 0 .. MaxRecords]
      <4>1. sync[x].size \in 0 .. MaxRecords
        BY <1>c DEF SyncStates
      <4>2. TheSession \in SessionIds
        BY DEF TheSession, SessionIds, RunIds
      <4>3. taskStatus' \in [Tasks -> TaskStatus]
        BY <1>a, <3>2 DEF StoreTypeOK, TaskStatus
      <4>4. session' \in [Tasks -> SessionIds]
        BY <1>a, <3>2, <4>2 DEF StoreTypeOK
      <4>5. transcript' \in [Tasks -> 0 .. MaxRecords]
        BY <1>a, <3>2, <4>1 DEF SyncTyped
      <4>6. UNCHANGED <<msgVars, runVars, lockHolder>>
        BY <1>3 DEF ImportCommits
      <4> QED
        BY <1>a, <4>3, <4>4, <4>5, <4>6 DEF StoreTypeOK, msgVars, runVars
    <3> QED
      BY <1>3, <3>1, <3>2 DEF ImportCommits
  <2>4. SyncTyped'
    BY <1>a, <1>b, <2>1, <2>3 DEF SyncTyped
  <2> QED
    BY <1>b, <2>2, <2>3, <2>4, TypeParts
<1> QED
  BY <1>2, <1>3 DEF Progress

-----------------------------------------------------------------------------
(* The file and the index. *)

\* A step that touches neither, and takes no synchronisation further.
LEMMA FileCalm ==
  ASSUME FileOK, UNCHANGED codexVars,
         \A y \in Syncers :
            \/ sync'[y] = sync[y]
            \/ sync'[y].pc \notin {"read"} \cup CodexLocked /\ sync'[y].size <= wrote
  PROVE  FileOK'
<1>1. UNCHANGED <<rollout, index, archived, backup, wrote, late>>
  BY DEF codexVars
<1>2. Counted' /\ LossWindow' /\ Repairable'
  BY <1>1 DEF FileOK, Counted, LossWindow, Repairable
<1>3. IndexHeld'
  BY <1>1 DEF FileOK, IndexHeld, InIndex
<1>4. \A y \in Syncers : Seen(y)'
  BY <1>1 DEF FileOK, Seen, CodexLocked
<1> QED
  BY <1>2, <1>3, <1>4 DEF FileOK

LEMMA ClientFile ==
  ASSUME TypeOK, FileOK, ClientStep
  PROVE  FileOK'
<1>1. sync' = sync
  BY DEF ClientStep, Append, Archive, syncVars
<1>2. rollout \in Rollouts /\ wrote \in Nat /\ late \in Nat
      /\ \A x \in Syncers : sync[x].size \in Nat
  BY DEF TypeOK, Rollouts, SyncStates
<1>3. CASE Append
  <2>a. rollout.size < MaxRecords
    <3>1. wrote < MaxRecords /\ rollout.size <= wrote
      BY <1>3 DEF Append, FileOK, Counted
    <3>2. rollout.size \in Nat
      BY <1>2 DEF Rollouts
    <3> QED
      BY <1>2, <3>1, <3>2
  <2>1. /\ wrote' = wrote + 1 /\ UNCHANGED <<index, archived, backup>>
        /\ late' \in {late, late + 1}
        /\ (\E x \in Syncers : At(x, "checked")) => late' = late + 1
    BY <1>2, <1>3, <2>a, Appends
  <2>2. /\ rollout'.ino = rollout.ino /\ rollout'.source = rollout.source
        /\ \/ rollout'.size = rollout.size + 1
           \/ rollout'.size = rollout.size /\ late' = late + 1
    BY <1>2, <1>3, <2>a, Appends
  <2>3. rollout.size \in Nat
    BY <1>2 DEF Rollouts
  <2>4. Counted' /\ LossWindow' /\ Repairable'
    BY <1>1, <1>2, <2>1, <2>2, <2>3 DEF FileOK, Counted, LossWindow, Repairable
  <2>5. IndexHeld'
    BY <1>1, <2>1 DEF FileOK, IndexHeld, InIndex
  <2>6. \A x \in Syncers : Seen(x)'
    BY <1>1, <1>2, <2>1, <2>2 DEF FileOK, Seen, At
  <2> QED
    BY <2>4, <2>5, <2>6 DEF FileOK
<1>4. CASE Archive
  <2>1. UNCHANGED <<rollout, index, backup, wrote, late>> /\ IndexFree
    BY <1>4 DEF Archive
  <2>2. Counted' /\ LossWindow' /\ Repairable'
    BY <1>1, <2>1 DEF FileOK, Counted, LossWindow, Repairable
  <2>3. IndexHeld'
    BY <1>1, <2>1 DEF FileOK, IndexHeld, InIndex, IndexFree
  <2>4. \A x \in Syncers : Seen(x)'
    BY <1>1, <2>1 DEF FileOK, Seen
  <2> QED
    BY <2>2, <2>3, <2>4 DEF FileOK
<1> QED
  BY <1>3, <1>4 DEF ClientStep

LEMMA EndFile ==
  ASSUME TypeOK, FileOK, EndStep
  PROVE  FileOK'
<1>1. UNCHANGED codexVars
  BY DEF EndStep, Answer, AnswerFails, CommandDies, Death
<1>2. \A y \in Syncers : sync'[y] \in {sync[y], Idle}
  BY DEF EndStep, Answer, AnswerFails, CommandDies, Death, TypeOK
<1>3. Idle.pc = "idle" /\ Idle.size = 0 /\ 0 <= wrote
  BY DEF Idle, TypeOK
<1> QED
  BY <1>1, <1>2, <1>3, FileCalm DEF CodexLocked

LEMMA BeginFile ==
  ASSUME TypeOK, FileOK, NEW x \in Syncers, BeginStep(x)
  PROVE  FileOK'
<1>1. UNCHANGED codexVars
  BY DEF BeginStep
<1>3. /\ \A y \in Syncers \ {x} : sync'[y] = sync[y]
      /\ sync'[x].pc \in {"answer", "gated", "snapshot"}
      /\ sync'[x].size \in {0, sync[x].size, rollout.size}
  BY BeginTypes DEF Begun
<1>4. 0 <= wrote /\ sync[x].size <= wrote /\ rollout.size <= wrote
  BY DEF FileOK, Counted, TypeOK
<1>5. sync'[x].size <= wrote
  BY <1>3, <1>4
<1> QED
  BY <1>1, <1>3, <1>5, FileCalm DEF CodexLocked

LEMMA ProgressFile ==
  ASSUME TypeOK, FileOK, NEW x \in Syncers, Progress(x)
  PROVE  FileOK'
<1>a. StoreTypeOK /\ BridgeTyped /\ CodexTyped /\ SyncTyped
  BY TypeParts
<1>b. /\ rollout \in Rollouts /\ wrote \in Nat /\ late \in Nat
      /\ sync[x] \in SyncStates /\ sync[x].size \in Nat
  BY <1>a DEF CodexTyped, SyncTyped, SyncStates
<1>c. Counted /\ IndexHeld /\ Seen(x) /\ LossWindow /\ Repairable
      /\ \A y \in Syncers : Seen(y)
  BY DEF FileOK
<1>1. ASSUME NEW o \in Outcomes, Through(x, o), UNCHANGED codexVars
      PROVE  FileOK'
  <2>1. Idle.pc = "idle" /\ Idle.size = 0 /\ 0 <= wrote
    BY <1>b DEF Idle
  <2>2. \A y \in Syncers \ {x} : sync'[y] = sync[y]
    BY <1>a, <1>1, ThroughTyped
  <2>3. sync'[x].pc \in {"idle", "answer"} /\ sync'[x].size = 0
    BY <1>a, <1>1, <2>1, ThroughTyped
  <2> QED
    BY <1>1, <2>1, <2>2, <2>3, FileCalm DEF CodexLocked
<1>o. "refused" \in Outcomes /\ "exported" \in Outcomes /\ "imported" \in Outcomes
  BY DEF Outcomes
<1>2. CASE ImportCommits(x) /\ UNCHANGED codexVars
  BY <1>1, <1>2, <1>o DEF ImportCommits
<1>3. CASE ExportReads(x)
  <2>1. UNCHANGED codexVars
    BY <1>3 DEF ExportReads
  <2>2. CASE Through(x, "refused")
    BY <1>1, <1>o, <2>1, <2>2
  <2>3. CASE Snapshot(x, "read")
    <3>1. UNCHANGED <<rollout, index, archived, backup, wrote, late>>
      BY <2>1 DEF codexVars
    <3>2. /\ \A y \in Syncers \ {x} : sync'[y] = sync[y]
          /\ sync'[x].pc = "read" /\ sync'[x].size = rollout.size
          /\ sync'[x].source = rollout.source
      BY <1>a, <2>3, SnapshotTyped
    <3>3. Counted' /\ LossWindow' /\ Repairable'
      BY <1>c, <3>1, <3>2 DEF Counted, LossWindow, Repairable
    <3>4. IndexHeld'
      BY <1>c, <3>1, <3>2 DEF IndexHeld, InIndex, CodexLocked
    <3>5. \A y \in Syncers : Seen(y)'
      BY <1>c, <3>1, <3>2 DEF Seen
    <3> QED
      BY <3>3, <3>4, <3>5 DEF FileOK
  <2> QED
    BY <1>3, <2>2, <2>3 DEF ExportReads
<1>4. CASE ExportLocks(x)
  <2>1. UNCHANGED codexVars
    BY <1>4 DEF ExportLocks
  <2>2. CASE Through(x, "refused")
    BY <1>1, <1>o, <2>1, <2>2
  <2>3. ASSUME ~ archived, IndexFree, NEW pc \in {"locked", "replaced"}, GoesTo(x, pc),
               pc = "replaced" => sync[x].source = "cli"
        PROVE  FileOK'
    <3>1. UNCHANGED <<rollout, index, archived, backup, wrote, late>>
      BY <2>1 DEF codexVars
    <3>2. /\ \A y \in Syncers \ {x} : sync'[y] = sync[y]
          /\ sync'[x].pc = pc /\ sync'[x].size = sync[x].size
          /\ sync'[x].source = sync[x].source
      BY <1>a, <2>3, GoesTyped DEF Exporting
    <3>3. Counted' /\ LossWindow' /\ Repairable'
      BY <1>c, <3>1, <3>2 DEF Counted, LossWindow, Repairable
    <3>4. IndexHeld'
      BY <1>4, <2>3, <3>1, <3>2 DEF ExportLocks, IndexFree, IndexHeld, InIndex
    <3>5. \A y \in Syncers : Seen(y)'
      BY <1>4, <1>c, <2>3, <3>1, <3>2 DEF ExportLocks, At, Seen
    <3> QED
      BY <3>3, <3>4, <3>5 DEF FileOK
  <2> QED
    BY <1>4, <2>2, <2>3 DEF ExportLocks
<1>5. CASE ExportChecks(x)
  <2>1. backup' = TRUE /\ UNCHANGED <<rollout, index, archived, wrote, late>>
    BY <1>5 DEF ExportChecks
  <2>2. \A y \in Syncers \ {x} : sync'[y] = sync[y] /\ ~ InIndex(y)
    BY <1>5, <1>a, <1>c, <1>o, ThroughTyped, GoesTyped
    DEF ExportChecks, At, IndexHeld, InIndex, CodexLocked, Exporting
  <2>4. \/ sync'[x].pc \in {"idle", "answer"} /\ sync'[x].size = 0
        \/ /\ sync[x].size = rollout.size
           /\ sync'[x].pc = "checked" /\ sync'[x].size = sync[x].size
           /\ sync'[x].source = sync[x].source
    <3>1. Idle.pc = "idle" /\ Idle.size = 0
      BY DEF Idle
    <3> QED
      BY <1>5, <1>a, <1>o, <3>1, ThroughTyped, GoesTyped DEF ExportChecks, Exporting, SameFile
  <2>5. Counted' /\ LossWindow' /\ Repairable'
    BY <1>b, <1>c, <2>1, <2>2, <2>4 DEF Counted, LossWindow, Repairable
  <2>6. IndexHeld'
    BY <1>5, <1>c, <2>1, <2>2, <2>4 DEF IndexHeld, InIndex, CodexLocked, ExportChecks, At
  <2>7. \A y \in Syncers : Seen(y)'
    BY <1>5, <1>c, <2>1, <2>2, <2>4 DEF Seen, LossWindow, ExportChecks, At, CodexLocked
  <2> QED
    BY <2>5, <2>6, <2>7 DEF FileOK
<1>6. CASE ExportReplaces(x)
  <2>1. /\ UNCHANGED <<index, archived, backup, wrote, late>>
        /\ rollout'.size = sync[x].size /\ rollout'.source = "cli"
    BY <1>6 DEF ExportReplaces
  <2>2. /\ \A y \in Syncers \ {x} : sync'[y] = sync[y]
        /\ sync'[x].pc = "replaced" /\ sync'[x].size = sync[x].size
        /\ sync[x].pc = "checked"
    BY <1>6, <1>a, GoesTyped DEF ExportReplaces, At, Exporting
  <2>3. Counted' /\ LossWindow' /\ Repairable'
    BY <1>c, <2>1, <2>2 DEF Counted, LossWindow, Repairable, Seen
  <2>4. IndexHeld'
    BY <1>c, <2>1, <2>2 DEF IndexHeld, InIndex, CodexLocked
  <2>5. \A y \in Syncers : Seen(y)'
    <3>1. \A y \in Syncers \ {x} : ~ InIndex(y)
      BY <1>c, <2>2 DEF IndexHeld, InIndex, CodexLocked
    <3> QED
      BY <1>c, <2>1, <2>2, <3>1 DEF Seen, InIndex, CodexLocked
  <2> QED
    BY <2>3, <2>4, <2>5 DEF FileOK
<1>7. CASE ExportCommits(x)
  <2>1. index' = "cli" /\ UNCHANGED <<rollout, archived, backup, wrote, late>>
    BY <1>7 DEF ExportCommits
  <2>2. /\ \A y \in Syncers \ {x} : sync'[y] = sync[y]
        /\ sync'[x].pc \in {"idle", "answer"} /\ sync'[x].size = 0
        /\ sync[x].pc = "replaced"
    <3>1. Idle.pc = "idle" /\ Idle.size = 0
      BY DEF Idle
    <3> QED
      BY <1>7, <1>a, <1>o, <3>1, ThroughTyped DEF ExportCommits, At
  <2>3. Counted' /\ LossWindow' /\ Repairable'
    BY <1>b, <1>c, <2>1, <2>2 DEF Counted, LossWindow, Repairable, Seen
  <2>4. IndexHeld'
    BY <1>c, <2>1, <2>2 DEF IndexHeld, InIndex, CodexLocked
  <2>5. \A y \in Syncers : Seen(y)'
    BY <1>c, <2>1, <2>2 DEF Seen, CodexLocked
  <2> QED
    BY <2>3, <2>4, <2>5 DEF FileOK
<1> QED
  BY <1>2, <1>3, <1>4, <1>5, <1>6, <1>7 DEF Progress, Export

-----------------------------------------------------------------------------
(* The tables. *)

\* With the same tables what a step does to a synchronisation decides.
LEMMA TablesSameOK ==
  ASSUME TableOK, UNCHANGED storeVars, \A r \in RunIds : phase'[r] # "none" => phase[r] # "none",
         Gated'
  PROVE  TableOK'
BY DEF TableOK, TaskOK, RowsOK, Named, OneTaskPerSession, Linked, storeVars, taskVars, msgVars,
   runVars

LEMMA TableTables ==
  ASSUME TypeOK, TableOK, TableStep
  PROVE  TableOK'
<1>a. StoreTypeOK /\ BridgeTyped /\ TaskOK /\ RowsOK /\ Gated /\ OneTaskPerSession
  BY TypeParts DEF TableOK
<1>b. sync' = sync
  BY DEF TableStep, Chat, Claim, Launch, Return, CaptureRun, Finish, Submit, Recover,
     CaptureUnfinished, Poll, Advance, syncVars
<1>1. ASSUME DatabaseFree PROVE Gated'
  BY <1>1, <1>b DEF Gated, DatabaseFree
<1>2. ASSUME session' = session, TaskOK', RowsOK', DatabaseFree
      PROVE  TableOK'
  BY <1>a, <1>1, <1>2 DEF TableOK, OneTaskPerSession, Linked
<1>3. ASSUME UNCHANGED storeVars,
             \A r \in RunIds : phase'[r] # "none" => phase[r] # "none"
      PROVE  TableOK'
  <2>1. Gated'
    BY <1>a, <1>b, <1>3 DEF Gated, storeVars, taskVars
  <2> QED
    BY <1>3, <2>1, TablesSameOK
<1>4. CASE Chat
  <2>1. phase' = phase
    BY <1>4 DEF Chat, bridgeVars
  <2>2. PICK t \in Tasks : QueueMessage(t, "message") \/ StopTask(t)
    BY <1>4 DEF Chat
  <2>3. /\ taskStatus[t] # "absent" /\ session' = session
        /\ runTask' = runTask /\ runMsg' = runMsg
    BY <2>2 DEF QueueMessage, CanQueue, StopTask, runVars
  <2>4. Named(t)
    BY <1>a, <2>3 DEF TaskOK, Named
  <2>5. \A u \in Tasks \ {t} : taskStatus'[u] = taskStatus[u]
    BY <1>a, <2>2 DEF StoreTypeOK, QueueMessage, StopTask
  <2>6. TaskOK'
    BY <1>a, <2>3, <2>4, <2>5 DEF TaskOK, Named
  <2>7. \A m \in MessageIds :
           \/ msgTask'[m] = t
           \/ msgTask'[m] = msgTask[m] /\ (msgStatus'[m] # "absent" => msgStatus[m] # "absent")
    BY <1>a, <2>2 DEF StoreTypeOK, QueueMessage, InsertMessage, StopTask, Cancelled, MessagesOf
  <2>9. \A m \in MessageIds : msgStatus[m] # "absent" => msgStatus'[m] # "absent"
    BY <1>a, <2>2 DEF StoreTypeOK, QueueMessage, InsertMessage, StopTask, Cancelled, MessagesOf
  <2>8. RowsOK'
    BY <1>a, <2>1, <2>3, <2>4, <2>7, <2>9 DEF RowsOK, Named
  <2> QED
    BY <1>2, <1>4, <2>3, <2>6, <2>8 DEF Chat
<1>5. CASE Claim
  <2>1. PICK b \in Bots, m \in MessageIds : ClaimMessage(b, m)
    BY <1>5 DEF Claim
  <2> DEFINE t == msgTask[m]
  <2>2. Named(t) /\ session' = session /\ msgTask' = msgTask
    BY <1>a, <2>1 DEF ClaimMessage, Claimable, RowsOK
  <2>3. nextRun \in RunIds
    BY <1>a, <2>1, ClaimTyped
  <2>4. \A u \in Tasks \ {t} : taskStatus'[u] = taskStatus[u]
    BY <1>a, <2>1 DEF StoreTypeOK, ClaimMessage
  <2>5. TaskOK'
    BY <1>a, <2>2, <2>4 DEF TaskOK, Named
  <2>6. \A n \in MessageIds : msgStatus'[n] # "absent" <=> msgStatus[n] # "absent"
    BY <1>a, <2>1 DEF StoreTypeOK, ClaimMessage, Claimable
  <2>7. \A r \in RunIds :
           \/ runTask'[r] = t /\ runMsg'[r] = m
           \/ runTask'[r] = runTask[r] /\ runMsg'[r] = runMsg[r] /\ phase'[r] = phase[r]
    BY <1>5, <1>a, <2>1, <2>3 DEF StoreTypeOK, BridgeTyped, ClaimMessage, Claim
  <2>8. RowsOK'
    <3>1. msgStatus[m] # "absent"
      BY <2>1 DEF ClaimMessage, Claimable
    <3> QED
      BY <1>a, <2>2, <2>6, <2>7, <3>1 DEF RowsOK, Named
  <2> QED
    BY <1>2, <1>5, <2>2, <2>5, <2>8 DEF Claim
<1>6. ASSUME NEW r \in RunIds, Finish(r)
      PROVE  TableOK'
  <2>1. session' = session
    BY <1>6, <1>a, FinishTyped DEF Finish
  <2>2. /\ Named(runTask[r]) /\ runMsg[r] \in MessageIds
        /\ msgStatus[runMsg[r]] # "absent"
    BY <1>6, <1>a DEF Finish, Advance, RowsOK
  <2>3. \A u \in Tasks \ {runTask[r]} : taskStatus'[u] = taskStatus[u]
    BY <1>6, <1>a DEF StoreTypeOK, Finish, FinishRun
  <2>4. TaskOK'
    BY <1>a, <2>1, <2>2, <2>3 DEF TaskOK, Named
  <2>5. \A n \in MessageIds : msgStatus'[n] # "absent" <=> msgStatus[n] # "absent"
    BY <1>6, <1>a, <2>2 DEF StoreTypeOK, Finish, FinishRun
  <2>7. \A q \in RunIds : phase'[q] # "none" => phase[q] # "none"
    BY <1>6, <1>a DEF Finish, Advance, BridgeTyped
  <2>8. RowsOK'
    BY <1>6, <1>a, <2>1, <2>5, <2>7 DEF RowsOK, Named, Finish, FinishRun
  <2> QED
    BY <1>2, <1>6, <2>1, <2>4, <2>8 DEF Finish
<1>7. CASE Recover
  <2>1. PICK b \in Bots : RecoverInterrupted(b)
    BY <1>7 DEF Recover
  <2>2. UNCHANGED <<session, phase, msgTask, runTask, runMsg>>
    BY <1>7, <2>1 DEF Recover, RecoverInterrupted
  <2>3. \A u \in Tasks : taskStatus'[u] # "absent" => taskStatus[u] # "absent"
    BY <1>a, <2>1 DEF RecoverInterrupted, Lost
  <2>4. \A m \in MessageIds : msgStatus'[m] # "absent" <=> msgStatus[m] # "absent"
    BY <1>a, <2>1 DEF RecoverInterrupted, StatusRecovered
  <2>5. TaskOK' /\ RowsOK'
    BY <1>a, <2>2, <2>3, <2>4 DEF TaskOK, RowsOK, Named
  <2> QED
    BY <1>2, <1>7, <2>2, <2>5 DEF Recover
<1>8. ASSUME NEW r \in RunIds, Launch(r) \/ Return(r) \/ CaptureRun(r) \/ Submit(r)
      PROVE  TableOK'
  <2>1. \A q \in RunIds : phase'[q] # "none" => phase[q] # "none"
    BY <1>8, <1>a DEF Launch, Return, CaptureRun, Submit, Advance, BridgeTyped, bridgeVars
  <2> QED
    BY <1>3, <1>8, <2>1 DEF Launch, Return, CaptureRun, Submit
<1>9. CASE CaptureUnfinished \/ Poll
  BY <1>3, <1>9 DEF CaptureUnfinished, Poll, bridgeVars
<1> QED
  BY <1>4, <1>5, <1>6, <1>7, <1>8, <1>9 DEF TableStep

LEMMA EndTables ==
  ASSUME TypeOK, TableOK, EndStep
  PROVE  TableOK'
<1>a. SyncTyped /\ BridgeTyped /\ Gated
  BY TypeParts DEF TableOK
<1>1. UNCHANGED storeVars /\ \A r \in RunIds : phase'[r] # "none" => phase[r] # "none"
  BY <1>a DEF EndStep, Answer, AnswerFails, CommandDies, Death, bridgeVars, BridgeTyped
<1>2. \A y \in Syncers : sync'[y] \in {sync[y], Idle}
  BY <1>a DEF EndStep, Answer, AnswerFails, CommandDies, Death, SyncTyped
<1>3. Idle.pc \notin Exporting
  BY DEF Idle, Exporting
<1>4. Gated'
  BY <1>a, <1>1, <1>2, <1>3 DEF Gated, storeVars, taskVars
<1> QED
  BY <1>1, <1>4, TablesSameOK

LEMMA BeginTables ==
  ASSUME TypeOK, TableOK, NEW x \in Syncers, BeginStep(x)
  PROVE  TableOK'
<1>1. UNCHANGED <<storeVars, phase>> /\ Begun(x)
  BY BeginTypes DEF BeginStep, bridgeVars
<1>2. Gated'
  BY <1>1 DEF TableOK, Gated, Begun, IdleForSync, Exporting, storeVars, taskVars
<1> QED
  BY <1>1, <1>2, TablesSameOK

\* An export goes on, or is through.
LEMMA ExportMoves ==
  ASSUME TypeOK, NEW x \in Syncers, Export(x)
  PROVE  /\ \A y \in Syncers \ {x} : sync'[y] = sync[y]
         /\ sync[x].pc \in Exporting
         /\ \/ sync'[x] = Idle
            \/ sync'[x].pc = "answer" /\ sync'[x].outcome = "refused"
            \/ /\ sync'[x].pc = "answer" /\ sync'[x].outcome = "exported"
               /\ index' = "cli" /\ rollout' = rollout /\ sync[x].pc = "replaced"
            \/ /\ sync'[x].pc \in Exporting /\ sync'[x].mine = sync[x].mine
               /\ sync'[x].task = sync[x].task
<1>a. SyncTyped /\ CodexTyped
  BY TypeParts
<1>b. "refused" \in Outcomes /\ "exported" \in Outcomes
      /\ "read" \in Exporting /\ "locked" \in Exporting /\ "checked" \in Exporting
      /\ "replaced" \in Exporting /\ "gated" \in Exporting
  BY DEF Outcomes, Exporting
<1>1. CASE ExportReads(x)
  BY <1>1, <1>a, <1>b, ThroughTyped, SnapshotTyped DEF ExportReads, At
<1>2. CASE ExportLocks(x)
  BY <1>2, <1>a, <1>b, ThroughTyped, GoesTyped DEF ExportLocks, At
<1>3. CASE ExportChecks(x)
  BY <1>3, <1>a, <1>b, ThroughTyped, GoesTyped DEF ExportChecks, At
<1>4. CASE ExportReplaces(x)
  BY <1>4, <1>a, <1>b, GoesTyped DEF ExportReplaces, At
<1>5. CASE ExportCommits(x)
  BY <1>5, <1>a, <1>b, ThroughTyped DEF ExportCommits, At
<1> QED
  BY <1>1, <1>2, <1>3, <1>4, <1>5 DEF Export

\* An import's transaction: nothing, or one idle or new task gets the history.
LEMMA ImportMoves ==
  ASSUME TypeOK, TableOK, NEW x \in Syncers, ImportCommits(x)
  PROVE  /\ \A y \in Syncers \ {x} : sync'[y] = sync[y]
         /\ sync[x].pc = "snapshot"
         /\ sync'[x] = Idle \/ sync'[x].pc = "answer"
         /\ UNCHANGED <<msgVars, runVars, lockHolder>>
         /\ \/ /\ UNCHANGED <<taskStatus, session, transcript>>
               /\ sync'[x].outcome \in {"none", "refused"}
            \/ /\ DatabaseFree
               /\ sync'[x].outcome \in {"none", "imported"}
               /\ \E t \in Tasks :
                  /\ Linked \subseteq {t} /\ taskStatus[t] \notin {"queued", "running"}
                  /\ taskStatus'[t] \notin {"queued", "running"}
                  /\ session'[t] = TheSession /\ transcript'[t] = sync[x].size
                  /\ \A u \in Tasks \ {t} :
                        /\ taskStatus'[u] = taskStatus[u] /\ session'[u] = session[u]
                        /\ transcript'[u] = transcript[u]
<1>a. StoreTypeOK /\ SyncTyped /\ TaskOK
  BY TypeParts DEF TableOK
<1>b. "refused" \in Outcomes /\ "imported" \in Outcomes /\ Idle.outcome = "none"
  BY DEF Outcomes, Idle
<1>1. /\ sync[x].pc = "snapshot"
      /\ UNCHANGED <<msgVars, runVars, lockHolder>>
  BY DEF ImportCommits, At
<1>2. CASE Through(x, "refused") /\ UNCHANGED <<taskStatus, session, transcript>>
  BY <1>a, <1>b, <1>1, <1>2, ThroughTyped
<1>3. ASSUME NEW t \in Importable,
             taskStatus' = [taskStatus EXCEPT ![t] = IF @ = "absent" THEN "finished" ELSE @],
             session' = [session EXCEPT ![t] = TheSession],
             transcript' = [transcript EXCEPT ![t] = sync[x].size],
             Through(x, "imported")
      PROVE  /\ \A y \in Syncers \ {x} : sync'[y] = sync[y]
             /\ sync'[x] = Idle \/ sync'[x].pc = "answer"
             /\ sync'[x].outcome \in {"none", "imported"}
             /\ \E u \in Tasks :
                  /\ Linked \subseteq {u} /\ taskStatus[u] \notin {"queued", "running"}
                  /\ taskStatus'[u] \notin {"queued", "running"}
                  /\ session'[u] = TheSession /\ transcript'[u] = sync[x].size
                  /\ \A v \in Tasks \ {u} :
                        /\ taskStatus'[v] = taskStatus[v] /\ session'[v] = session[v]
                        /\ transcript'[v] = transcript[v]
  <2>1. t \in Tasks /\ Linked \subseteq {t} /\ taskStatus[t] \notin {"queued", "running"}
    <3>1. CASE Linked = {}
      <4>1. t \in Tasks
        BY <1>3, <3>1 DEF Importable, NewTask
      <4>2. taskStatus[t] = "absent"
        BY <1>a, <3>1, <4>1 DEF TaskOK, Linked
      <4> QED
        BY <3>1, <4>1, <4>2
    <3>2. CASE Linked # {}
      BY <1>3, <3>2 DEF Importable, Linked
    <3> QED
      BY <3>1, <3>2
  <2>2. /\ taskStatus'[t] \notin {"queued", "running"}
        /\ session'[t] = TheSession /\ transcript'[t] = sync[x].size
        /\ \A v \in Tasks \ {t} :
              /\ taskStatus'[v] = taskStatus[v] /\ session'[v] = session[v]
              /\ transcript'[v] = transcript[v]
    BY <1>a, <1>3, <2>1 DEF StoreTypeOK, SyncTyped
  <2>3. /\ \A y \in Syncers \ {x} : sync'[y] = sync[y]
        /\ sync'[x] = Idle \/ sync'[x].pc = "answer"
        /\ sync'[x].outcome \in {"none", "imported"}
    BY <1>a, <1>b, <1>3, ThroughTyped
  <2> QED
    BY <2>1, <2>2, <2>3
<1> QED
  BY <1>1, <1>2, <1>3 DEF ImportCommits

LEMMA ProgressTables ==
  ASSUME TypeOK, TableOK, NEW x \in Syncers, Progress(x)
  PROVE  TableOK'
<1>a. Gated /\ TaskOK /\ RowsOK /\ OneTaskPerSession
  BY DEF TableOK
<1>b. phase' = phase /\ Idle.pc \notin Exporting /\ "answer" \notin Exporting
  BY DEF Progress, bridgeVars, Idle, Exporting
<1>1. CASE Export(x) /\ UNCHANGED <<storeVars, transcript>>
  <2>1. Gated'
    BY <1>1, <1>a, <1>b, ExportMoves DEF Gated, storeVars, taskVars
  <2> QED
    BY <1>1, <1>b, <2>1, TablesSameOK
<1>2. CASE ImportCommits(x)
  <2>1. /\ \A y \in Syncers \ {x} : sync'[y] = sync[y]
        /\ sync[x].pc = "snapshot"
        /\ sync'[x] = Idle \/ sync'[x].pc = "answer"
        /\ UNCHANGED <<msgVars, runVars, lockHolder>>
    BY <1>2, ImportMoves
  <2>2. DatabaseFree => Gated'
    BY <1>b, <2>1 DEF Gated, DatabaseFree
  <2>3. CASE UNCHANGED <<taskStatus, session>>
    <3>1. UNCHANGED storeVars
      BY <2>1, <2>3 DEF storeVars, taskVars
    <3>2. Gated'
      BY <1>a, <1>b, <2>1, <2>3 DEF Gated
    <3> QED
      BY <1>b, <3>1, <3>2, TablesSameOK
  <2>4. ASSUME DatabaseFree, NEW t \in Tasks, Linked \subseteq {t}, session'[t] = TheSession,
               \A u \in Tasks \ {t} :
                   taskStatus'[u] = taskStatus[u] /\ session'[u] = session[u]
        PROVE  TableOK'
    <3>1. TaskOK'
      BY <1>a, <2>4 DEF TaskOK
    <3>2. RowsOK'
      BY <1>a, <1>b, <2>1, <2>4 DEF RowsOK, Named, msgVars, runVars
    <3>3. OneTaskPerSession'
      BY <2>4 DEF OneTaskPerSession, Linked
    <3> QED
      BY <2>2, <2>4, <3>1, <3>2, <3>3 DEF TableOK
  <2> QED
    BY <1>2, <2>3, <2>4, ImportMoves
<1> QED
  BY <1>1, <1>2 DEF Progress

-----------------------------------------------------------------------------
(* Answers. *)

\* What was told stays so.
LEMMA ToldStays ==
  ASSUME index = "cli" => index' = "cli",
         rollout.source = "cli" => rollout'.source = "cli",
         \A t \in Linked : transcript[t] > 0 => t \in Linked' /\ transcript'[t] > 0,
         NEW o, Told(o)
  PROVE  Told(o)'
BY DEF Told, Linked

\* Neither is what a client or a synchronisation does a reason to take it back.
LEMMA Truths ==
  ASSUME Inv, [Next]_vars
  PROVE  /\ index = "cli" => index' = "cli"
         /\ rollout.source = "cli" => rollout'.source = "cli"
         /\ \A t \in Linked : transcript[t] > 0 => t \in Linked' /\ transcript'[t] > 0
<1>a. TypeOK /\ TableOK /\ StoreTypeOK /\ CodexTyped /\ AnswersOK
  BY TypeParts DEF Inv
<1>1. CASE TableStep
  <2>1. UNCHANGED <<codexVars, transcript>>
    BY <1>1 DEF TableStep, Chat, Claim, Launch, Return, CaptureRun, Finish, Submit, Recover,
       CaptureUnfinished, Poll, Advance, syncVars
  <2>2. session' = session
    <3>1. ASSUME NEW r \in RunIds, Finish(r) PROVE session' = session
      BY <3>1, <1>a, FinishTyped DEF Finish
    <3> QED
      BY <1>1, <3>1 DEF TableStep, Chat, Claim, Launch, Return, CaptureRun, Submit, Recover,
         CaptureUnfinished, Poll, QueueMessage, StopTask, ClaimMessage, RecoverInterrupted,
         storeVars, taskVars
  <2> QED
    BY <2>1, <2>2 DEF codexVars, Linked
<1>2. CASE ClientStep
  <2>1. UNCHANGED <<index, session, transcript>>
    BY <1>2 DEF ClientStep, Append, Archive, storeVars, taskVars, syncVars
  <2>2. rollout'.source = rollout.source
    BY <1>2, <1>a DEF ClientStep, Append, Archive, CodexTyped, Rollouts
  <2> QED
    BY <2>1, <2>2 DEF Linked
<1>3. CASE EndStep \/ \E x \in Syncers : BeginStep(x)
  BY <1>3 DEF EndStep, Answer, AnswerFails, CommandDies, Death, BeginStep, storeVars, taskVars, codexVars,
     Linked
<1>4. ASSUME NEW x \in Syncers, Progress(x)
      PROVE  /\ index = "cli" => index' = "cli"
             /\ rollout.source = "cli" => rollout'.source = "cli"
             /\ \A t \in Linked : transcript[t] > 0 => t \in Linked' /\ transcript'[t] > 0
  <2>1. CASE Export(x) /\ UNCHANGED <<storeVars, transcript>>
    <3>1. /\ index' \in {index, "cli"}
          /\ rollout' = rollout \/ rollout'.source = "cli"
      BY <2>1 DEF Export, ExportReads, ExportLocks, ExportChecks, ExportReplaces,
         ExportCommits, codexVars
    <3> QED
      BY <2>1, <3>1 DEF storeVars, taskVars, Linked
  <2>2. CASE ImportCommits(x) /\ UNCHANGED codexVars
    <3>1. sync[x].size > 0
      BY <1>a, <2>2, ImportMoves DEF AnswersOK, Honest
    <3>2. \A t \in Linked : transcript[t] > 0 => t \in Linked' /\ transcript'[t] > 0
      BY <1>a, <2>2, <3>1, ImportMoves DEF Linked
    <3> QED
      BY <2>2, <3>2 DEF codexVars
  <2> QED
    BY <1>4, <2>1, <2>2 DEF Progress
<1>5. CASE UNCHANGED vars
  BY <1>5 DEF vars, storeVars, taskVars, codexVars, syncVars, Linked
<1> QED
  BY <1>a, <1>1, <1>2, <1>3, <1>4, <1>5, FiveKinds

LEMMA AnswersStep ==
  ASSUME Inv, [Next]_vars
  PROVE  AnswersOK'
<1>a. TypeOK /\ TableOK /\ FileOK /\ AnswersOK /\ SyncTyped
  BY TypeParts DEF Inv
<1>b. \A o : Told(o) => Told(o)'
  BY Truths, ToldStays
<1>c. Told("none") /\ Told("refused") /\ Told("none")' /\ Told("refused")'
  BY DEF Told
<1>1. ASSUME UNCHANGED request, NEW x \in Syncers,
             \A y \in Syncers \ {x} : sync'[y] = sync[y], Honest(x)'
      PROVE  AnswersOK'
  <2>1. \A y \in Syncers \ {x} : Honest(y)'
    BY <1>a, <1>b, <1>1 DEF AnswersOK, Honest
  <2>2. \A q \in Requests : Told(request[q].outcome)'
    BY <1>a, <1>b, <1>1 DEF AnswersOK
  <2> QED
    BY <1>1, <2>1, <2>2 DEF AnswersOK
<1>2. ASSUME \A y \in Syncers : sync'[y] \in {sync[y], Idle},
             \A q \in Requests : request'[q].outcome = request[q].outcome
      PROVE  AnswersOK'
  <2>1. \A y \in Syncers : Honest(y)'
    BY <1>a, <1>b, <1>2 DEF AnswersOK, Honest, Idle
  <2>2. \A q \in Requests : Told(request[q].outcome)'
    BY <1>a, <1>b, <1>2 DEF AnswersOK
  <2> QED
    BY <2>1, <2>2 DEF AnswersOK
<1>3. CASE TableStep
  <2>1. sync' = sync
    BY <1>3 DEF TableStep, Chat, Claim, Launch, Return, CaptureRun, Finish, Submit, Recover,
       CaptureUnfinished, Poll, Advance, syncVars
  <2>2. \A q \in Requests : request'[q].outcome = request[q].outcome
    <3>1. ASSUME NEW R, request' = [q \in Requests |-> Captured(q, R)]
          PROVE  \A q \in Requests : request'[q].outcome = request[q].outcome
      <4>1. ASSUME NEW q \in Requests
            PROVE  Captured(q, R).outcome = request[q].outcome
        <5>1. request[q] \in RequestStates
          BY <1>a DEF SyncTyped
        <5> QED
          BY <5>1 DEF Captured, RequestStates
      <4> QED
        BY <3>1, <4>1
    <3>2. ASSUME NEW r \in RunIds, Submit(r)
          PROVE  \A q \in Requests : request'[q].outcome = request[q].outcome
      <4>1. PICK p \in Requests :
              request' = [request EXCEPT ![p] = [@ EXCEPT !.state = "spooled", !.run = script]]
        BY <3>2 DEF Submit
      <4>2. request[p] \in RequestStates
        BY <1>a DEF SyncTyped
      <4> QED
        BY <1>a, <4>1, <4>2 DEF SyncTyped, RequestStates
    <3>3. CASE request' = request
      BY <3>3
    <3> QED
      BY <1>3, <3>1, <3>2, <3>3
      DEF TableStep, Chat, Claim, Launch, Return, CaptureRun, Finish, Recover,
          CaptureUnfinished, Poll, syncVars
  <2> QED
    BY <1>2, <2>1, <2>2
<1>4. CASE ClientStep
  BY <1>2, <1>4 DEF ClientStep, Append, Archive, syncVars
<1>5. CASE AnswerFails \/ CommandDies \/ Death
  <2>1. \A y \in Syncers : sync'[y] \in {sync[y], Idle}
    BY <1>a, <1>5 DEF AnswerFails, CommandDies, Death, SyncTyped
  <2>2. request' = request
    BY <1>5 DEF AnswerFails, CommandDies, Death
  <2> QED
    BY <1>2, <2>1, <2>2
<1>6. CASE Answer
  <2>1. "watcher" \in Syncers
    BY DEF Syncers
  <2>2. Told(sync["watcher"].outcome)
    BY <1>a, <1>6, <2>1 DEF AnswersOK, Honest, Answer, At
  <2>3. \A y \in Syncers : sync'[y] \in {sync[y], Idle}
    BY <1>a, <1>6 DEF Answer, SyncTyped
  <2>4. \A q \in Requests : request'[q].outcome \in {request[q].outcome, sync["watcher"].outcome}
    <3>1. \A q \in Requests : request[q] \in RequestStates
      BY <1>a DEF SyncTyped
    <3> QED
      BY <1>a, <1>6, <3>1 DEF Answer, SyncTyped, RequestStates
  <2>5. \A y \in Syncers : Honest(y)'
    BY <1>a, <1>b, <2>3 DEF AnswersOK, Honest, Idle
  <2>6. \A q \in Requests : Told(request[q].outcome)'
    BY <1>a, <1>b, <2>2, <2>4 DEF AnswersOK
  <2> QED
    BY <2>5, <2>6 DEF AnswersOK
<1>7. ASSUME NEW x \in Syncers, BeginStep(x)
      PROVE  AnswersOK'
  <2>1. request' = request /\ Begun(x)
    BY <1>a, <1>7, BeginTypes DEF BeginStep
  <2>2. Honest(x)'
    BY <1>c, <2>1 DEF Begun, Honest
  <2> QED
    BY <1>1, <2>1, <2>2 DEF Begun
<1>8. ASSUME NEW x \in Syncers, Progress(x)
      PROVE  AnswersOK'
  <2>a. request' = request
    BY <1>8 DEF Progress
  <2>b. Honest(x)' \/ sync'[x] # Idle
    BY DEF Honest, Idle
  <2>1. CASE Export(x)
    <3>1. sync'[x].pc = "answer" /\ sync'[x].outcome = "exported" => Honest(x)'
      <4>1. Seen(x)
        BY <1>a DEF FileOK
      <4>2. sync'[x].pc = "answer" /\ sync'[x].outcome = "exported"
               => index' = "cli" /\ rollout' = rollout /\ sync[x].pc = "replaced"
        BY <1>a, <2>1, ExportMoves DEF Idle, Exporting
      <4> QED
        BY <4>1, <4>2 DEF Seen, Honest, Told
    <3>2. sync'[x].pc = "answer" /\ sync'[x].outcome = "refused" => Honest(x)'
      BY <1>c DEF Honest
    <3>3. sync'[x].pc \in Exporting => Honest(x)'
      BY DEF Honest, Exporting
    <3>4. Honest(x)'
      BY <1>a, <2>b, <2>1, <3>1, <3>2, <3>3, ExportMoves
    <3> QED
      BY <1>1, <1>a, <2>a, <2>1, <3>4, ExportMoves
  <2>2. CASE ImportCommits(x)
    <3>1. sync[x].size > 0
      BY <1>a, <2>2, ImportMoves DEF AnswersOK, Honest
    <3>2. sync'[x].outcome = "imported" => Told("imported")'
      BY <1>a, <2>2, <3>1, ImportMoves DEF Told, Linked
    <3>3. sync'[x].pc = "answer" => Told(sync[x].outcome)'
      <4>1. ASSUME NEW o, sync'[x].outcome = o, Told(o)'
            PROVE  Told(sync[x].outcome)'
        BY <4>1 DEF Told
      <4>2. sync'[x].outcome \in {"none", "refused", "imported"}
        BY <1>a, <2>2, ImportMoves
      <4> QED
        BY <1>c, <3>2, <4>1, <4>2
    <3>4. sync'[x].pc # "snapshot"
      BY <1>a, <2>2, ImportMoves DEF Idle
    <3>5. Honest(x)'
      BY <3>3, <3>4 DEF Honest
    <3> QED
      BY <1>1, <1>a, <2>a, <2>2, <3>5, ImportMoves
  <2> QED
    BY <1>8, <2>1, <2>2 DEF Progress
<1>9. CASE UNCHANGED vars
  BY <1>2, <1>9 DEF vars, syncVars
<1> QED
  BY <1>a, <1>3, <1>4, <1>5, <1>6, <1>7, <1>8, <1>9, FiveKinds DEF EndStep

-----------------------------------------------------------------------------
(* The theorems. *)

LEMMA InvStep == Inv /\ [Next]_vars => Inv'
<1> SUFFICES ASSUME Inv, [Next]_vars PROVE Inv'
  OBVIOUS
<1>a. TypeOK /\ FileOK /\ TableOK /\ Counted
  BY DEF Inv, FileOK
<1>1. AnswersOK'
  BY AnswersStep
<1>2. CASE TableStep
  <2>1. FileOK'
    <3>1. UNCHANGED codexVars /\ sync' = sync
      BY <1>2 DEF TableStep, Chat, Claim, Launch, Return, CaptureRun, Finish, Submit, Recover,
         CaptureUnfinished, Poll, Advance, syncVars
    <3> QED
      BY <1>a, <3>1, FileCalm
  <2> QED
    BY <1>a, <1>1, <1>2, <2>1, TableTypes, TableTables DEF Inv
<1>3. CASE ClientStep
  <2>1. TableOK'
    <3>1. UNCHANGED <<storeVars, phase, sync>>
      BY <1>3 DEF ClientStep, Append, Archive, bridgeVars, syncVars
    <3>2. Gated'
      BY <1>a, <3>1 DEF TableOK, Gated, storeVars, taskVars
    <3> QED
      BY <1>a, <3>1, <3>2, TablesSameOK
  <2> QED
    BY <1>a, <1>1, <1>3, <2>1, ClientTypes, ClientFile DEF Inv
<1>4. CASE EndStep
  BY <1>a, <1>1, <1>4, EndTypes, EndFile, EndTables DEF Inv
<1>5. ASSUME NEW x \in Syncers, BeginStep(x)
      PROVE  Inv'
  BY <1>a, <1>1, <1>5, BeginTypes, BeginFile, BeginTables DEF Inv
<1>6. ASSUME NEW x \in Syncers, Progress(x)
      PROVE  Inv'
  BY <1>a, <1>1, <1>6, ProgressTypes, ProgressFile, ProgressTables DEF Inv
<1>7. CASE UNCHANGED vars
  <2>1. UNCHANGED <<storeVars, bridgeVars, codexVars, syncVars>>
    BY <1>7 DEF vars
  <2>2. TypeOK'
    BY <1>a, <2>1, TypeParts, SameTyped
    DEF bridgeVars, codexVars, syncVars, BridgeTyped, CodexTyped, SyncTyped
  <2>3. FileOK'
    BY <1>a, <2>1, FileCalm DEF syncVars
  <2>4. Gated'
    BY <1>a, <2>1 DEF TableOK, Gated, storeVars, taskVars, syncVars
  <2>5. TableOK'
    BY <1>a, <2>1, <2>4, TablesSameOK DEF bridgeVars
  <2> QED
    BY <1>1, <2>2, <2>3, <2>5 DEF Inv
<1> QED
  BY <1>a, <1>2, <1>3, <1>4, <1>5, <1>6, <1>7, FiveKinds

LEMMA Invariance == Spec => []Inv
<1>1. Init => Inv
  BY InvInit
<1>2. Inv /\ [Next]_vars => Inv'
  BY InvStep
<1> QED
  BY <1>1, <1>2, PTL DEF Spec

\* Rows, requests, locks and files keep their types; no export counts more
\* records than clients wrote.
THEOREM TypeCorrect == Spec => []TypeOK
<1>1. Inv => TypeOK
  BY DEF Inv
<1> QED
  BY <1>1, Invariance, PTL

\* import_codex_session gives a session one task, however many processes
\* import it at once.
THEOREM SessionHasOneTask == Spec => []OneTaskPerSession
<1>1. Inv => OneTaskPerSession
  BY DEF Inv, TableOK
<1> QED
  BY <1>1, Invariance, PTL

\* make_visible loses at most what is appended between its last look at the
\* file and os.replace, or written to the replaced file by a client that holds
\* it open.
THEOREM LossIsConfined == Spec => []LossWindow
<1>1. Inv => LossWindow
  BY DEF Inv, FileOK
<1> QED
  BY <1>1, Invariance, PTL

\* A death between any two steps of make_visible leaves what the next
\* synchronisation repairs, and the backup of what was replaced.
THEOREM AlwaysRepairable == Spec => []Repairable
<1>1. Inv => Repairable
  BY DEF Inv, FileOK
<1> QED
  BY <1>1, Invariance, PTL

\* The notice of a synchronisation that succeeded is true, and stays so.
THEOREM NoticesAreTrue == Spec => []SuccessIsVisible
<1>1. Inv => SuccessIsVisible
  BY DEF Inv, AnswersOK, Told, SuccessIsVisible
<1> QED
  BY <1>1, Invariance, PTL

\* make_visible looks for the archive flag again under the lock of the index:
\* an archived session's file, index entry and backup stay as they are.
THEOREM ArchivedIsLeftAlone == Spec => ArchivedUntouched
<1>1. ASSUME Inv, [Next]_vars, archived
      PROVE  rollout'.ino = rollout.ino /\ UNCHANGED <<index, backup>>
  <2>a. /\ TypeOK /\ rollout \in Rollouts
        /\ \A x \in Syncers : ~ InIndex(x)
    BY <1>1 DEF Inv, TypeOK, FileOK, IndexHeld, Rollouts
  <2>1. CASE Append
    <3>1. \/ rollout' = rollout
          \/ \E a \in BOOLEAN :
                rollout' = [rollout EXCEPT !.size = @ + 1, !.active = a]
      BY <2>1 DEF Append
    <3> QED
      BY <2>1, <2>a, <3>1 DEF Append, Rollouts
  <2>2. CASE UNCHANGED <<rollout, index, backup>>
    BY <2>2
  <2>3. ASSUME NEW x \in Syncers, Progress(x)
        PROVE  UNCHANGED <<rollout, index, backup>>
    BY <2>a, <2>3
    DEF Progress, Export, ExportReads, ExportLocks, ExportChecks, ExportReplaces, ExportCommits,
        At, InIndex, CodexLocked, codexVars
  <2> QED
    BY <1>1, <2>a, <2>1, <2>2, <2>3, FiveKinds
    DEF TableStep, ClientStep, EndStep, BeginStep, Archive, Chat, Claim, Launch, Return,
        CaptureRun, Finish, Submit, Recover, CaptureUnfinished, Poll, Answer, AnswerFails, CommandDies, Death,
        codexVars, vars
<1> QED
  BY <1>1, Invariance, PTL DEF ArchivedUntouched, Spec

\* The write lock of the bot's database that an export takes with its idle
\* check, and the look of an import's transaction at the status, keep both
\* off a task at work.
THEOREM NoWorkIsDisturbed == Spec => WorkUndisturbed
<1>1. ASSUME Inv, [Next]_vars, NEW x \in Syncers, sync[x].mine, sync[x].pc \in Exporting
      PROVE  taskStatus'[sync[x].task] \notin {"queued", "running"}
  <2>a. TypeOK /\ TableOK /\ taskStatus[sync[x].task] \notin {"queued", "running"} /\ ~ DatabaseFree
    BY <1>1 DEF Inv, TableOK, Gated, DatabaseFree
  <2>1. CASE TableStep
    <3>1. taskStatus' = taskStatus
      BY <2>a, <2>1
      DEF TableStep, Chat, Claim, Launch, Return, CaptureRun, Finish, Submit, Recover,
          CaptureUnfinished, Poll, storeVars, taskVars
    <3> QED
      BY <2>a, <3>1
  <2>2. ASSUME NEW y \in Syncers, Progress(y)
        PROVE  taskStatus' = taskStatus
    BY <2>a, <2>2 DEF Progress, ImportCommits, storeVars, taskVars
  <2>3. CASE ClientStep \/ EndStep \/ (\E y \in Syncers : BeginStep(y)) \/ UNCHANGED vars
    <3>1. taskStatus' = taskStatus
      BY <2>3 DEF ClientStep, Append, Archive, EndStep, Answer, AnswerFails, CommandDies, Death, BeginStep,
         vars, storeVars, taskVars
    <3> QED
      BY <2>a, <3>1
  <2> QED
    BY <1>1, <2>a, <2>1, <2>2, <2>3, FiveKinds
<1>2. ASSUME Inv, [Next]_vars, NEW t \in Tasks, taskStatus[t] \in {"queued", "running"}
      PROVE  transcript'[t] = transcript[t]
  <2>a. TypeOK /\ TableOK
    BY <1>2 DEF Inv
  <2>1. ASSUME NEW y \in Syncers, Progress(y)
        PROVE  transcript'[t] = transcript[t]
    <3>1. CASE ImportCommits(y)
      BY <1>2, <2>a, <3>1, ImportMoves
    <3>2. CASE transcript' = transcript
      BY <3>2
    <3> QED
      BY <2>1, <3>1, <3>2 DEF Progress
  <2> QED
    BY <1>2, <2>a, <2>1, FiveKinds
    DEF TableStep, ClientStep, EndStep, BeginStep, Append, Archive, Chat, Claim, Launch, Return,
        CaptureRun, Finish, Submit, Recover, CaptureUnfinished, Poll, Answer, AnswerFails, CommandDies, Death,
        syncVars, vars
<1>3. Inv /\ [Next]_vars =>
        /\ \A x \in Syncers :
              sync[x].mine /\ sync[x].pc \in Exporting
                 => taskStatus'[sync[x].task] \notin {"queued", "running"}
        /\ \A t \in Tasks :
              taskStatus[t] \in {"queued", "running"}
                 => transcript'[t] = transcript[t]
  BY <1>1, <1>2
<1> QED
  BY <1>3, Invariance, PTL DEF WorkUndisturbed, Spec
===========================================================================
