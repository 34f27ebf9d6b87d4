----------------------------- MODULE SessionSync -----------------------------
(***************************************************************************)
(* The synchronisation of one Codex session with the tasks of one bot:     *)
(* agents ask for it through a spool directory, the bridge freezes the     *)
(* requests of a run at its end (SyncSpoolWatcher.capture_run) and carries *)
(* them out when the task is idle (poll_once); the terminal commands       *)
(* sync-feishu-to-codex and sync-codex-to-feishu do the same without a     *)
(* request.  Tasks, messages and runs are those of StateStore.             *)
(*                                                                         *)
(* An export holds the write lock of the bot's database from its idle      *)
(* check to its end, and from the middle on that of Codex's own index;     *)
(* meanwhile Codex clients append to the rollout file whenever they like.  *)
(* An import takes its snapshot first and then one transaction.            *)
(*                                                                         *)
(* The session begins as one of Codex that no task has; a task comes by    *)
(* importing it, so runs resume it and never open another.  The task that  *)
(* an import names as its destination is some other one, left out.         *)
(***************************************************************************)
EXTENDS StateStore

CONSTANTS
    MaxRequests,   \* bound: requests that agents spool
    MaxRecords,    \* bound: appends of Codex clients to the rollout
    MaxCommands,   \* bound: terminal commands
    MaxDeaths      \* bound: deaths of the bridge

ASSUME SyncAssumption ==
    /\ MaxRequests \in Nat /\ MaxRecords \in Nat
    /\ MaxCommands \in Nat /\ MaxDeaths \in Nat
    /\ MaxMessages > 0
    /\ \E b \in Bots : Bots = {b}

Requests == 1 .. MaxRequests
Syncers == {"watcher", "cli"}      \* the bridge's thread, a terminal command
TheSession == 1                    \* what column session_id holds for it

VARIABLES
    life,        \* "up", "down" or "starting"
    deaths,
    phase,       \* where Scheduler._run_claim is with a run
    script,      \* the run whose directory the project's scripts write to
    request,     \* the requests, as files and as rows
    batch,       \* what poll_once has read and not yet answered
    sync,        \* how far a synchronisation got
    commands,    \* terminal commands so far
    rollout,     \* the session's file
    index,       \* threads.source of the session in Codex's index
    archived,    \* threads.archived
    backup,      \* whether the backup file is there
    wrote, late, \* records appended ever; those that came too late: after an
                 \* export's last look, or to a file that it has replaced
    transcript   \* how many records a task's imported history has

bridgeVars == <<life, deaths, phase, script>>
codexVars == <<rollout, index, archived, backup, wrote, late>>
syncVars == <<request, batch, sync, commands, transcript>>
vars == <<storeVars, bridgeVars, codexVars, syncVars>>

Exporting == {"gated", "read", "locked", "checked", "replaced"}
Outcomes == {"none", "refused", "exported", "imported"}
CodexLocked == {"locked", "checked", "replaced"}
\* mine: it works on this bot's database, not on that of another bot.
Idle == [pc |-> "idle", mine |-> TRUE, req |-> 0, task |-> NoTask, size |-> 0,
         ino |-> 0, source |-> "exec", outcome |-> "none"]

SyncStates ==
    [pc : Exporting \cup {"idle", "snapshot", "answer"}, mine : BOOLEAN,
     req : Requests \cup {0}, task : Tasks \cup {NoTask},
     size : 0 .. MaxRecords, ino : Nat, source : {"exec", "cli"},
     outcome : Outcomes]

TypeOK ==
    /\ StoreTypeOK
    /\ life \in {"up", "down", "starting"}
    /\ deaths \in 0 .. MaxDeaths
    /\ phase \in [RunIds -> {"none", "claimed", "live", "returned",
                             "captured", "over"}]
    /\ script \in RunIds \cup {0}
    /\ request \in [Requests ->
          [state : {"none", "spooled", "captured", "answered"},
           run : RunIds \cup {0}, outcome : Outcomes]]
    /\ batch \subseteq Requests
    /\ sync \in [Syncers -> SyncStates]
    /\ commands \in 0 .. MaxCommands
    /\ rollout \in [ino : Nat, size : 0 .. MaxRecords,
                    source : {"exec", "cli"}, active : BOOLEAN]
    /\ index \in {"exec", "cli"}
    /\ archived \in BOOLEAN
    /\ backup \in BOOLEAN
    /\ wrote \in 0 .. MaxRecords /\ late \in 0 .. MaxRecords
    /\ transcript \in [Tasks -> 0 .. MaxRecords]

Init ==
    /\ StoreInit
    /\ life = "up" /\ deaths = 0
    /\ phase = [r \in RunIds |-> "none"]
    /\ script = 0
    /\ request = [q \in Requests |->
                    [state |-> "none", run |-> 0, outcome |-> "none"]]
    /\ batch = {}
    /\ sync = [x \in Syncers |-> Idle]
    /\ commands = 0
    /\ index \in {"exec", "cli"}
    /\ rollout = [ino |-> 0, size |-> 0, source |-> index, active |-> FALSE]
    /\ archived = FALSE
    /\ backup = FALSE
    /\ wrote = 0 /\ late = 0
    /\ transcript = [t \in Tasks |-> 0]

At(x, pc) == sync[x].pc = pc

-----------------------------------------------------------------------------
(* Locks.  What the bridge writes it writes in a transaction on its        *)
(* database, which waits while an export holds that.  Behind the bridge's  *)
(* own export a thread waits until its end; behind that of a terminal      *)
(* command sqlite gives up after five seconds: then a message is not       *)
(* queued, a synchronisation is refused, an answer is left for the next    *)
(* poll, and an error in the course of a run ends the bridge (Death).      *)

\* Mutation of DatabaseFree: the idle check is not followed by a lock.
DatabaseNeverHeld == TRUE

DatabaseFree ==
    \A x \in Syncers : sync[x].mine => sync[x].pc \notin Exporting
IndexFree == \A x \in Syncers : sync[x].pc \notin CodexLocked

-----------------------------------------------------------------------------
(* Messages and runs. *)

Chat ==
    /\ life = "up" /\ DatabaseFree
    /\ \E t \in Tasks :
          \/ QueueMessage(t, "message")
          \/ taskStatus[t] \in {"queued", "running"} /\ StopTask(t)
    /\ UNCHANGED <<bridgeVars, codexVars, syncVars>>

Claim ==
    /\ life = "up" /\ DatabaseFree
    /\ \E b \in Bots, m \in MessageIds : ClaimMessage(b, m)
    /\ phase' = [phase EXCEPT ![nextRun] = "claimed"]
    /\ UNCHANGED <<life, deaths, script, codexVars, syncVars>>

Advance(r, from, to) ==
    /\ phase[r] = from
    /\ phase' = [phase EXCEPT ![r] = to]
    /\ UNCHANGED <<life, deaths>>

\* register_agent_sync, the scripts with the run's token, the agent.
Launch(r) ==
    /\ Advance(r, "claimed", "live") /\ DatabaseFree
    /\ script' = r
    /\ UNCHANGED <<storeVars, codexVars, syncVars>>

\* The agent ends by itself or by /stop.
Return(r) ==
    /\ Advance(r, "live", "returned")
    /\ UNCHANGED <<storeVars, script, codexVars, syncVars>>

\* The requests that lie in the run's directory become rows.
Captured(q, runs) ==
    IF request[q].state = "spooled" /\ request[q].run \in runs
    THEN [request[q] EXCEPT !.state = "captured"] ELSE request[q]

CaptureRun(r) ==
    /\ Advance(r, "returned", "captured") /\ DatabaseFree
    /\ request' = [q \in Requests |-> Captured(q, {r})]
    /\ UNCHANGED <<storeVars, script, codexVars, batch, sync, commands,
                   transcript>>

Finish(r) ==
    /\ Advance(r, "captured", "over") /\ DatabaseFree
    /\ FinishRun(r, NoSession)
    /\ UNCHANGED <<script, codexVars, syncVars>>

\* An agent runs a script of its project, which writes to the directory of
\* the run that was launched last.
Submit(r) ==
    /\ phase[r] = "live"
    /\ \E q \in Requests :
          /\ request[q].state = "none"
          /\ \A p \in Requests : p < q => request[p].state # "none"
          /\ request' = [request EXCEPT ![q] = [@ EXCEPT !.state = "spooled", !.run = script]]
    /\ UNCHANGED <<storeVars, bridgeVars, codexVars, batch, sync, commands,
                   transcript>>

-----------------------------------------------------------------------------
(* Codex clients: the agents, and others that know nothing of the bridge. *)

\* A turn begins, goes on or ends; a client that holds a file open which was
\* replaced writes to it in vain.
Append ==
    /\ wrote < MaxRecords
    /\ wrote' = wrote + 1
    /\ \/ /\ late' = late + (IF \E x \in Syncers : At(x, "checked") THEN 1 ELSE 0)
          /\ \E a \in BOOLEAN :
                rollout' = [rollout EXCEPT !.size = @ + 1, !.active = a]
       \/ /\ rollout.ino > 0
          /\ late' = late + 1
          /\ UNCHANGED rollout
    /\ UNCHANGED <<storeVars, bridgeVars, index, archived, backup, syncVars>>

Archive ==
    /\ ~ archived /\ IndexFree
    /\ archived' = TRUE
    /\ UNCHANGED <<storeVars, bridgeVars, rollout, index, backup, wrote, late, syncVars>>

-----------------------------------------------------------------------------
(* An export: sync_feishu_to_codex with make_visible. *)

\* A terminal command that is through is forgotten, the watcher goes on to
\* tell the chat.
Through(x, outcome) ==
    sync' = [sync EXCEPT ![x] =
               IF x = "cli" THEN Idle
               ELSE [Idle EXCEPT !.pc = "answer", !.req = sync[x].req,
                                 !.outcome = outcome]]

GoesTo(x, pc) == sync' = [sync EXCEPT ![x].pc = pc]

\* idle_task_for_sync.
IdleForSync(t) ==
    /\ DatabaseFree
    /\ taskStatus[t] \notin {"absent", "queued", "running"}
    /\ session[t] = TheSession

ExportBegins(x, q, t) ==
    /\ At(x, "idle") /\ IdleForSync(t) /\ ~ archived
    /\ sync' = [sync EXCEPT ![x] = [@ EXCEPT !.pc = "gated", !.req = q, !.task = t]]

\* A task of another bot has the session too, and is idle over there.
ForeignExportBegins ==
    /\ At("cli", "idle") /\ ~ archived
    /\ sync' = [sync EXCEPT !["cli"] = [@ EXCEPT !.pc = "gated", !.mine = FALSE]]

\* snapshot: one state of the file, whose last turn has ended.
Snapshot(x, pc) ==
    sync' = [sync EXCEPT ![x] = [@ EXCEPT !.pc = pc, !.size = rollout.size,
                                 !.ino = rollout.ino, !.source = rollout.source]]

ExportReads(x) ==
    /\ At(x, "gated")
    /\ IF rollout.active THEN Through(x, "refused") ELSE Snapshot(x, "read")
    /\ UNCHANGED codexVars

\* Mutations of ExportLocks: archived sessions go on; they count as done.
ExportLocksOnly(x) ==
    /\ At(x, "read") /\ IndexFree
    /\ GoesTo(x, IF sync[x].source = "cli" THEN "replaced" ELSE "locked")
    /\ UNCHANGED codexVars
ExportSkipsArchived(x) ==
    /\ At(x, "read") /\ IndexFree
    /\ IF archived THEN Through(x, "exported")
       ELSE GoesTo(x, IF sync[x].source = "cli" THEN "replaced" ELSE "locked")
    /\ UNCHANGED codexVars

\* BEGIN IMMEDIATE on the index, which may fail while another export holds
\* it, then look again.  A file that says "cli" already only has its index
\* entry repaired.
ExportLocks(x) ==
    /\ At(x, "read")
    /\ \/ (archived \/ ~ IndexFree) /\ Through(x, "refused")
       \/ /\ ~ archived /\ IndexFree
          /\ GoesTo(x, IF sync[x].source = "cli" THEN "replaced" ELSE "locked")
    /\ UNCHANGED codexVars

\* Mutation of SameFile: no last look.
SameFileSurely(x) == TRUE

SameFile(x) == sync[x].size = rollout.size /\ sync[x].ino = rollout.ino

\* Mutation of ExportChecks: the index is committed before the file.
ExportIndexFirst(x) ==
    /\ At(x, "locked")
    /\ backup' = TRUE
    /\ IF SameFile(x)
       THEN GoesTo(x, "checked") /\ index' = "cli"
       ELSE Through(x, "refused") /\ UNCHANGED index
    /\ UNCHANGED <<rollout, archived, wrote, late>>

\* The backup, the new file under a temporary name, and a last look.
ExportChecks(x) ==
    /\ At(x, "locked")
    /\ backup' = TRUE
    /\ IF SameFile(x) THEN GoesTo(x, "checked") ELSE Through(x, "refused")
    /\ UNCHANGED <<rollout, index, archived, wrote, late>>

\* os.replace: the file is what the snapshot was, with another source.
ExportReplaces(x) ==
    /\ At(x, "checked")
    /\ rollout' = [ino |-> rollout.ino + 1, size |-> sync[x].size,
                   source |-> "cli", active |-> FALSE]
    /\ GoesTo(x, "replaced")
    /\ UNCHANGED <<index, archived, backup, wrote, late>>

ExportCommits(x) ==
    /\ At(x, "replaced")
    /\ index' = "cli"
    /\ Through(x, "exported")
    /\ UNCHANGED <<rollout, archived, backup, wrote, late>>

Export(x) ==
    \/ ExportReads(x) \/ ExportLocks(x) \/ ExportChecks(x)
    \/ ExportReplaces(x) \/ ExportCommits(x)

-----------------------------------------------------------------------------
(* An import: sync_codex_to_feishu with import_codex_session. *)

ImportBegins(x, q) ==
    /\ At(x, "idle") /\ ~ archived
    /\ ~ rollout.active /\ rollout.size > 0
    /\ sync' = [sync EXCEPT ![x] = [Idle EXCEPT !.pc = "snapshot", !.req = q,
                                                !.size = rollout.size]]

Linked == {t \in Tasks : session[t] = TheSession}
NewTask == {t \in Tasks : t = CHOOSE u \in Tasks : taskStatus[u] = "absent"}

\* Mutation of Importable: a link that another process made is overlooked.
ImportableUnlinked == NewTask

\* Where the transcript may go: the one task of the session, unless it is
\* at work, or a new task.
Importable ==
    IF Linked = {} THEN NewTask
    ELSE {t \in Linked :
             Linked = {t} /\ taskStatus[t] \notin {"queued", "running"}}

\* One transaction; an archived session is looked for just before it.
ImportCommits(x) ==
    /\ At(x, "snapshot")
    /\ \/ /\ archived \/ Importable = {} \/ ~ DatabaseFree
          /\ Through(x, "refused")
          /\ UNCHANGED <<taskStatus, session, transcript>>
       \/ \E t \in Importable :
             /\ DatabaseFree
             /\ taskStatus' = [taskStatus EXCEPT
                                  ![t] = IF @ = "absent" THEN "finished" ELSE @]
             /\ session' = [session EXCEPT ![t] = TheSession]
             /\ transcript' = [transcript EXCEPT ![t] = sync[x].size]
             /\ Through(x, "imported")
    /\ UNCHANGED <<msgVars, runVars, lockHolder>>

-----------------------------------------------------------------------------
(* The watcher and the terminal command. *)

\* Mutation of Pending: only after a run that ended well.
PendingOfFinished ==
    {q \in Requests :
        /\ request[q].state = "captured"
        /\ runStatus[request[q].run] # "running"
        /\ taskStatus[runTask[request[q].run]] = "finished"}

\* The rows that poll_once goes through: answered ones, those of a run not
\* settled and those of a task at work are left for later.  A read waits for
\* no other process.
Pending ==
    {q \in Requests :
        /\ request[q].state = "captured"
        /\ runStatus[request[q].run] # "running"
        /\ taskStatus[runTask[request[q].run]] \notin {"queued", "running"}}

Poll ==
    /\ life = "up"
    /\ At("watcher", "idle") /\ batch = {} /\ Pending # {}
    /\ batch' = Pending
    /\ UNCHANGED <<storeVars, bridgeVars, codexVars, request, sync, commands,
                   transcript>>

\* The user may have lost the authorisation and the request may name what
\* is not his; else what the request asks for is tried, or refused.  An
\* export that finds the database locked is refused too.
WatcherBegins(q) ==
    /\ life = "up" /\ At("watcher", "idle") /\ q \in batch
    /\ \/ sync' = [sync EXCEPT !["watcher"] =
                      [Idle EXCEPT !.pc = "answer", !.req = q, !.outcome = "refused"]]
       \/ \E t \in Tasks : ExportBegins("watcher", q, t)
       \/ ImportBegins("watcher", q)
    /\ UNCHANGED <<storeVars, bridgeVars, codexVars, request, batch, commands,
                   transcript>>

CommandBegins ==
    /\ commands < MaxCommands
    /\ commands' = commands + 1
    /\ \/ \E t \in Tasks : ExportBegins("cli", 0, t)
       \/ ForeignExportBegins
       \/ ImportBegins("cli", 0)
    /\ UNCHANGED <<storeVars, bridgeVars, codexVars, request, batch, transcript>>

\* finish_agent_sync: row and notice in one transaction.
Answer ==
    LET q == sync["watcher"].req IN
    /\ At("watcher", "answer") /\ DatabaseFree
    /\ request' = [request EXCEPT ![q] = [@ EXCEPT !.state = "answered",
                                                   !.outcome = sync["watcher"].outcome]]
    /\ batch' = batch \ {q}
    /\ sync' = [sync EXCEPT !["watcher"] = Idle]
    /\ UNCHANGED <<storeVars, bridgeVars, codexVars, commands, transcript>>

\* The database is locked by a terminal command for too long: the poll is
\* given up, and with the next one the request is carried out again.
AnswerFails ==
    /\ At("watcher", "answer") /\ ~ DatabaseFree
    /\ sync' = [sync EXCEPT !["watcher"] = Idle]
    /\ batch' = {}
    /\ UNCHANGED <<storeVars, bridgeVars, codexVars, request, commands, transcript>>

Progress(x) ==
    /\ \/ Export(x) /\ UNCHANGED <<storeVars, transcript>>
       \/ ImportCommits(x) /\ UNCHANGED codexVars
    /\ UNCHANGED <<bridgeVars, request, batch, commands>>

\* The terminal command is killed: its locks are gone, its files stay.
CommandDies ==
    /\ ~ At("cli", "idle")
    /\ sync' = [sync EXCEPT !["cli"] = Idle]
    /\ UNCHANGED <<storeVars, bridgeVars, codexVars, request, batch, commands,
                   transcript>>

-----------------------------------------------------------------------------
(* The life of the bridge. *)

\* With it go its agents and its watcher, in the middle of an export too.
Death ==
    /\ life # "down" /\ deaths < MaxDeaths
    /\ life' = "down" /\ deaths' = deaths + 1
    /\ phase' = [r \in RunIds |-> IF phase[r] = "none" THEN "none" ELSE "over"]
    /\ sync' = [sync EXCEPT !["watcher"] = Idle]
    /\ batch' = {}
    /\ UNCHANGED <<storeVars, script, codexVars, request, commands, transcript>>

\* BridgeService.run first captures for the runs whose row says running ...
CaptureUnfinished ==
    /\ life = "down"
    /\ DatabaseFree
    /\ life' = "starting"
    /\ request' = [q \in Requests |->
                     Captured(q, {r \in RunIds : runStatus[r] = "running"})]
    /\ UNCHANGED <<storeVars, deaths, phase, script, codexVars, batch, sync,
                   commands, transcript>>

\* ... and then settles those of running tasks.
Recover ==
    /\ life = "starting"
    /\ DatabaseFree
    /\ \E b \in Bots : RecoverInterrupted(b)
    /\ life' = "up"
    /\ UNCHANGED <<deaths, phase, script, codexVars, syncVars>>

-----------------------------------------------------------------------------
LoopStep ==
    \/ Claim \/ CaptureUnfinished \/ Recover \/ Poll \/ Answer \/ AnswerFails
    \/ \E r \in RunIds : Launch(r) \/ Return(r) \/ CaptureRun(r) \/ Finish(r)
    \/ \E q \in Requests : WatcherBegins(q)
    \/ Progress("watcher")

Next ==
    \/ LoopStep \/ Progress("cli") \/ CommandBegins \/ CommandDies
    \/ Chat \/ Append \/ Archive \/ Death
    \/ \E r \in RunIds : Submit(r)

Spec == Init /\ [][Next]_vars

(* The event loop and the watcher thread go on, agents end, and a terminal
   command that has begun ends. *)
FairSpec == Spec /\ WF_vars(LoopStep) /\ WF_vars(Progress("cli"))

-----------------------------------------------------------------------------
(* Properties. *)

\* However many commands import the session at once, and whatever the one
\* saw before the other's transaction, the bot has one task for it.
OneTaskPerSession == \A t, u \in Linked : t = u

\* From its idle check to its commit an export keeps messages and claims of
\* its task out, over all processes that open the database, and an import
\* never rewrites the history of a task that has been queued since it looked.
WorkUndisturbed ==
    [][/\ \A x \in Syncers :
             sync[x].mine /\ sync[x].pc \in Exporting
                => taskStatus'[sync[x].task] \notin {"queued", "running"}
       /\ \A t \in Tasks :
             taskStatus[t] \in {"queued", "running"}
                => transcript'[t] = transcript[t]]_vars

\* make_visible loses nothing of the file but what a client appends between
\* the last look and os.replace, or goes on writing to the file that was
\* replaced, which it holds open; with two bots exporting at once too.
LossWindow == wrote <= rollout.size + late

\* At any moment a death leaves what a repetition repairs: the index never
\* says "cli" before the file does, and a file we changed has its backup.
Repairable ==
    /\ index = "cli" => rollout.source = "cli"
    /\ rollout.ino > 0 => backup

\* A session that Codex has archived is never touched again.
ArchivedUntouched ==
    [][archived => rollout'.ino = rollout.ino /\ UNCHANGED <<index, backup>>]_vars

\* The chat is told of success only when the session is visible, or a task
\* has it.
SuccessIsVisible ==
    \A q \in Requests :
        /\ request[q].outcome = "exported"
              => index = "cli" /\ rollout.source = "cli"
        /\ request[q].outcome = "imported"
              => \E t \in Linked : transcript[t] > 0

\* A request whose run is settled is answered, over deaths of the bridge.
SettledIsAnswered ==
    \A q \in Requests :
        (request[q].state = "captured" /\ runStatus[request[q].run] # "running")
            ~> request[q].state = "answered"

\* core/session_sync.py tells the agent that the bridge synchronises "after
\* this turn and notifies Feishu": a request that was taken over is answered.
CapturedIsAnswered ==
    \A q \in Requests :
        request[q].state = "captured" ~> request[q].state = "answered"
=============================================================================
