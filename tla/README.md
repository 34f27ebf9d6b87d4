# AgentMessage in TLA+

AgentMessage is a bridge: users write to a Feishu bot, the bridge turns their
messages into turns of a Codex CLI agent in a configured project, and sends the
agent's answers back. One bridge process serves one bot; several bots of one
host may share one project. This directory holds a formal model of the bridge:
TLA+ modules, TLC configurations and proofs checked by TLAPS. Paths below are
relative to the repository; `state.py` and the like are under
`src/agent_message/`.

## 1. The system

### Components

| component | state | operations | behaviour that is hard |
|---|---|---|---|
| State store (`core/state.py`) | SQLite tables of tasks, messages, runs, jobs, outbox, inbound events, sync requests; open descriptors of project locks | one transaction per method, all under one RLock | callers combine several transactions; statuses of three tables must agree; rows survive the process |
| Scheduler (`orchestration/scheduler.py`, `agents/base.py`) | coroutines of runs, pid and session of each run | claim loop, one coroutine per run, `stop` | a stop, a new message and a late end of a run in any order |
| Bridge process (`orchestration/service.py`, `deploy/agent-message.service`) | event loop, receive thread, outbox loop, watchers | start, recovery, delivery, death, restart | messages before recovery, agents that outlive the bridge |
| Router and commands (`orchestration/router.py`, `commands.py`) | none of its own | one handler per command | checks and acts in different transactions |
| Outbox (`service.py`, `state.py`) | rows `pending`, `sent`, `failed` | enqueue, send, retry, give up | at least once, order, a head that blocks |
| Inbound events (`router.py`, `state.py`) | message ids seen | register, then carry out | a death between the two |
| File transfer (`core/transfer.py`, `orchestration/spool.py`, `assets/send-to-feishu.sh`) | request and result files in the project | script asks and polls, watcher sends | timeouts racing answers, stale files |
| Session title sync (`orchestration/sync_spool.py`, `core/session_sync.py`, `agents/codex_sessions.py`) | request files, rows with results, rollout file, Codex's index, backups | capture, idle gate, export, import, answer | three kinds of process and one file; locks of two databases; requests that outlive their run |
| Sandbox and container jobs (`runtimes/*`) | job rows, process groups, containers | tool call, runner, stop, progress, recovery | four writers of one row; commands that survive signals |
| Terminal commands (`cli.py`) | none | sync in both directions, resume, register, listings | a second process on a live bridge's database |
| Codex adapter and compaction (`agents/codex.py`, `agents/compact.py`) | app-server exchange, output stream | parse, compact | reordered events, deadlines, a server that will not end |
| Model selection (`router.py`, `model_catalog.py`) | two settings | `/model` | none over time |
| Configuration, bot registry (`core/config.py`, `core/bot_registry.py`) | files | load, register, unregister | the text of three files |
| Feishu gateway (`channels/feishu.py`) | none | HTTP and SDK | I/O only |

### How they interact

The Feishu SDK calls `BridgeService.receive` on a thread of its own, which calls
`MessageRouter.handle`; both use the store directly, so the receive thread
interleaves with everything else between any two transactions. The scheduler's
claim loop polls the store once a second and starts a coroutine per claimed
run; the coroutine starts the agent, records its pid, reads its output and calls
`finish_run`. `/stop` first changes the tables on the receive thread and then
submits `Scheduler.stop` to the event loop, which looks up the newest pid,
marks the rows of jobs and signals. Different bots have different processes and
databases; they meet only in the `flock` of the shared project's lock file. When
a bridge dies the database stays, its locks are dropped by the kernel, its
agents live until systemd has emptied the control group, and the next process
recovers what the tables say was running.

An agent reaches back in three ways: through a tool server of its own, which
writes job rows into the bridge's database; through a script that lays a file
request into the project; through scripts that lay synchronisation requests into
a directory of the run. The bridge freezes the last when the run ends and
carries them out when the task is idle. A terminal command does the same from a
process of its own at any time, and Codex clients write to the same sessions
without asking anybody.

### What has to be right

* The three tables agree: no queued task without a message to claim, no waiting
  message in a task nobody will look at, no running task without a coroutine.
* Messages of one project of one bot are first come first served and each is run
  at most once, over crashes too.
* Runs of the shared project exclude each other over all bots.
* What the user was told is final: the end of a message, a stopped task, and, as
  long as its agent lives, the end of a job.
* A task keeps its session; a compaction has one, and says success only of a
  session that was compacted.
* A message is carried out at most once, its replies come in order and not more
  often than they are attempted; what is dropped is dropped for good.
* A file goes to Feishu at most once, and a script reports success only if one was
  sent under the name it asked with.
* An agent runs one command at a time, and no command lives on behind a row that
  says it has ended, but for the cases the code gives up (a runner that breaks, a
  container whose docker client dies first).
* A session has one task; synchronising it disturbs no work, loses of what Codex
  wrote only what no look at the file could show, and can be repeated after a death
  at any point.
* Nothing waits for ever: messages, replies, file and sync requests, tool calls
  and compactions end.

## 2. Modules

| module | models |
|---|---|
| `StateStore` | tables of tasks, messages and runs, each transaction one operator; the project lock |
| `Scheduler` | claim loop, coroutine of a run, `Scheduler.stop`, the agent process |
| `Bridge` | receive thread, event loop and process life of every bot, composed: `Spec` |
| `SerialTurns` | abstract specification: lanes, first come first served, exclusive sites |
| `BridgeProperties` | properties, refinement mapping, fairness |
| `MCPrivate`, `MCShared` | instances for TLC: one bot with a private project, two bots with the shared one |
| `BridgeProofs` | inductive invariant and the theorems that follow from it |
| `TurnsProofs` | the proof that `Bridge` implements `SerialTurns`; that a queue is served in order and that no message is stuck |
| `SessionProofs` | theorems about sessions and compactions |
| `Outbox` | the outbox table and the coroutine that empties it |
| `Delivery` | receive thread and deduplication, the loop's notices, the sender of `Outbox`, process life: `Spec` |
| `ReplyQueue` | abstract specification: at least once or dropped, in order; what follows for the chat |
| `DeliveryProperties`, `MCDelivery` | properties, refinement mapping, fairness; instance for TLC |
| `DeliveryProofs` | inductive invariant and theorems of `Delivery`; the proof that it implements `ReplyQueue` |
| `TransferSpool`, `MCTransferSpool` | script and watcher over the request and result files; instance for TLC |
| `SpoolProofs` | inductive invariant and theorems of `TransferSpool` |
| `Jobs`, `MCJobs` | tool server, runner, command, `Scheduler.stop`, progress monitor and recovery over the job rows, for both kinds; instance for TLC |
| `JobsProofs` | inductive invariant and theorems of `Jobs` |
| `SessionSync`, `MCSessionSync` | synchronisation of one session by watcher and terminal command against Codex clients, on top of `StateStore`; instance for TLC |
| `SyncProofs` | inductive invariant and theorems of `SessionSync` |
| `AgentStream` | one execution of an agent: process, chunks, lines, events, result |
| `CodexTurn`, `MCCodexTurn` | `CodexAdapter.execute`: `AgentStream`, or a compaction and its app-server; instance for TLC |
| `CodexProofs` | inductive invariants and theorems about compactions and about the reading of an agent's output |

The modules look at one process from several sides. To `Bridge` a message is
what it does to the tables, to `Delivery` it is something to be carried out once
and answered (`Carry`). `TransferSpool` meets both only through
`last_chat_for_project` (`NewRun`). `SessionSync` uses the very transactions of
`StateStore` (`QueueMessage`, `StopTask`, `ClaimMessage`, `FinishRun`,
`RecoverInterrupted`), with a run cut into the moments that matter to its
requests. `Jobs` is what one run of `Scheduler` does with its tool server, and
the part of `Scheduler.stop` that concerns it. `CodexTurn` is what lies between
`Spawn` and `Collect` of `Scheduler`: the session its `AgentStream` reports is
the one `ReportSession` stores.

### State

| variable | code |
|---|---|
| `taskStatus`, `session` | `tasks.status`, `tasks.session_id` (0 is NULL; a session is named after the run whose agent opened it) |
| `msgTask`, `msgStatus`, `msgOp`, `nextMsg` | `task_messages` and its AUTOINCREMENT |
| `runTask`, `runMsg`, `runStatus`, `runPid`, `nextRun` | `runs` and its AUTOINCREMENT; of the pid only whether it is there |
| `lockHolder` | the `flock` on a project, with the task that keys its descriptor in `_project_locks` |
| `phase`, `known` | where the coroutine `_run_claim` of a run is, and the session id it holds |
| `alive` | the agent process of a run exists |
| `stopQueue`, `doomed` | `Scheduler.stop` coroutines not started, and those between SIGTERM and SIGKILL |
| `bot`, `rxPc`, `rxTask`, `crashes` | life of the process, progress of the receive thread through a `/stop` |
| `retries` | the tasks whose `/stop` may be delivered again |
| `kind`, `status`, `attempts`, `nextRow` | `outbox` and its AUTOINCREMENT; image and file are one kind |
| `noticeOf`, `replyTo` | what a row of the outbox is about, which the code has only in its text |
| `sender`, `current` | where `_outbox_loop` is, and its row |
| `inbound`, `rx`, `rxEvent` | `inbound_events`; the receive thread's progress through `receive` |
| `shown`, `carried`, `acked` | what the outside has seen: copies of a row, handlings and acknowledgements of a message |
| `tmp`, `req`, `res` | the files of a base name in the spool directory: whose path, and what outcome |
| `pc`, `base`, `verdict`, `asked` | a run of the script: its place, its files, what it tells its agent; the project's newest run when it began, so that its own agent's run is that one or an older one |
| `latest` (`TransferSpool`) | the newest row of `runs` of the project, whose chat files go to |
| `watcher`, `listed`, `wBase`, `wReq`, `wRun`, `outcome` | `poll_once` and `_handle`: their place and local variables |
| `kind`, `agent`, `server`, `bridge` (`Jobs`) | which of the two tables, and the life of three processes; of the agent also whether `set_run_pid` has made it known to a stop |
| `job` | a tool call: where its worker thread is, its cancel event, the runner's local flags, the process on the host and the session in the container |
| `row` | `sandbox_jobs` or `container_jobs`: status, and of the pids only whether they are there |
| `stop`, `latest`, `told` (`Jobs`) | `Scheduler.stop` with the pids it has read; the newest job; what the progress monitor told the chat |
| `life`, `deaths`, `phase`, `script` (`SessionSync`) | life of the bridge, where `_run_claim` is, and whose token the project's scripts hold |
| `request`, `batch` | a request file or row of `agent_sync_requests`; the rows `poll_once` has read |
| `sync`, `commands` | the local variables of an export or import, one by the watcher and one by a terminal command |
| `rollout`, `index`, `archived`, `backup` | the session's file, its row `threads` in Codex's index, the backup |
| `wrote`, `late`, `transcript` | records ever appended, those of them that were lost or may be (appended between a last look and `os.replace`, or written into a replaced file); how much of a history a task has |
| `claimed`, `at`, `result` | the session of the claim, where `execute` is, the `AgentResult` |
| `proc`, `clean`, `helper` | the process, its exit code, a descendant that holds the output |
| `text`, `remaining`, `buffer`, `discarding` | the output so far and the reader's three variables |
| `parsed`, `session`, `clash`, `stored` | lines given to `process_json_line` and what became of them |
| `op`, `verdict`, `acknowledged`, `compacted`, `completed` | `execute_compaction` and its sets |
| `pipe`, `answered`, `really`, `ended`, `noise` | the app-server, external: what it has sent and what it has done |

`SUCCEEDED` and `FAILED` are one value, `finished`: nothing in the modelled code
tells them apart afterwards. The databases of all bots are kept in one set of
tables with `BotOf` saying whose row it is; each query looks only at its own
bot's rows.

### Actions

`ReceiveNew`, `ReceiveContinue`: `/new`, plain text and `/compact` down to
`create_task` and `queue_message`. `ReceiveStop`, `CommitStop`, `SubmitStop`:
the status check, `stop_task`, and the submission to the loop, which are three
separate moments in the code. `ClaimStep`: `claimed_run` with
`create_task(_run_claim)`. `Spawn`, `RecordPid`, `ReportSession`, `Collect`,
`Finish`: the coroutine between its awaits; `ExecuteFails`: `execute` raises or
finds no executable, with the agent process possibly left behind. `StopSignal`,
`StopKill`: `Scheduler.stop` before and after its sleep. `AgentExits`: the agent
ends. `Crash`, `Restart`, `Recover`: the process dies, systemd starts it again,
`recover_interrupted` runs. An exception that ends the event loop first shuts
the scheduler down and then the process; that is the end of some runs followed
by `Crash`. `ReceiveStopAgain`: the same `/stop` a second time, which
`register_inbound` refuses while `receive` still submits `Scheduler.stop`.

In `Delivery`: `Receive`, `Carry`, `Reply`, `Acknowledge` are `receive` between
its transactions, `ReceiveAgain` a redelivery, `ReceiveFails` an exception.
`Take` to `Report` are `_outbox_loop`, `_deliver` and `_give_up` between their
awaits and transactions; `Show` is Feishu carrying a call out, which the call
may or may not live to report (`SendReturns`, `SendFails`).

In `TransferSpool` an action is one system call on a file that the other side
can see: the script's write, `mv`, read and `rm`; the watcher's listing, read,
unlink, `open` and `write`. The watcher's unlink and its look at
`last_chat_for_project` are one step (`Consume`), between which nothing that the
event loop or a script does makes a difference: the loop does not run and the
scripts look at neither.

In `Jobs`: `Dispatch`, `CancelNotice`, `Eof`, `Exit` are the server's main
thread, `Register` to `Release` a worker thread around its runner: `Settle` is the
end of the runner with `finish_*_job` and the response, `SettleAgain` the `except`
that a response to a dead agent falls into, which belongs to the same `try` and
finishes the row a second time, as a failure. `RecordPid` is `set_run_pid`, before
which, or without which, as it may fail, a stop signals commands only. `SandboxTick`
and `ContainerTick` are one pass of the runner's loop that has a reason to stop
the command (the limit may pass at any moment), `SandboxEnds` and
`ContainerEnds` its return, `SandboxBreaks` an `OSError` under it. `Stop`,
`StopFindsNothing` and `StopKills` are `Scheduler.stop` on both sides of its
sleep, `Look` one pass of the progress monitor. A signal may be survived, except
SIGKILL; what dies with whom follows from the process groups
(`start_new_session`), from `--die-with-parent`, and from
`KillMode=control-group`.

In `SessionSync`: `Chat`, `Claim`, `Launch`, `Return`, `CaptureRun`, `Finish`
are the life of a run; `Submit` is a script, `Append` and `Archive` are Codex
clients, of which one may hold the file that `os.replace` has replaced and write
there. `ExportBegins` to `ExportCommits` are `make_visible` between the moments
where another process can change something: idle check, snapshot, lock of the
index, backup and last look, `os.replace`, commit. `ImportBegins` and
`ImportCommits` are the snapshot and `import_codex_task`. `Poll`,
`WatcherBegins`, `Answer` are `poll_once`. What writes to the bot's database behind
an export waits, and after sqlite's five seconds fails: then a message is not
queued (no step), a synchronisation is refused (`ExportLocks`, `ImportCommits`), an
answer is left to the next poll, which carries the request out again
(`AnswerFails`), and an error in the course of a run ends the bridge (`Death`). A death leaves all files and rows and
takes the locks and the local variables (`Death`, `CommandDies`);
`CaptureUnfinished` and `Recover` are the start of the next process.

In `CodexTurn`: `ReadChunk` is one `read()`; `SkipRest`, `KeepRest` and
`TakeLine` are the three branches of the loop over its chunk, `Eof` its end.
`Collect` may take a clean end for a failure, as events may report an error or lack
the last one; `Raise` is everything that raises up to the reading of the last
message.
`Receive` takes one message of the app-server through `request()` or the loop
after it, `GracePasses` and `DeadlinePasses` are its two timeouts, `Breaks`
everything that raises, `Kill` and `Leave` the `finally`. `Server` is external
and does what the client has to be prepared for.

## 3. Runs

| run | instance | what it shows |
|---|---|---|
| `private` | 1 bot, 2 tasks, 1 private project, 3 messages | the tables of tasks and messages agree, a compaction has a session |
| `restart` | 1 bot, 2 tasks, 2 messages, 1 crash, 1 orphan, a redelivered `/stop`, fairness | over a death at any point and recovery: no project is blocked, ends and stops are final, refinement of `SerialTurns`; every message leaves the queue |
| `shared` | 2 bots with a task each in the shared project, 2 messages, 2 crashes, 1 orphan | the lock serialises the runs, none leaks, sessions are kept |
| `busy_project` | violation | a claim in a project where a stopped agent still lives |
| `delivery` | 1 message, 3 rows, 2 attempts, 1 crash, fairness | at most once in, bounded copies out, right notices, refinement of `ReplyQueue`; every row is delivered or dropped |
| `acked_lost` | violation | a message acknowledged and never carried out |
| `spool` | 2 scripts with one date and pid, an undeletable request, 2 runs, 1 crash, fairness | sent at most once, success only if something was sent under the name, not to the chat of an older run than the asking one; every request is taken away |
| `jobs` | 2 calls, either kind, 1 death of the bridge, fairness | one command at a time, none behind its row, ends that stay while the agent lives; calls are answered, a `/stop` that found the agent ends sandbox commands |
| `container_survives` | violation | a job recorded as stopped whose command runs on in the container |
| `sync` | 2 tasks, 2 messages, 1 request, 2 records, 2 commands, 1 death, fairness | one task per session, no work disturbed, losses confined, repairable, true notices; requests of settled runs are answered |
| `sync_unanswered` | violation | a request that was captured and is never answered |
| `codex` | 2 sessions, lines of 2 and an output of 5 bytes; 2 turns, 3 unread messages, 1 of no meaning, fairness | lines are those of the text, one session; success is real, no server left, an end in every case |

Bounds of `Bridge`: `MaxMessages` bounds the message rows (and so the runs),
`MaxCrashes` the deaths of bridges, `MaxOrphans` the agents alive at a time whose
run is already over. Two tasks are needed for one to block the other; three
messages for a message, its continuation and one that is overtaken; two runs of
one task need two messages, a stop and a revival, which are unbounded. Orphans
are cut to 0 where their runs would only multiply states. `Retried` names the
tasks whose `/stop` may come again; `restart` has one.

In `Delivery`, `MaxRows` bounds the outbox: three rows are an attachment, a text
behind it and the notice about the attachment. `Room` keeps a row free for the
notice of each attachment that may still be dropped, so that the bound stops new
replies and never the sender. `MaxSendAttempts` is 2 instead of 5: a failure
that is retried and one that is the last. Redeliveries are unbounded. One
message is enough as the receive thread has one at hand at a time and all other
rows come from `Notify`; the theorems hold for any number. In `TransferSpool`,
`NonceOf` says which scripts have the same date and pid (the run gives both the
same, so that they write, move and read each other's files) and `Undeletable`
which requests the bridge cannot unlink; `MaxRuns` bounds the runs claimed;
`sends` stops counting at `Many`.

In `Jobs`, `MaxCalls` bounds the calls of one agent run: two are needed for one
to be refused, or to begin while the other is being ended. Cancellations and
passes of the runners and the monitor are unbounded; one `Scheduler.stop` is
between its signals at a time, any number one after the other. The bridge dies
once, as nothing of the run is left after that but what a container keeps.

In `SessionSync`, two tasks compete for the session; two messages are a run and
one that comes while its request is waiting; two commands start one after the
other and overlap the watcher, and an export by the command of another bot
(`ForeignExportBegins`) stands for the second database that has the session.
`MaxRecords` is 2 for a record in the snapshot and one after it. One request
suffices as requests meet only in `batch`, which is gone through in any order.

In `CodexTurn`, `MaxText` of 5 bytes with lines of at most `MaxLine` 2 holds a
line that is too long, cut at any byte, between two that are not; a byte is the
end of a line or names a session. Two turns are the compaction's own and one of
something else; a pipe of three messages lets the server be ahead of the client
by an answer, a compaction and the end of its turn. The theorems are about any
pipe, any turns, any noise, any output in any chunks, and any length of a line.

TLC's deadlock check is on in the runs of `Bridge`, `Delivery` and
`TransferSpool`: `/stop` can always be received once a task exists, before that a
task can be created; a message can come again; old files can be pruned. It is
off in `jobs`, `sync` and `codex` and their violation runs, where the system does
come to rest: all calls are answered and the agent has ended, all commands and
records are used up, the one execution is done.

Each property of a passing run is paired in `PROJECT.json` with a mutation of
the model (an operator defined beside the original) that breaks it.

### Fairness

`LoopFairness`: asyncio runs every coroutine that is ready and the claim loop
polls once a second. `ProcessFairness`: the receive thread goes on, recovery
ends, systemd restarts the unit (`Restart=on-failure`). `ReapFairness`: systemd
kills what is left of a dead unit (`KillMode=control-group`,
`TimeoutStopSec=20`). No fairness is given to messages, failures, crashes, or to
an agent's end.
All of it is weak: a coroutine that can go on stays able to, whatever stops are
delivered again in front of it. `restart` adds `AgentsEnd`, as a project waits for
its agent by design.
`Delivery` and `TransferSpool` are fair to the sender and the watcher (each is
one coroutine of the loop; a call to Feishu is taken to return or raise some day,
as the code sets no timeout of its own), to the start and the restart of the
process; not to the receive thread, the scripts, or a success of Feishu.

`Jobs` is fair to the threads of the tool server, the passing of a command's time
limit among their steps (the runner compares it with the clock in every pass), and
to the second half of a stop. Commands, agents and cancellations promise nothing.
`SessionSync` is fair to the loop, to the watcher's thread and to a terminal
command that has begun; an agent's end is among the loop's steps, for the
reason `AgentsEnd` has; not to messages, Codex clients or the start of commands.
`CodexTurn` is fair to the deadline (`asyncio.wait_for`), to the steps after it
and to the end of a helper that holds the output; not to the server or to
an agent, which may fall silent or talk for ever.

### Disagreements with the documentation

The violation runs are cases where a comment or a document says one thing
and the code does another; `findings` in `PROJECT.json` quotes both.

* `busy_project` and `sync_unanswered` have one root: `stop_task` takes the task
  out of `running` while its agent is alive, and everything that looks for
  running work (the claim, the recovery) looks at that column. The recovery
  leaves such a run's row at `running` for ever, and its requests with it.
* `acked_lost` comes from two steps that are not one transaction: registering a
  message and carrying it out.
* `container_survives`: before the marker has come the runner only knows the
  docker client; it kills that and records the end of a command that goes on.

Further weaknesses have no run of their own; the model has the steps, and
the properties say how much is left.

* A stop that finds no pid, as the run is between its claim and `set_run_pid` or
  a newer run without one hides it, does nothing; a `/stop` delivered again
  submits `Scheduler.stop` although it is refused as a duplicate, and may kill a
  revived run; a message queued behind an interrupted run goes on after a restart
  without the user's word.
* A task that is stopped and revived before its first run has reported a session
  may get a second one that replaces the first, so `SessionKept` holds only where
  all projects are shared.
* The lock of the shared project belongs to the bridge and not to its agents: one
  that outlives its bridge, until systemd ends it, or its failed run, may meet the
  agent of another bot. `SharedRunsHoldTheLock` speaks of coroutines.
* A death between the two transactions of `_give_up` loses the notice of a
  dropped attachment (`DropsReported` allows one for each death).
* A request that cannot be unlinked is sent at every poll (`SentOnce` excludes
  it). Of two scripts started in one second with the same pid, as in two pid
  namespaces, one may take the other's result, also a late one, as the loop over
  names does not look for a `.res` (`OkIsSent` speaks of all scripts of a name).
  And `write_text` creates the result before it fills it: a script that looks in
  between reports a failure, also of a file that was sent; of a reported failure
  nothing is claimed. A file may also go to the chat of a run that began after the
  script asked; `NotToAnEarlierRun` only excludes runs older than the asking one,
  and says nothing of whether that run still goes on.
* A sandbox runner that breaks under its command (a log that cannot be written)
  leaves it running behind a settled row; `OneCommandAtATime` and
  `NothingOutlivesItsRow` name that case, `Leaked`.
* A command in a container that outlives its docker client (`container_survives`,
  or a signal inside that failed) does so without the tool lock: the agent's next
  command runs beside it. `OneCommandAtATime` names it, `Survivor`, and says that
  its row is then a failure or a stop.
* The response to a tool call is sent under the `try` whose `except` finishes the
  row. If the agent is dead when its server, which has outlived it, sends the
  response, a success or a stop is rewritten as a failure, perhaps after the
  progress monitor told the chat of it; it may then tell the failure too.
  `RowLifecycle` and `ToldTheTruth` name that case and exclude all others.
* A stop before `set_run_pid` does not find the agent, which may go on and begin
  further commands; `StopEndsSandboxes` speaks of a stop that found it.
* What a Codex client appends between the last look of `make_visible` and its
  `os.replace` is lost, and so is what a client that holds the replaced file open
  writes later; `LossWindow` counts those records and no others.
* A synchronisation whose answer cannot be written, as a terminal command holds
  the database for more than five seconds, is carried out again by the next poll.

## 4. Proofs

All theorems are about `Spec` with arbitrary constants, under the assumptions
named in the modules: `StoreAssumption` (the maps have their types, `NoTask` is
no task), `OrphanAssumption` and `CrashAssumption` (the bounds are numbers).
`OwnershipAssumption` (only the shared project has several bots) states what
`load_config` enforces; no proof needs it.

The safety invariants are not inductive by themselves. For `Bridge`, `Inv` adds
what they rest on:

* `MessageRows`, `RunRows`: a row has a task from its insertion on, a run has
  its message and the message is of the run's task and never queued again, and
  a run that was inserted was given its coroutine in the same step;
* `OneRunEach`: no two runs have one message, as a claim takes a message out of
  the queue for good;
* `ActiveOK`: a coroutine lives in a bot that is up and its message is in
  progress, so that a recovery, which happens while the bot is not up, meets no
  coroutine of its bot, and a finish settles a message that was not settled;
* `ReceiverOK`: a receive thread inside a `/stop` has a task.

`StepTables`, `StepQueue`, `StepCoroutines` and `StepLocks` show that each part
is kept by every step; `TableSteps` and `RunSteps` first sort the steps by what
they touch, so that each lemma only looks at the steps that matter to it.
`Invariance` combines them, and the theorems are read off it.

`Refinement` maps a message that is queued to a waiting turn and one with a
live coroutine to a running turn, every other one to a settled turn. The only
step that needs an argument is the claim (`ClaimIsStart`): an older message in
the lane would itself have been claimable (`OlderIsClaimable`), because by
`QueueConsistent` its task is not stopped; and in a shared project the free lock means, by
`SharedRunsHoldTheLock`, that no bot carries a run.

Two more theorems of `TurnsProofs` are about the queues themselves. No run lists
their properties, as the runs check `ImplementsSerialTurns` and `QueuedSettles`:

* `FirstComeFirstServed`: a run in progress is of an older message than any that
  still waits in its queue (`ServedInOrder`), also where a stop lets a second run
  begin beside the first. It is inductive together with `Inv`: an insertion has
  the highest id, a claim takes the oldest of its queue (`OlderIsClaimable` again),
  and every other step only takes messages out of the queues and runs out of the
  coroutines.
* `NoMessageIsStuck`: a queued message of a bot that is up can be claimed, or a
  coroutine is alive in its project, which will come to `finish_run`
  (`NeverStuck`). That the task is not stopped is `QueueConsistent`, that whatever
  is in the way is carried by somebody is `RunningHasCoroutine` and
  `SharedRunsHoldTheLock`. The bound on runs is never in the way: each run took a
  message of its own, so they are counted by an injection into the messages that
  do not wait (`RunsAreLeft`). This is the part of `QueuedSettles` that needs no
  fairness.

`CompactionResumes` needs that sessions are older than the run that resumes
them, so that a failed compaction does not pass for one that opened its own.
`SharedSessionKept` holds where all projects are shared.

`DeliveryProofs` needs nothing but `OutboxAssumption` and `DeliveryAssumption`
(the sentinel is no message, the bounds are numbers, at least one attempt). Its
`Inv` adds to the properties:

* `RowsOK`: rows are filled in the order of their ids, and only rows that were
  inserted are shown, noticed or answered;
* `SenderOK`: a sender that is not idle has a row and, unless it is about to
  report, the row is the head of the queue, because later insertions have
  higher ids and only the sender settles a row;
* `CopiesOK`: the copies of a pending row are counted by its attempts, the copy
  not yet on record and the deaths so far, and the last attempt is still to come;
* `InboundOK`: a message is carried out and answered only between its
  registration and the end of its `receive`, and registered only once.

`DropsReported` speaks of numbers of rows, and rests on more of them: those that
were dropped without a notice and those that may still be, having had their last
attempt in an earlier life of the process (`AtRisk`), are no more than there were
deaths (`DropsOK`). Only a death adds one, the row its sender had in hand
(`StepAtRisk`); the library's facts on cardinalities do the rest.

`Refinement` follows step by step: the head of the queue makes every `Show` a
`ShowCopy`, every mark a `Deliver` or a `Drop`. `RepliesInOrder` (when an answer
is in the chat, all before it are decided, and none is said to be delivered that
the chat does not show) and `DecidedIsLeftAlone` (what became of an answer stays,
and it is not shown again) are properties of `ReplyQueue`, proved of `Delivery`.

`SpoolProofs` adds `FilesOK` (a file is of a script that has that base name),
`WatcherOK` (what the watcher holds at each place), `ConsumedOK` (a request that
can be unlinked is sent only after it was, and is not there any more) and
`ResultsOK` (a result that says success, in a file or in a script's hands, is of
a name under which a request went out).

`JobsProofs` adds `RowsOK` (the status of a row follows from where its call is),
`ServerOK` (a server takes its calls with it, a bridge that dies its server), `LockOK`
(one call at a time is at work), `ProcsOK` (where a process can be alive at all) and
`OneProcess` (one process on the host, up to leaked ones). A step of one call and a step that befalls all calls at once, as a death
does, are treated by two lemmas each (`OneMoves`, `Suffers`), so that no step has
to be taken through the whole invariant.

Two of its theorems are about what is said of a job. `ToldTheTruth` needs only
that an end in a row stays or is finished again by a worker whose agent is dead
(`RowMoves`, as for `RowLifecycle`), that the agent stays dead (`AgentStaysDead`),
and that the chat is told anything by a look of the monitor at the rows and by
nothing else (`TellsOnlyByLook`). `SuccessIsOver` says that a row that has succeeded, or of
which the chat was told so, is of a command that is over, outside and inside the
container. Its inductive form, `Earned`, says so of every exit code of zero and
every verdict `ok` on the way to the row. Most steps only let a job fade (`Fades`:
nothing comes alive, no code turns zero, no verdict turns `ok`), and `Earned`
survives that (`FadesKeeps`). What is left are the start of the command, its end,
and the settling of the row, which alone makes a row succeed (`StartEarned`,
`EndsEarned`, `OnlySettleSucceeds`).

`OneCommandAtATime` looks inside containers as well. What is at work and not exempt
(`Exempt`: its runner broke, or it survived its client and its row says so) is of a
call that holds the tool lock, or its server is gone (`HeldOK`). A worker lets go of
the lock only of a command that is over or exempt (`OwnWork`): by `Earned` a row with
a success is of a command that is over, so whatever lives on has another end in its
row. A new command comes to work only with the lock in its worker's hands, when all
others at work are exempt (`OwnWorkOK`).

`SyncProofs` rests on `SyncAssumption` (the bounds are numbers, at least one
message, one bot). Its `Inv` has three parts:

* `FileOK`: no record is counted that was not written; what an export has seen of
  the file still holds as far as it relies on it, an export past its last look
  holds the index, and only one does;
* `TableOK`: a request has a run that has a task, an export's task is idle from
  the check to the end of its lock (`Gated`), the session has one task;
* `AnswersOK`: an outcome on its way to the chat is already true.

Steps are sorted into five kinds (`TableStep`, `ClientStep`, `EndStep`,
`BeginStep` and `Progress`), each of which leaves most of this alone.

`CodexProofs` has two invariants, for the two ways of `execute`. For a compaction,
`CompactInv` says what the messages in the pipe and the client's notes mean
(`PipeOK`, `NotedOK`): whatever is noted was sent, and whatever was sent is so in
the server. `EndOK` carries that to the verdict and the result, `ServerOK` says
where in the exchange a server can live.

For a message, `StreamInv` compares the reader with a definition that reads the
text as a whole (`Events`, `InOrder`, `IsFirst` in `AgentStream`). While it reads
(`ReadingOK`), what it has parsed are the short lines that end within the text
read so far (`Done`, `Offset`), whatever the chunks were, and the buffer holds the
line at hand, or nothing once that line has become too long (`AtHand`). When the
output is over, a last line without an end counts too (`OverOK`). The session is
the one named first (`SessionOf`), and a result says what the session variables
say (`ResultOK`). Nothing is proved by induction over the text: the end of a line
is found as the least number of a set (`Least`, from the library's
well-foundedness of the numbers), and the place of a line in `parsed` by counting
the lines up to it.

Each invariant and each property of a step in the passing runs is stated by a
theorem, and both refinements are. Model-checked only is liveness
(`QueuedSettles`, `PendingDecided`, `RequestConsumed`, `CallsEnd`,
`StopEndsSandboxes`, `SettledIsAnswered`, `CompactionEnds`), which is out of the
prover's reach.

## 5. Not modelled, and why

* Model selection: lookups in a list that Codex prints, and one transaction that
  writes the pair of settings. Nothing happens between two steps.
* Bot registry, configuration, policies, installation scripts: commands run alone
  over text files and constant tables. Only what the other modules rest on is
  there: which bots may share a project (`OneOwner`), what the unit file says of
  death and restart.
* Feishu gateway: HTTP and SDK calls and the parsing of events. Its effects, a
  send that fails or was carried out after all and a message that comes again,
  are in `Delivery`.
* Router: commands that only read, `/project` and `/model`, which write one
  setting each; attachments, authorisation and parsing.
* Bridge: the orderly shutdown, which is the end of some runs followed by a
  death, and so no behaviour the model lacks.
* Settings and a chat's selected task, rows written and read whole.
* Terminal commands: `resume` looks at the task's status once and runs the Codex
  client outside, for hours; it warns, takes no lock and promises nothing that
  could be checked. `register`, `doctor` and the listings work alone.
* Session sync: the search of a session by its title and the catalog of titles,
  which are text; the content of a transcript; several sessions at once, which
  meet only in the locks. The task an import names as its destination.
* Jobs: the construction of a command, its output and log (of the failures of
  logs only those under a sandbox command), and the limits of the policies. The
  transactions of a tool server are taken to succeed; while a synchronisation holds
  the database for longer than sqlite waits they fail, and a call may end without a
  response and with its row left for the next recovery.
* Codex adapter: command lines, environments, and what an event says besides the
  session it names.
* File transfer: the installation of the script, `resolve_project_file`, several
  projects in one poll.
* The poll of a shared project's lock by busy bots: that one of them may starve
  is a matter of its timing.
* The answer of a finished run that is lost by a death between `finish_run` and
  its outbox row: a property would only say that it can happen.
