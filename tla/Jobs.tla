-------------------------------- MODULE Jobs --------------------------------
(***************************************************************************)
(* Commands that an agent runs through its tool server: sandbox_run under  *)
(* bubblewrap or container_run under docker exec.  A project has one of    *)
(* the two, so `kind` is drawn once and never changes.                     *)
(*                                                                         *)
(* Three processes share the rows of sandbox_jobs or container_jobs: the   *)
(* tool server (runtimes/*/mcp.py with a worker thread per call and        *)
(* runtimes/*/runner.py inside it), the bridge (Scheduler.stop, the        *)
(* progress monitor, recover_interrupted) and the command itself, which in *)
(* a container is two: the docker client on the host and the session       *)
(* inside, known to the runner only once the client has relayed a marker.  *)
(*                                                                         *)
(* A call goes "idle" -> "asked" (dispatched) -> "registered" (its event   *)
(* can be set) -> "begun" (row inserted, tool lock held) -> "spawned" ->   *)
(* "running" (pid recorded) -> "ended" -> "settled" (row written, response *)
(* sent) -> "answered" (lock released), or to "refused" when the lock is   *)
(* taken; a call whose server is gone is "lost".  A response that cannot be *)
(* sent, the agent being dead, makes a "settled" call write its row again: *)
(* "resettled".                                                            *)
(***************************************************************************)
EXTENDS Naturals, FiniteSets

CONSTANT MaxCalls       \* bound: tool calls of the agent run

ASSUME CallsAssumption == MaxCalls \in Nat

\* Calls are numbered in the order they are dispatched.
Calls == 1 .. MaxCalls
NoCall == 0

VARIABLES
    kind,       \* "sandbox" or "container"
    agent,      \* "new" until its pid is recorded, then "alive", or "missed"
                \* as long as a stop that did not find it goes on, or "dead"
    server,     \* "up", "closing" (stdin ended) or "gone"
    job,        \* what runner and kernel know of a call
    row,        \* its row in the table of jobs
    latest,     \* the call whose row was inserted last, or NoCall
    stop,       \* Scheduler.stop between its two signals, with its snapshot
    bridge,     \* "up", "down" or "back"
    told        \* the ends of a job the chat was told of

vars == <<kind, agent, server, job, row, latest, stop, bridge, told>>

Final == {"succeeded", "failed", "stopped", "interrupted"}
Open == {"running", "stopping"}
Working == {"begun", "spawned", "running", "ended", "settled", "resettled"}
Registered == Working \cup {"registered"}
Heeded == {"registered", "begun", "spawned", "running"} \* the event matters

JobStates ==
    [pc : Registered \cup {"idle", "asked", "answered", "refused", "lost"},
     cancel : BOOLEAN,                 \* the event
     proc : {"none", "alive", "exited", "killed"},
     inner : {"none", "alive", "dead"},
     known : BOOLEAN,                  \* the marker was read
     stop : {"no", "asked", "term"},   \* how far the runner's stop got
     flag : {"no", "cancelled", "timeout", "leaked"},
     exit : {"none", "zero", "other"},
     verdict : {"none", "ok", "error", "cancelled"}]

RowStates ==
    [status : Final \cup Open \cup {"none"}, pid : BOOLEAN, inner : BOOLEAN]

TypeOK ==
    /\ kind \in {"sandbox", "container"}
    /\ agent \in {"new", "missed", "alive", "dead"}
    /\ server \in {"up", "closing", "gone"}
    /\ job \in [Calls -> JobStates]
    /\ row \in [Calls -> RowStates]
    /\ latest \in Calls \cup {NoCall}
    /\ stop \in [on : BOOLEAN, pids : SUBSET Calls, inners : SUBSET Calls]
    /\ bridge \in {"up", "down", "back"}
    /\ told \in [Calls -> SUBSET Final]

NoStop == [on |-> FALSE, pids |-> {}, inners |-> {}]
NoRow == [status |-> "none", pid |-> FALSE, inner |-> FALSE]
NoJob == [pc |-> "idle", cancel |-> FALSE, proc |-> "none", inner |-> "none",
          known |-> FALSE, stop |-> "no", flag |-> "no", exit |-> "none",
          verdict |-> "none"]

Init ==
    /\ kind \in {"sandbox", "container"}
    /\ agent = "new" /\ server = "up"
    /\ job = [c \in Calls |-> NoJob] /\ row = [c \in Calls |-> NoRow]
    /\ latest = NoCall
    /\ stop = NoStop
    /\ bridge = "up"
    /\ told = [c \in Calls |-> {}]

-----------------------------------------------------------------------------
(* The rows: one transaction each. *)

Inserted == [NoRow EXCEPT !.status = "running"]
SetPid(r) == IF r.status = "running" THEN [r EXCEPT !.pid = TRUE] ELSE r
SetInnerPid(r) == IF r.status \in Open THEN [r EXCEPT !.inner = TRUE] ELSE r

\* Mutation of Finished: a stop that was asked for is overwritten.
FinishedAsIs(r, verdict) ==
    [NoRow EXCEPT !.status = IF verdict = "cancelled" THEN "stopped"
                             ELSE IF verdict = "ok" THEN "succeeded"
                             ELSE "failed"]

\* Whatever the status was, but a stop that was asked for shows.  The pids of
\* an ended job are never read again.
Finished(r, verdict) ==
    [NoRow EXCEPT !.status =
        IF verdict = "cancelled" \/ r.status = "stopping" THEN "stopped"
        ELSE IF verdict = "ok" THEN "succeeded" ELSE "failed"]

\* Mutation of MarkedStopping: a status the table does not have.
MarkedCancelled(r) ==
    IF r.status = "running" THEN [r EXCEPT !.status = "cancelled"] ELSE r

MarkedStopping(r) ==
    IF r.status = "running" THEN [r EXCEPT !.status = "stopping"] ELSE r

\* Mutation of Interrupted: whatever has a row.
InterruptedAlways(r) ==
    IF r.status # "none" THEN [NoRow EXCEPT !.status = "interrupted"] ELSE r

Interrupted(r) ==
    IF r.status \in Open THEN [NoRow EXCEPT !.status = "interrupted"] ELSE r

\* The same transactions on the other table.
ContainerInserted == Inserted
ContainerSetPid(r) == SetPid(r)
ContainerFinished(r, verdict) == Finished(r, verdict)
ContainerInterrupted(r) == Interrupted(r)

-----------------------------------------------------------------------------
(* The server's main thread. *)

\* tools/call starts a worker thread.
Dispatch(c) ==
    /\ agent # "dead" /\ server = "up"
    /\ job[c].pc = "idle" /\ \A d \in Calls : d < c => job[d].pc # "idle"
    /\ job' = [job EXCEPT ![c].pc = "asked"]
    /\ UNCHANGED <<kind, agent, server, row, latest, stop, bridge, told>>

\* notifications/cancelled: without a registered event nothing happens.
CancelNotice(c) ==
    /\ agent # "dead" /\ server = "up"
    /\ job[c].pc \in Heeded
    /\ job' = [job EXCEPT ![c].cancel = TRUE]
    /\ UNCHANGED <<kind, agent, server, row, latest, stop, bridge, told>>

\* The end of stdin cancels what is registered by now; the workers are
\* joined with a limit.
Eof ==
    /\ agent = "dead" /\ server = "up"
    /\ server' = "closing"
    /\ job' = [c \in Calls |->
                 IF job[c].pc \in Heeded
                 THEN [job[c] EXCEPT !.cancel = TRUE] ELSE job[c]]
    /\ UNCHANGED <<kind, agent, row, latest, stop, bridge, told>>

\* Mutation of DieWithParent: without the flag.
DieAlone == FALSE

\* bwrap runs with --die-with-parent, docker does not.
DieWithParent == kind = "sandbox"

\* The process of the server ends and its threads with it.
Abandoned(j) ==
    IF j.pc \in Registered \cup {"asked"} \/ j.proc = "alive"
    THEN [NoJob EXCEPT !.pc = IF j.pc = "answered" THEN j.pc ELSE "lost",
                       !.proc = IF j.proc = "alive" /\ ~ DieWithParent
                                THEN "alive" ELSE "exited",
                       !.inner = j.inner,
                       !.flag = IF j.flag = "leaked" THEN j.flag ELSE "no"]
    ELSE j

Exit ==
    /\ server = "closing"
    /\ server' = "gone"
    /\ job' = [c \in Calls |-> Abandoned(job[c])]
    /\ UNCHANGED <<kind, agent, row, latest, stop, bridge, told>>

-----------------------------------------------------------------------------
(* A worker thread. *)

Alive(c) == job[c].proc = "alive"

Register(c) ==
    /\ job[c].pc = "asked"
    /\ job' = [job EXCEPT ![c].pc = "registered"]
    /\ UNCHANGED <<row, latest>>

\* Mutation of ToolLockFree: a cancelled command counts as gone.
ToolLockFreeOnCancel ==
    \A d \in Calls : job[d].pc \notin Working \/ job[d].cancel

\* One command at a time; others are refused, not queued.
ToolLockFree == \A d \in Calls : job[d].pc \notin Working

\* The new row, a refusal of argv or cwd, or a refusal for the lock.
Begin(c) ==
    /\ job[c].pc = "registered"
    /\ IF ToolLockFree
       THEN \/ /\ job' = [job EXCEPT ![c].pc = "begun"]
               /\ row' = [row EXCEPT ![c] = IF kind = "sandbox" THEN Inserted
                                            ELSE ContainerInserted]
               /\ latest' = c
            \/ /\ job' = [job EXCEPT ![c] = [NoJob EXCEPT !.pc = "answered"]]
               /\ UNCHANGED <<row, latest>>
       ELSE /\ job' = [job EXCEPT ![c] = [NoJob EXCEPT !.pc = "refused"]]
            /\ UNCHANGED <<row, latest>>

\* The runner has returned or raised: the row, then the response.
Settle(c) ==
    /\ job[c].pc = "ended"
    /\ job' = [job EXCEPT ![c].pc = "settled", ![c].verdict = "none"]
    /\ row' = [row EXCEPT ![c] =
                 IF kind = "sandbox" THEN Finished(@, job[c].verdict)
                 ELSE ContainerFinished(@, job[c].verdict)]
    /\ UNCHANGED latest

\* The response fails, nobody reading any more; it is sent under the try that
\* writes the end, so the row is finished again, as an error.  The second
\* response fails as well.
SettleAgain(c) ==
    /\ job[c].pc = "settled" /\ agent = "dead"
    /\ job' = [job EXCEPT ![c].pc = "resettled"]
    /\ row' = [row EXCEPT ![c] =
                 IF kind = "sandbox" THEN Finished(@, "error")
                 ELSE ContainerFinished(@, "error")]
    /\ UNCHANGED latest

\* Only now is the lock released and the event dropped.
Release(c) ==
    /\ job[c].pc \in {"settled", "resettled"}
    /\ job' = [job EXCEPT ![c].pc = "answered"]
    /\ UNCHANGED <<row, latest>>

SandboxCall(c) ==
    /\ kind = "sandbox"
    /\ Register(c) \/ Begin(c) \/ Settle(c) \/ SettleAgain(c) \/ Release(c)

ContainerCall(c) ==
    /\ kind = "container"
    /\ Register(c) \/ Begin(c) \/ Settle(c) \/ SettleAgain(c) \/ Release(c)

-----------------------------------------------------------------------------
(* The runner of a sandbox command. *)

\* What the runner returns, and all that matters of the job from then on.
Ended(j, verdict) ==
    [NoJob EXCEPT !.pc = "ended", !.verdict = verdict, !.proc = "exited",
                  !.inner = IF j.inner = "alive" THEN "alive" ELSE "dead"]

\* The command cannot be built, or Popen fails, or the process is there.
SandboxLaunch(c) ==
    /\ kind = "sandbox" /\ job[c].pc = "begun"
    /\ \/ job' = [job EXCEPT ![c] = Ended(@, "error")]
       \/ job' = [job EXCEPT ![c].pc = "spawned", ![c].proc = "alive"]
    /\ UNCHANGED <<row, latest>>

SandboxPid(c) ==
    /\ kind = "sandbox" /\ job[c].pc = "spawned"
    /\ job' = [job EXCEPT ![c].pc = "running"]
    /\ row' = [row EXCEPT ![c] = SetPid(@)]
    /\ UNCHANGED latest

\* Why a pass of the loop stops the command; the limit may pass any time.
Reason(j) == IF j.cancel THEN "cancelled" ELSE "timeout"

\* Mutation of SandboxTick: no SIGKILL.
SandboxTickOnce(c) ==
    LET j == job[c] IN
    /\ kind = "sandbox" /\ j.pc = "running" /\ Alive(c) /\ j.stop = "no"
    /\ \E p \in {"alive", "killed"} :
         job' = [job EXCEPT ![c] =
                   [j EXCEPT !.flag = Reason(j), !.stop = "term", !.proc = p,
                             !.exit = IF p = "killed" THEN "other" ELSE @]]
    /\ UNCHANGED <<row, latest>>

\* SIGTERM, which a command may survive, then SIGKILL.
SandboxTick(c) ==
    LET j == job[c] IN
    /\ kind = "sandbox" /\ j.pc = "running" /\ Alive(c)
    /\ \E p \in IF j.stop = "no" THEN {"alive", "killed"} ELSE {"killed"} :
         job' = [job EXCEPT ![c] =
                   [j EXCEPT !.flag = Reason(j), !.stop = "term", !.proc = p,
                             !.exit = IF p = "killed" THEN "other" ELSE @]]
    /\ UNCHANGED <<row, latest>>

\* Mutation of SandboxEnds: a command told to stop is not waited for.
SandboxEndsEarly(c) ==
    LET j == job[c] IN
    /\ kind = "sandbox" /\ j.pc = "running" /\ (~ Alive(c) \/ j.stop = "term")
    /\ job' = [job EXCEPT ![c] =
                 [Ended(j, IF j.flag = "cancelled" THEN "cancelled" ELSE "error")
                    EXCEPT !.proc = j.proc]]
    /\ UNCHANGED <<row, latest>>

\* End of output and of the process.
SandboxEnds(c) ==
    LET j == job[c] IN
    /\ kind = "sandbox" /\ j.pc = "running" /\ ~ Alive(c)
    /\ job' = [job EXCEPT ![c] =
                 Ended(j, IF j.flag = "cancelled" THEN "cancelled"
                          ELSE IF j.flag = "no" /\ j.exit = "zero" THEN "ok"
                          ELSE "error")]
    /\ UNCHANGED <<row, latest>>

\* The log cannot be written (OSError) or on_pid raises: the runner gives up
\* on a process that nobody has told to end.  The runner of a container
\* breaks in the same way, which is left out to bound the model.
SandboxBreaks(c) ==
    /\ kind = "sandbox" /\ job[c].pc \in {"spawned", "running"} /\ Alive(c)
    /\ job' = [job EXCEPT ![c] =
                 [NoJob EXCEPT !.pc = "ended", !.verdict = "error",
                               !.proc = "alive", !.flag = "leaked"]]
    /\ UNCHANGED <<row, latest>>

-----------------------------------------------------------------------------
(* The runner of a container command. *)

\* No such container, not running and not to be started, project not
\* mounted: refused.  Otherwise a docker client is there.
ContainerLaunch(c) ==
    /\ kind = "container" /\ job[c].pc = "begun"
    /\ \/ job' = [job EXCEPT ![c] = Ended(@, "error")]
       \/ job' = [job EXCEPT ![c].pc = "spawned", ![c].proc = "alive"]
    /\ UNCHANGED <<row, latest>>

ContainerPid(c) ==
    /\ kind = "container" /\ job[c].pc = "spawned"
    /\ job' = [job EXCEPT ![c].pc = "running"]
    /\ row' = [row EXCEPT ![c] = ContainerSetPid(@)]
    /\ UNCHANGED latest

ReadMarker(c) ==
    /\ kind = "container" /\ job[c].pc = "running"
    /\ job[c].inner # "none" /\ ~ job[c].known
    /\ job' = [job EXCEPT ![c].known = TRUE]
    /\ row' = [row EXCEPT ![c] = SetInnerPid(@)]
    /\ UNCHANGED latest

\* `docker exec kill` in the container may fail and SIGTERM may be survived.
Hit(j) == IF j.inner = "alive" THEN {"alive", "dead"} ELSE {j.inner}

\* One pass with a reason to stop, also when the client has just ended.
\* Without a marker the client itself is signalled after two seconds.
ContainerTick(c) ==
    LET j == [job[c] EXCEPT !.flag = Reason(job[c])] IN
    /\ kind = "container" /\ j.pc = "running"
    /\ \/ /\ j.stop # "term" /\ j.known
          /\ \E i \in Hit(j) :
               job' = [job EXCEPT ![c] = [j EXCEPT !.stop = "term", !.inner = i]]
       \/ /\ j.stop = "no" /\ ~ j.known
          /\ job' = [job EXCEPT ![c] = [j EXCEPT !.stop = "asked"]]
       \/ /\ j.stop = "asked" /\ ~ j.known /\ Alive(c)
          /\ \E p \in {"alive", "killed"} :
               job' = [job EXCEPT ![c] =
                         [j EXCEPT !.stop = "term", !.proc = p,
                                   !.exit = IF p = "killed" THEN "other" ELSE @]]
       \/ /\ j.stop = "term"
          /\ \E i \in IF j.known THEN Hit(j) ELSE {j.inner} :
               job' = [job EXCEPT ![c] =
                         [j EXCEPT !.inner = i,
                                   !.proc = IF @ = "alive" THEN "killed" ELSE @,
                                   !.exit = IF Alive(c) THEN "other" ELSE @]]
    /\ UNCHANGED <<row, latest>>

\* A client that ended by itself has relayed all output, the marker first.
ContainerEnds(c) ==
    LET j == job[c] IN
    /\ kind = "container" /\ j.pc = "running" /\ ~ Alive(c)
    /\ j.proc = "exited" /\ j.inner # "none" => j.known
    /\ job' = [job EXCEPT ![c] =
                 Ended(j, IF j.flag = "cancelled" THEN "cancelled"
                          ELSE IF j.flag = "no" /\ j.known /\ j.exit = "zero"
                          THEN "ok" ELSE "error")]
    /\ UNCHANGED <<row, latest>>

-----------------------------------------------------------------------------
(* The commands themselves. *)

InnerStarts(c) ==
    /\ kind = "container" /\ Alive(c) /\ job[c].inner = "none"
    /\ job' = [job EXCEPT ![c].inner = "alive"]

InnerEnds(c) ==
    /\ job[c].inner = "alive"
    /\ job' = [job EXCEPT ![c].inner = "dead"]

\* A sandbox command ends as it likes, a docker client when its command has
\* ended or could not be started.
ProcEnds(c) ==
    /\ Alive(c)
    /\ kind = "container" => job[c].inner # "alive"
    /\ \E e \in IF kind = "container" /\ job[c].inner = "none"
                THEN {"other"} ELSE {"zero", "other"} :
         job' = [job EXCEPT ![c].proc = "exited",
                            ![c].exit = IF job[c].pc \in Heeded THEN e ELSE @]

Command(c) ==
    /\ InnerStarts(c) \/ InnerEnds(c) \/ ProcEnds(c)
    /\ UNCHANGED <<row, latest>>

-----------------------------------------------------------------------------
(* The bridge. *)

\* set_run_pid, called back once the agent is started; until then a stop does
\* not find it, and it may never come to it.
RecordPid ==
    /\ bridge = "up" /\ agent = "new"
    /\ agent' = IF stop.on THEN "missed" ELSE "alive"
    /\ UNCHANGED <<kind, server, job, row, latest, stop, bridge, told>>

\* The agent is gone; a tool server in its process group may go with it or
\* live on to see the end of its stdin.
LosesAgent(jobs) ==
    /\ agent' = "dead"
    /\ \/ job' = jobs /\ UNCHANGED server
       \/ job' = [c \in Calls |-> Abandoned(jobs[c])] /\ server' = "gone"

AgentEnds ==
    /\ agent # "dead"
    /\ LosesAgent(job)
    /\ UNCHANGED <<kind, row, latest, stop, bridge, told>>

\* Processes that a signal has reached, and perhaps ended.
Signalled(j, c, pids, inners) ==
    LET hit == c \in pids /\ j.proc = "alive"
    IN  [j EXCEPT !.proc = IF hit THEN "killed" ELSE @,
                  !.exit = IF hit /\ j.pc \in Heeded THEN "other" ELSE @,
                  !.inner = IF c \in inners /\ @ = "alive" THEN "dead" ELSE @]

\* mark_sandbox_jobs_stopping: the pids of the rows it marks.
SandboxPids == {c \in Calls : row[c].status = "running" /\ row[c].pid}
\* mark_container_jobs_stopping: every row that is now stopping.
ContainerRows == {c \in Calls : row[c].status \in Open}
StopPids == IF kind = "sandbox" THEN SandboxPids
            ELSE {c \in ContainerRows : row[c].pid}
StopInners == IF kind = "sandbox" THEN {}
              ELSE {c \in ContainerRows : row[c].inner}

\* The effect of one round of signals on agent, server and commands.
Signal(pids, inners, sure) ==
    \E p \in IF sure THEN {pids} ELSE SUBSET pids, i \in SUBSET inners :
       LET signalled == [c \in Calls |-> Signalled(job[c], c, p, i)]
       IN  \/ agent = "alive" /\ LosesAgent(signalled)
          \/ /\ agent # "alive" \/ ~ sure
             /\ job' = signalled /\ UNCHANGED server
             /\ agent' = IF sure /\ agent = "missed" THEN "alive" ELSE agent

\* Scheduler.stop reads the pids, marks the rows and sends SIGTERM ...
Stop ==
    /\ bridge = "up" /\ ~ stop.on
    /\ agent = "alive" \/ SandboxPids # {} \/ (kind = "container" /\ ContainerRows # {})
    /\ row' = [c \in Calls |-> MarkedStopping(row[c])]
    /\ Signal(StopPids, StopInners, FALSE)
    /\ stop' = [on |-> TRUE, pids |-> StopPids, inners |-> StopInners]
    /\ UNCHANGED <<kind, latest, bridge, told>>

\* With nothing to signal, an agent without a recorded pid included, rows
\* without a pid are marked all the same.
StopFindsNothing ==
    /\ bridge = "up" /\ ~ stop.on
    /\ agent # "alive" /\ kind = "sandbox" /\ SandboxPids = {}
    /\ row' = [c \in Calls |-> MarkedStopping(row[c])]
    /\ UNCHANGED <<kind, agent, server, job, latest, stop, bridge, told>>

\* ... and, a grace period later, SIGKILL to what it read then.
StopKills ==
    /\ bridge = "up" /\ stop.on
    /\ Signal(stop.pids, stop.inners, TRUE)
    /\ stop' = NoStop
    /\ UNCHANGED <<kind, row, latest, bridge, told>>

\* One pass of the progress monitor: it looks at the newest job only.  With
\* the run the monitor ends, when its last pass is over, which may be any.
Look ==
    /\ bridge = "up"
    /\ told' = [c \in Calls |->
                  IF c = latest THEN told[c] \cup ({row[c].status} \cap Final)
                  ELSE told[c]]
    /\ UNCHANGED <<kind, agent, server, job, row, latest, stop, bridge>>

SandboxMonitor == kind = "sandbox" /\ Look
ContainerMonitor == kind = "container" /\ Look

\* KillMode=control-group: with the bridge go the processes of the host, not
\* those of a container.
BridgeDies ==
    /\ bridge = "up"
    /\ bridge' = "down"
    /\ agent' = "dead" /\ server' = "gone"
    /\ job' = [c \in Calls |-> Signalled(Abandoned(job[c]), c, Calls, {})]
    /\ stop' = NoStop
    /\ UNCHANGED <<kind, row, latest, told>>

Recover ==
    /\ bridge = "down"
    /\ bridge' = "back"
    /\ row' = [c \in Calls |-> IF kind = "sandbox" THEN Interrupted(row[c])
                               ELSE ContainerInterrupted(row[c])]
    /\ UNCHANGED <<kind, agent, server, job, latest, stop, told>>

-----------------------------------------------------------------------------
Worker(c) ==
    /\ \/ SandboxCall(c) \/ SandboxLaunch(c) \/ SandboxPid(c)
       \/ SandboxTick(c) \/ SandboxEnds(c)
       \/ ContainerCall(c) \/ ContainerLaunch(c) \/ ContainerPid(c)
       \/ ReadMarker(c) \/ ContainerTick(c) \/ ContainerEnds(c)
    /\ UNCHANGED <<kind, agent, server, stop, bridge, told>>

Runs(c) ==
    /\ Command(c) \/ SandboxBreaks(c)
    /\ UNCHANGED <<kind, agent, server, stop, bridge, told>>

Next ==
    \/ \E c \in Calls : Dispatch(c) \/ CancelNotice(c) \/ Worker(c) \/ Runs(c)
    \/ Eof \/ Exit \/ RecordPid \/ AgentEnds
    \/ Stop \/ StopFindsNothing \/ StopKills \/ SandboxMonitor \/ ContainerMonitor
    \/ BridgeDies \/ Recover

Spec == Init /\ [][Next]_vars

(* The server's threads run, time limits among them, and a stop that has begun
   goes on.  Commands promise nothing. *)
ServerStep == Eof \/ Exit \/ \E c \in Calls : Worker(c)

Fairness == WF_vars(ServerStep) /\ WF_vars(StopKills)

FairSpec == Spec /\ Fairness

-----------------------------------------------------------------------------
(* Properties. *)

Leaked(c) == job[c].flag = "leaked"

\* A command is at work while its process on the host or, in a container, its
\* session inside is alive.
AtWork(c) == Alive(c) \/ job[c].inner = "alive"

\* A command in a container that outlived its docker client, killed before the
\* marker was read or although the signals sent inside failed.
Survivor(c) ==
    /\ kind = "container" /\ job[c].inner = "alive" /\ ~ Alive(c)
    /\ row[c].status \in {"failed", "stopped"}

\* The tool lock is held until the command is over: an agent has two commands
\* at work in its project only if the runner broke under one of them, or if
\* one survived its docker client, and then its row says that it failed or was
\* stopped.
OneCommandAtATime ==
    \A c, d \in Calls : AtWork(c) /\ AtWork(d) =>
        c = d \/ (\E e \in {c, d} : Leaked(e) \/ Survivor(e))

\* A sandbox job is not recorded as ended while its process lives, be the
\* end the runner's, that of /stop, or recovery's after a death of the bridge.
NothingOutlivesItsRow ==
    kind = "sandbox" =>
       \A c \in Calls : row[c].status \in Final /\ Alive(c) => Leaked(c)

\* Runner, /stop and recovery write one column without looking at each other:
\* a job that was asked to stop is never recorded as a success or, at first, a
\* failure, and an end is rewritten in one case only, by the worker that wrote
\* it and could not answer its dead agent, and then as a failure.
RowLifecycle ==
    [][\A c \in Calls :
         \/ row'[c].status = row[c].status
         \/ row[c].status = "none" /\ row'[c].status = "running"
         \/ row[c].status = "running" /\ row'[c].status \in Final \cup {"stopping"}
         \/ row[c].status = "stopping" /\ row'[c].status \in {"stopped", "interrupted"}
         \/ /\ row[c].status \in {"succeeded", "stopped"} /\ row'[c].status = "failed"
            /\ agent = "dead" /\ job[c].pc = "settled"
      ]_row

\* What the chat was told of a job's end stays what its row says, except that
\* after the death of the agent a success or a stop may turn into a failure.
ToldTheTruth ==
    \A c \in Calls : \A end \in told[c] :
        \/ end = row[c].status
        \/ end \in {"succeeded", "stopped"} /\ row[c].status = "failed" /\ agent = "dead"

\* Every call is answered or its server is gone, whatever its command does
\* with its output, its signals and its time.
CallsEnd == \A c \in Calls : job[c].pc = "asked" ~> job[c].pc \in {"answered", "refused", "lost"}

\* /stop ends every sandbox command of the run for good, also one whose pid
\* was not recorded when the rows were marked or that began after that.  A
\* stop that read the agent's pid before it was recorded promises nothing of
\* an agent that lives.
StopEndsSandboxes ==
    (stop.on /\ agent \in {"alive", "dead"} /\ kind = "sandbox") ~>
        [](\A c \in Calls : ~ Alive(c))

\* container/runner.py reads the marker at once "so cancellation can target
\* the container session instead of only terminating the host docker client":
\* a container job recorded as stopped does not run on.
StoppedContainerEnds ==
    kind = "container" =>
       \A c \in Calls : row[c].status = "stopped" => job[c].inner # "alive"
=============================================================================
