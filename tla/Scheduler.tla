------------------------------ MODULE Scheduler ------------------------------
(***************************************************************************)
(* orchestration/scheduler.py: the claim loop, the coroutine that carries  *)
(* one run, and the coroutine that carries out a /stop.  All of them run   *)
(* on the bot's event loop, so a step here is what a coroutine does        *)
(* between two awaits; other coroutines and the receive thread go between. *)
(*                                                                         *)
(* A run's coroutine goes                                                  *)
(*   "none" -> "prepare"   claimed; notices and scripts are written        *)
(*          -> "spawned"   the agent process exists, its pid not recorded  *)
(*          -> "watching"  set_run_pid done, its output is read            *)
(*          -> "result"    execute returned or raised                      *)
(*          -> "ended"     finish_run done                                 *)
(* and "lost" when the bot process dies under it.                          *)
(***************************************************************************)
EXTENDS StateStore, FiniteSets

CONSTANT MaxOrphans    \* bound: agents alive at a time whose run is over

ASSUME OrphanAssumption == MaxOrphans \in Nat

VARIABLES
    phase,       \* where the coroutine of a run is
    alive,       \* the agent process of a run exists
    known,       \* AgentResult.session_id, as the coroutine knows it so far
    stopQueue,   \* tasks with a Scheduler.stop coroutine not yet started
    doomed       \* runs whose living agent a stop has signalled and, after
                 \* stop_grace_seconds, will kill

schedVars == <<phase, alive, known, stopQueue, doomed>>

Phase ==
    {"none", "prepare", "spawned", "watching", "result", "ended", "lost"}
Active == {"prepare", "spawned", "watching", "result"}

SchedTypeOK ==
    /\ phase \in [RunIds -> Phase]
    /\ alive \in [RunIds -> BOOLEAN]
    /\ known \in [RunIds -> SessionIds]
    /\ stopQueue \subseteq Tasks
    /\ doomed \subseteq RunIds

SchedInit ==
    /\ phase = [r \in RunIds |-> "none"]
    /\ alive = [r \in RunIds |-> FALSE]
    /\ known = [r \in RunIds |-> NoSession]
    /\ stopQueue = {}
    /\ doomed = {}

\* The runs a bot's event loop is carrying, and those of one project.
ActiveRuns == {r \in RunIds : phase[r] \in Active}
ActiveRunsIn(p) == {r \in ActiveRuns : ProjectOf[runTask[r]] = p}

-----------------------------------------------------------------------------
(* Scheduler.run *)

\* claimed_run, and create_task(_run_claim) with the session the row had.
Claim(b) ==
    \E m \in MessageIds :
        /\ ClaimMessage(b, m)
        /\ phase' = [phase EXCEPT ![nextRun] = "prepare"]
        /\ known' = [known EXCEPT ![nextRun] = session[msgTask[m]]]
        /\ UNCHANGED <<alive, stopQueue, doomed>>

-----------------------------------------------------------------------------
(* Scheduler._run_claim around AgentAdapter.execute *)

Spawn(r) ==
    /\ phase[r] = "prepare"
    /\ phase' = [phase EXCEPT ![r] = "spawned"]
    /\ alive' = [alive EXCEPT ![r] = TRUE]
    /\ UNCHANGED <<storeVars, known, stopQueue, doomed>>

\* The agents that execute left behind when it raised.
Orphans == {r \in RunIds : alive[r] /\ phase[r] \in {"result", "ended"}}

\* execute raised, or found nothing to execute: the run ends with a failed
\* result made from the claim, whether or not the agent process exists by now.
\* (known[r] = r only when the claim had no session.)
ExecuteFails(r) ==
    /\ phase[r] \in {"prepare", "spawned", "watching"}
    /\ alive[r] => Cardinality(Orphans) < MaxOrphans
    /\ phase' = [phase EXCEPT ![r] = "result"]
    /\ known' = [known EXCEPT ![r] = IF @ = r THEN NoSession ELSE @]
    /\ UNCHANGED <<storeVars, alive, stopQueue, doomed>>

\* A Scheduler.stop in the queue may have its turn before this or after it.
RecordPid(r) ==
    /\ phase[r] = "spawned"
    /\ SetRunPid(r)
    /\ phase' = [phase EXCEPT ![r] = "watching"]
    /\ UNCHANGED <<alive, known, stopQueue, doomed>>

\* Mutation of OpensSession: an agent that opens another session on resume.
OpensAnother(r) == known[r] # r

\* Only a run that was not given a session to resume opens one: another id
\* from a resumed one is a protocol error and is not recorded.
OpensSession(r) == known[r] = NoSession

\* The first session event.
ReportSession(r) ==
    /\ phase[r] = "watching"
    /\ OpensSession(r)
    /\ known' = [known EXCEPT ![r] = r]
    /\ SetTaskSession(runTask[r], r)
    /\ UNCHANGED <<phase, alive, stopQueue, doomed>>

\* The output ended and process.wait() returned.
Collect(r) ==
    /\ phase[r] = "watching"
    /\ ~alive[r]
    /\ phase' = [phase EXCEPT ![r] = "result"]
    /\ UNCHANGED <<storeVars, alive, known, stopQueue, doomed>>

Finish(r) ==
    /\ phase[r] = "result"
    /\ FinishRun(r, known[r])
    /\ phase' = [phase EXCEPT ![r] = "ended"]
    /\ UNCHANGED <<alive, known, stopQueue, doomed>>

-----------------------------------------------------------------------------
(* Scheduler.stop: what running_pid returns now is signalled now and, after *)
(* stop_grace_seconds, killed.  Without a pid the coroutine returns False;  *)
(* killpg of a process that is gone does nothing (pids are not reused).     *)

StopSignal(t) ==
    /\ t \in stopQueue
    /\ stopQueue' = stopQueue \ {t}
    /\ doomed' = doomed \cup {r \in RunningPid(t) : alive[r]}
    /\ UNCHANGED <<storeVars, phase, alive, known>>

StopKill(r) ==
    /\ r \in doomed
    /\ doomed' = doomed \ {r}
    /\ alive' = [alive EXCEPT ![r] = FALSE]
    /\ UNCHANGED <<storeVars, phase, known, stopQueue>>

-----------------------------------------------------------------------------
(* The agent process, which ends by itself, of a SIGTERM, or not at all. *)

AgentExits(r) ==
    /\ alive[r]
    /\ alive' = [alive EXCEPT ![r] = FALSE]
    /\ doomed' = doomed \ {r}
    /\ UNCHANGED <<storeVars, phase, known, stopQueue>>
=============================================================================
