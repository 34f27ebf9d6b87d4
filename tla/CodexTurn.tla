------------------------------ MODULE CodexTurn ------------------------------
(***************************************************************************)
(* CodexAdapter.execute: a message is carried out by the stream of         *)
(* AgentStream, /compact by agents/compact.py, which starts the app-server *)
(* of Codex and speaks JSON-RPC with it over a pipe:                       *)
(*                                                                         *)
(*   "initialize" -> "resume" -> "compact" -> "ending" -> "done"           *)
(*                                                                         *)
(* each of the first three waiting for what the server sends.  The server  *)
(* is external: it answers in its own time, works on other turns of the    *)
(* thread as well, tells of other threads, fails, falls silent or ends.    *)
(* Whatever happens, the exchange has to end, and to leave no server.      *)
(***************************************************************************)
EXTENDS AgentStream

CONSTANTS
    Turns,      \* turns of the thread, the compaction's own among them
    MaxPipe,    \* bound: messages of the server not yet read
    MaxNoise    \* bound: messages that have nothing to say

ASSUME TurnAssumption == MaxPipe \in Nat /\ MaxNoise \in Nat

VARIABLES
    op,         \* "message" or "compact", the operation of the claim
    pipe,       \* what the server has sent and nobody has read
    answered,   \* the server's answers to requests 1, 2 and 3
    really,     \* turns that have compacted the thread, in truth
    ended,      \* turns whose end the server has told
    noise,      \* how many messages of no meaning it has sent
    acknowledged,
    compacted,  \* compacted_turns
    completed,  \* completed_turns
    verdict     \* how the exchange went

serverVars == <<answered, really, ended, noise>>
clientVars == <<acknowledged, compacted, completed>>
compactVars == <<op, pipe, serverVars, clientVars, verdict>>
vars == <<claimed, at, procVars, chunkVars, eventVars, result, compactVars>>

Requests == 1 .. 3
Exchanging == {"initialize", "resume", "compact"}

Init ==
    /\ StreamInit
    /\ op \in {"message", "compact"}
    /\ pipe = <<>>
    /\ answered = [i \in Requests |-> "no"]
    /\ really = {} /\ ended = {} /\ noise = 0
    /\ acknowledged = FALSE /\ compacted = {} /\ completed = {}
    /\ verdict = "none"

Same == UNCHANGED <<claimed, chunkVars, eventVars, op>>

-----------------------------------------------------------------------------
(* The app-server, as compact.py knows it: external. *)

Message(kind, turn, what) == [kind |-> kind, turn |-> turn, what |-> what]
Sends(m) == Len(pipe) < MaxPipe /\ pipe' = Append(pipe, m)
NoTurn == "no turn"

\* How many requests the client has sent.
Asked == CASE at = "initialize" -> 1 [] at = "resume" -> 2
           [] at = "compact" -> 3 [] OTHER -> 0

\* A request is answered once: accepted, refused, or with another thread.
Answers(i) ==
    /\ i <= Asked /\ answered[i] = "no"
    /\ \E a \in {"ok", "error"} \cup (IF i = 2 THEN {"other"} ELSE {}) :
         /\ answered' = [answered EXCEPT ![i] = a]
         /\ Sends(Message("reply", NoTurn, <<i, a>>))
    /\ UNCHANGED <<really, ended, noise>>

\* Item or thread/compacted notification: the turn has compacted the thread.
Compacts(t) ==
    /\ answered[2] = "ok" /\ t \notin really
    /\ really' = really \cup {t}
    /\ Sends(Message("compacted", t, "ours"))
    /\ UNCHANGED <<answered, ended, noise>>

EndsTurn(t) ==
    /\ answered[2] = "ok" /\ t \notin ended
    /\ ended' = ended \cup {t}
    /\ \E how \in {"completed", "failed"} : Sends(Message("ended", t, how))
    /\ UNCHANGED <<answered, really, noise>>

\* The same about another thread, an error that will be retried or not,
\* requests of the server, lines that are no messages.
Noise ==
    /\ noise < MaxNoise
    /\ noise' = noise + 1
    /\ \/ \E t \in Turns : Sends(Message("compacted", t, "foreign"))
       \/ \E what \in {"retry", "final"} : Sends(Message("error", NoTurn, what))
       \/ Sends(Message("junk", NoTurn, "junk"))
    /\ UNCHANGED <<answered, really, ended>>

Server ==
    /\ at \in Exchanging /\ proc = "alive"
    /\ (\E i \in Requests : Answers(i)) \/ (\E t \in Turns : Compacts(t) \/ EndsTurn(t)) \/ Noise
    /\ Same /\ UNCHANGED <<at, procVars, result, clientVars, verdict>>

-----------------------------------------------------------------------------
(* execute_compaction *)

\* Without a session there is nothing to compact.
NothingToCompact ==
    /\ op = "compact" /\ at = "idle" /\ claimed = NoSession
    /\ at' = "done"
    /\ result' = [Raised EXCEPT !.by = "adapter"]
    /\ Same /\ UNCHANGED <<procVars, pipe, serverVars, clientVars, verdict>>

StartServer ==
    /\ op = "compact" /\ at = "idle" /\ claimed # NoSession
    /\ \/ at' = "started" /\ Starts /\ UNCHANGED result
       \/ at' = "done" /\ result' = Raised /\ UNCHANGED procVars
    /\ Same /\ UNCHANGED <<pipe, serverVars, clientVars, verdict>>

\* The exchange is over; SIGTERM to the server's group.
Gives(v) == at' = "ending" /\ verdict' = v

\* on_pid may raise; otherwise request 1 is sent.
ServerPid ==
    /\ at = "started"
    /\ \/ at' = "initialize" /\ UNCHANGED verdict
       \/ Gives("raised")
    /\ Same /\ UNCHANGED <<procVars, result, pipe, serverVars, clientVars>>

Received == Head(pipe)
Reply(i, a) == Received = Message("reply", NoTurn, <<i, a>>)

\* request(): everything but the answer to request i is dropped, and with an
\* answer that will not do the exchange is over.
AwaitReply(i, next) ==
    /\ IF Reply(i, "ok") THEN at' = next /\ UNCHANGED verdict
       ELSE IF Reply(i, "error") \/ Reply(i, "other") THEN Gives("error")
       ELSE UNCHANGED <<at, verdict>>
    /\ UNCHANGED clientVars

\* Mutation of Ours: the thread of a notification is not looked at.
AnyThread(m) == m.kind # "reply"

\* Notifications of the thread; errors always come with it.
Ours(m) == m.kind \notin {"reply", "junk"} /\ m.what # "foreign"

\* One turn of the loop.  The answer to request 3 is only noted: what it may
\* complete is looked at with the next notification, or after the grace.
Heeds(m) ==
    /\ acknowledged' = (acknowledged \/ Reply(3, "ok"))
    /\ compacted' = IF m.kind = "compacted" /\ Ours(m)
                    THEN compacted \cup {m.turn} ELSE compacted
    /\ completed' = IF m.kind = "ended" /\ m.what = "completed"
                    THEN completed \cup {m.turn} ELSE completed
    /\ IF \/ Reply(3, "error")
          \/ m.kind = "ended" /\ m.what = "failed"
          \/ m.kind = "error" /\ m.what = "final"
       THEN Gives("error")
       ELSE IF Ours(m) /\ acknowledged /\ compacted' \cap completed' # {}
       THEN Gives("ok")
       ELSE UNCHANGED <<at, verdict>>

Receive ==
    /\ at \in Exchanging /\ pipe # <<>>
    /\ pipe' = Tail(pipe)
    /\ CASE at = "initialize" -> AwaitReply(1, "resume")
         [] at = "resume" -> AwaitReply(2, "compact")
         [] at = "compact" -> Heeds(Received)
    /\ Same /\ UNCHANGED <<procVars, result, serverVars>>

\* No message for a while after the compaction was told.
GracePasses ==
    /\ at = "compact" /\ compacted # {}
    /\ Gives(IF acknowledged THEN "ok" ELSE "timeout")
    /\ Same /\ UNCHANGED <<procVars, result, pipe, serverVars, clientVars>>

DeadlinePasses ==
    /\ at \in Exchanging
    /\ Gives("timeout")
    /\ Same /\ UNCHANGED <<procVars, result, pipe, serverVars, clientVars>>

\* The server has ended, or the log, the pipe or on_progress failed.
Breaks ==
    /\ at \in Exchanging
    /\ \/ proc # "alive" /\ pipe = <<>> /\ ~ helper /\ Gives("error")
       \/ Gives("error")
       \/ Gives("raised")
    /\ Same /\ UNCHANGED <<procVars, result, pipe, serverVars, clientVars>>

\* Mutation of Kill: the SIGTERM has to do.
KillNever ==
    /\ FALSE
    /\ UNCHANGED vars

\* A server that survives SIGTERM for three seconds.
Kill ==
    /\ at = "ending" /\ proc = "alive"
    /\ proc' = "killed"
    /\ Same /\ UNCHANGED <<at, clean, helper, result, pipe, serverVars, clientVars, verdict>>

\* What is returned, unless an exception goes through.
Told == IF verdict = "raised" THEN {}
        ELSE {[ok |-> verdict = "ok", session |-> claimed, by |-> "agent"]}

\* Mutation of Leave: the server is not waited for.
LeaveAtOnce ==
    /\ at = "ending" /\ ~ helper
    /\ at' = "done"
    /\ result' \in {Raised} \cup Told
    /\ Same /\ UNCHANGED <<procVars, pipe, serverVars, clientVars, verdict>>

\* process.wait() and the end of the error output; drain_stderr may have raised.
Leave ==
    /\ at = "ending" /\ proc # "alive" /\ ~ helper
    /\ at' = "done"
    /\ result' \in {Raised} \cup Told
    /\ Same /\ UNCHANGED <<procVars, pipe, serverVars, clientVars, verdict>>

Compaction ==
    \/ NothingToCompact \/ StartServer \/ ServerPid \/ Receive
    \/ GracePasses \/ DeadlinePasses \/ Breaks \/ Kill \/ Leave

-----------------------------------------------------------------------------
(* CodexAdapter.execute *)

Execute ==
    \/ op = "message" /\ StreamNext /\ UNCHANGED compactVars
    \/ op = "compact" /\ Compaction

Next ==
    \/ Execute
    \/ Server
    \/ (ProcEnds \/ HelperEnds) /\ UNCHANGED compactVars

Spec == Init /\ [][Next]_vars

(* The event loop runs and its deadlines pass; what outlives the server lets
   go of its output some day.  Server and agent promise nothing. *)
Fairness ==
    /\ WF_vars(ServerPid) /\ WF_vars(DeadlinePasses)
    /\ WF_vars(Kill \/ Leave)
    /\ WF_vars(HelperEnds /\ UNCHANGED compactVars)

FairSpec == Spec /\ Fairness

-----------------------------------------------------------------------------
(* Properties. *)

\* compact.py says success only if the server took the request on and some
\* turn of the very session has in truth compacted it, in whatever order
\* answers and notifications came and whichever deadline passed.
SuccessIsReal ==
    op = "compact" /\ result.ok =>
        answered[2] = "ok" /\ answered[3] = "ok" /\ really # {}

\* However an exchange ends, no app-server is left to write to the session
\* that the task's next run resumes.
NoServerLeft == op = "compact" /\ at = "done" => proc # "alive"

\* A /compact ends whatever the server does or does not: silence, chatter, a
\* server that takes no SIGTERM.
CompactionEnds == (op = "compact" /\ at = "started") ~> at = "done"
=============================================================================
