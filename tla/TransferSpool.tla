---------------------------- MODULE TransferSpool ----------------------------
(***************************************************************************)
(* Files sent on an agent's behalf: the script assets/send-to-feishu.sh,   *)
(* which agents run, and the watcher of orchestration/spool.py with        *)
(* core/transfer.py, over the spool directory of one project.              *)
(*                                                                         *)
(* Script and watcher share nothing but files: <base>.tmp and <base>.req   *)
(* with the path to send, <base>.res with the outcome.  Each step below is *)
(* one system call that the other side can see, or what a side does        *)
(* between two of them.                                                    *)
(*                                                                         *)
(* A script goes                                                           *)
(*   "start" -> "named"    its base name is chosen                         *)
(*           -> "written"  the .tmp file is there                          *)
(*           -> "polling"  the .req file is there, it waits for the .res   *)
(*           -> "read"     it has read the outcome                         *)
(*           -> "done"                                                     *)
(* and the watcher, for one request at a time,                             *)
(*   "idle" -> "reading" -> "sending" -> "shown" -> "opening" -> "writing".*)
(* Of Feishu is assumed what module Outbox assumes.                        *)
(***************************************************************************)
EXTENDS Naturals, FiniteSets

CONSTANTS
    Scripts,        \* the invocations of the script; also their requests
    NoScript,
    Nonces,         \* the values of $(date +%s)-$$
    NonceOf,        \* the value an invocation gets
    Undeletable,    \* the requests whose file the bridge cannot unlink
    MaxRuns,        \* bound: runs of the project
    MaxCrashes      \* bound: deaths of the bridge

ASSUME SpoolAssumption ==
    /\ NonceOf \in [Scripts -> Nonces]
    /\ NoScript \notin Scripts
    /\ IsFiniteSet(Scripts)
    /\ MaxRuns \in Nat
    /\ MaxCrashes \in Nat

VARIABLES
    pc, base,       \* a script's place and the base name of its files
    asked,          \* the newest run of the project when it started: the run
                    \* whose agent calls it is that one or an older one
    verdict,        \* what it tells its agent: "none", "ok" or "failed"
    tmp, req,       \* the script whose path is in the file, or NoScript
    res,            \* "none", "empty", "ok" or "error"
    listed,         \* the requests of this poll that are still to be handled
    watcher, wBase, wReq, wRun, outcome,
    latest,         \* the newest run of the project, or 0
    sends,          \* how often a file went to a chat
    bridgeUp, crashes

scriptVars == <<pc, base, asked, verdict>>
fileVars == <<tmp, req, res>>
watcherVars == <<listed, watcher, wBase, wReq, wRun, outcome>>
runVars == <<latest, sends>>
lifeVars == <<bridgeUp, crashes>>
vars == <<scriptVars, fileVars, watcherVars, runVars, lifeVars>>

\* The counter makes a name differ from those in use.
Names == Nonces \X (0 .. Cardinality(Scripts))
NoName == <<>>
Request == Scripts \cup {NoScript}
NoRun == 0
Many == 2       \* in sends: more than once

TypeOK ==
    /\ pc \in [Scripts -> {"start", "named", "written", "polling", "read",
                           "done"}]
    /\ base \in [Scripts -> Names \cup {NoName}]
    /\ asked \in [Scripts -> 0 .. MaxRuns]
    /\ verdict \in [Scripts -> {"none", "ok", "failed"}]
    /\ tmp \in [Names -> Request] /\ req \in [Names -> Request]
    /\ res \in [Names -> {"none", "empty", "ok", "error"}]
    /\ listed \subseteq Names
    /\ watcher \in {"idle", "reading", "sending", "shown", "opening", "writing"}
    /\ wBase \in Names \cup {NoName}
    /\ wReq \in Request
    /\ wRun \in 0 .. MaxRuns
    /\ watcher \in {"sending", "shown"} => wReq # NoScript /\ wRun # NoRun
    /\ outcome \in {"none", "ok", "error"}
    /\ latest \in 0 .. MaxRuns
    /\ sends \in [Scripts -> 0 .. Many]
    /\ bridgeUp \in BOOLEAN
    /\ crashes \in 0 .. MaxCrashes

Init ==
    /\ pc = [s \in Scripts |-> "start"]
    /\ base = [s \in Scripts |-> NoName]
    /\ asked = [s \in Scripts |-> NoRun]
    /\ verdict = [s \in Scripts |-> "none"]
    /\ tmp = [n \in Names |-> NoScript] /\ req = tmp
    /\ res = [n \in Names |-> "none"]
    /\ listed = {}
    /\ watcher = "idle" /\ wBase = NoName /\ wReq = NoScript
    /\ wRun = NoRun /\ outcome = "none"
    /\ latest = NoRun
    /\ sends = [s \in Scripts |-> 0]
    /\ bridgeUp = TRUE
    /\ crashes = 0

-----------------------------------------------------------------------------
(* The script. *)

InUse(n) == tmp[n] # NoScript \/ req[n] # NoScript

\* The loop over the counter.  A .res file is not looked at.
Name(s) ==
    /\ pc[s] = "start"
    /\ \E n \in Names :
          /\ n[1] = NonceOf[s]
          /\ ~InUse(n)
          /\ \A m \in Names : m[1] = n[1] /\ m[2] < n[2] => InUse(m)
          /\ base' = [base EXCEPT ![s] = n]
    /\ pc' = [pc EXCEPT ![s] = "named"]
    /\ asked' = [asked EXCEPT ![s] = latest]
    /\ UNCHANGED <<verdict, fileVars, watcherVars, runVars, lifeVars>>

WriteRequest(s) ==
    /\ pc[s] = "named"
    /\ tmp' = [tmp EXCEPT ![base[s]] = s]
    /\ pc' = [pc EXCEPT ![s] = "written"]
    /\ UNCHANGED <<base, asked, verdict, req, res, watcherVars,
                   runVars, lifeVars>>

\* mv of whatever the .tmp file holds; it fails if another script has moved
\* it.  With a wait of 0 seconds the script ends here.
Rename(s) ==
    LET n == base[s] IN
    /\ pc[s] = "written"
    /\ IF tmp[n] # NoScript
       THEN /\ req' = [req EXCEPT ![n] = tmp[n]]
            /\ tmp' = [tmp EXCEPT ![n] = NoScript]
            /\ \E next \in {"polling", "done"} : pc' = [pc EXCEPT ![s] = next]
       ELSE /\ pc' = [pc EXCEPT ![s] = "done"]
            /\ UNCHANGED <<req, tmp>>
    /\ UNCHANGED <<base, asked, verdict, res, watcherVars,
                   runVars, lifeVars>>

\* The .res file is there and its first line is read: "ok" or anything else.
ReadResult(s) ==
    LET n == base[s] IN
    /\ pc[s] = "polling"
    /\ res[n] # "none"
    /\ verdict' = [verdict EXCEPT ![s] = IF res[n] = "ok" THEN "ok" ELSE "failed"]
    /\ pc' = [pc EXCEPT ![s] = "read"]
    /\ UNCHANGED <<base, asked, fileVars, watcherVars, runVars, lifeVars>>

RemoveResult(s) ==
    /\ pc[s] = "read"
    /\ res' = [res EXCEPT ![base[s]] = "none"]
    /\ pc' = [pc EXCEPT ![s] = "done"]
    /\ UNCHANGED <<base, asked, verdict, tmp, req, watcherVars, runVars,
                   lifeVars>>

\* The time is up, or the script is killed with its agent.
ScriptEnds(s) ==
    /\ pc[s] \in {"named", "written", "polling"}
    /\ pc' = [pc EXCEPT ![s] = "done"]
    /\ UNCHANGED <<base, asked, verdict, fileVars, watcherVars, runVars,
                   lifeVars>>

-----------------------------------------------------------------------------
(* The watcher: poll_once and _handle. *)

\* What is to be sent, and where, is not looked at again.
Forget == wReq' = NoScript /\ wRun' = NoRun

Rest == watcher' = "idle" /\ wBase' = NoName /\ outcome' = "none" /\ Forget

\* pending_requests
Poll ==
    /\ bridgeUp
    /\ watcher = "idle"
    /\ listed = {}
    /\ listed' = {n \in Names : req[n] # NoScript}
    /\ listed' # {}
    /\ UNCHANGED <<scriptVars, fileVars, watcher, wBase, wReq, wRun, outcome,
                   runVars, lifeVars>>

\* read_request
Read(n) ==
    /\ watcher = "idle"
    /\ n \in listed
    /\ listed' = listed \ {n}
    /\ wBase' = n
    /\ wReq' = req[n]
    /\ watcher' = "reading"
    /\ UNCHANGED <<scriptVars, fileVars, wRun, outcome, runVars, lifeVars>>

\* Mutation of Discard: the request stays where it is.
DiscardNever == UNCHANGED req

\* discard_request: a failing unlink is only logged.
Discard ==
    req' = [req EXCEPT ![wBase] = IF @ \in Undeletable THEN @ ELSE NoScript]

\* Mutation of LastRun: the order of the query is the other way round.
FirstRun == IF latest = NoRun THEN NoRun ELSE 1

\* last_chat_for_project: the chat of the newest run.
LastRun == latest

\* After discard_request: no file, no chat, or a chat to send it to.
Decide ==
    \/ watcher' = "opening" /\ outcome' = "error" /\ Forget
    \/ /\ wReq # NoScript /\ LastRun # NoRun
       /\ wRun' = LastRun
       /\ watcher' = "sending"
       /\ UNCHANGED <<wReq, outcome>>

\* Mutation of Consume: the request is left for later.
ConsumeLater ==
    /\ watcher = "reading"
    /\ Decide
    /\ UNCHANGED <<scriptVars, fileVars, listed, wBase, runVars, lifeVars>>

Consume ==
    /\ watcher = "reading"
    /\ Discard
    /\ Decide
    /\ UNCHANGED <<scriptVars, tmp, res, listed, wBase, runVars, lifeVars>>

\* Feishu shows the file.
Show ==
    /\ watcher = "sending"
    /\ sends' = [sends EXCEPT ![wReq] = IF @ = Many THEN @ ELSE @ + 1]
    /\ watcher' = "shown"
    /\ UNCHANGED <<scriptVars, fileVars, listed, wBase, wReq, wRun, outcome,
                   latest, lifeVars>>

\* Mutation of Outcomes: success is taken for granted.
OutcomesHopeful == {"ok"}

\* send_media returns, or raises though the chat may show the file.
Outcomes == IF watcher = "shown" THEN {"ok", "error"} ELSE {"error"}

SendEnds ==
    /\ watcher \in {"sending", "shown"}
    /\ outcome' \in Outcomes
    /\ watcher' = "opening"
    /\ Forget
    /\ UNCHANGED <<scriptVars, fileVars, listed, wBase, runVars, lifeVars>>

\* write_text: open makes an empty file ...
OpenResult ==
    /\ watcher = "opening"
    /\ res' = [res EXCEPT ![wBase] = "empty"]
    /\ watcher' = "writing"
    /\ UNCHANGED <<scriptVars, tmp, req, listed, wBase, wReq, wRun, outcome,
                   runVars, lifeVars>>

\* ... and write fills it, unless the script has removed it meanwhile.
WriteResult ==
    /\ watcher = "writing"
    /\ res' = [res EXCEPT ![wBase] = IF @ = "none" THEN @ ELSE outcome]
    /\ Rest
    /\ UNCHANGED <<scriptVars, tmp, req, listed, runVars, lifeVars>>

\* The result cannot be written, which is only logged.
WriteFails ==
    /\ watcher = "opening"
    /\ Rest
    /\ UNCHANGED <<scriptVars, fileVars, listed, runVars, lifeVars>>

\* prune_results, an hour later: no script of that name is still there.
Prune(n) ==
    /\ bridgeUp /\ watcher = "idle" /\ listed = {}
    /\ \A s \in Scripts : base[s] = n => pc[s] = "done"
    /\ tmp' = [tmp EXCEPT ![n] = NoScript]
    /\ res' = [res EXCEPT ![n] = "none"]
    /\ UNCHANGED <<scriptVars, req, watcherVars, runVars, lifeVars>>

-----------------------------------------------------------------------------
(* The rest of the bridge. *)

\* A message is claimed for the project.
NewRun ==
    /\ bridgeUp
    /\ latest < MaxRuns
    /\ latest' = latest + 1
    /\ UNCHANGED <<scriptVars, fileVars, watcherVars, sends, lifeVars>>

Crash ==
    /\ bridgeUp
    /\ crashes < MaxCrashes
    /\ crashes' = crashes + 1
    /\ bridgeUp' = FALSE
    /\ listed' = {}
    /\ Rest
    /\ UNCHANGED <<scriptVars, fileVars, runVars>>

Restart ==
    /\ ~bridgeUp
    /\ bridgeUp' = TRUE
    /\ UNCHANGED <<scriptVars, fileVars, watcherVars, runVars, crashes>>

-----------------------------------------------------------------------------

ScriptStep ==
    \E s \in Scripts :
        \/ Name(s) \/ WriteRequest(s) \/ Rename(s)
        \/ ReadResult(s) \/ RemoveResult(s) \/ ScriptEnds(s)

WatcherStep ==
    \/ Poll \/ Consume \/ Show \/ SendEnds
    \/ OpenResult \/ WriteResult \/ WriteFails
    \/ \E n \in Names : Read(n)

Next ==
    \/ ScriptStep
    \/ WatcherStep
    \/ \E n \in Names : Prune(n)
    \/ NewRun
    \/ Crash \/ Restart

Spec == Init /\ [][Next]_vars
FairSpec == Spec /\ WF_vars(WatcherStep) /\ WF_vars(Restart)

-----------------------------------------------------------------------------
(* Properties *)

\* No file is sent twice, whenever the bridge dies and whatever scripts do to
\* each other's files: the request is consumed before the file is sent.  It is
\* not said of a request that cannot be unlinked: discard_request logs that,
\* and every poll sends the file again.
SentOnce == \A s \in Scripts \ Undeletable : sends[s] <= 1

\* A script that tells its agent that the file was sent is right, also when
\* requests are lost, waits interrupted and results pruned, up to the scripts
\* that took the same name: the loop over the counter looks for a .req and a
\* .tmp, not for the .res of an earlier request.
OkIsSent ==
    \A s \in Scripts :
        verdict[s] = "ok" =>
            \E q \in Scripts : base[q] = base[s] /\ sends[q] > 0

\* A file never goes to the chat of an older run than the one whose agent asked
\* for it; whether that run still goes on plays no part, and a file may well
\* go to the chat of a later one.
NotToAnEarlierRun ==
    watcher \in {"sending", "shown"} => asked[wReq] <= wRun

\* Requests do not pile up: each that can be is consumed, if only to be
\* refused, also if it shares the directory with one that cannot.
RequestConsumed ==
    \A n \in Names :
        req[n] \in Scripts \ Undeletable ~> req[n] \notin Scripts \ Undeletable
=============================================================================
