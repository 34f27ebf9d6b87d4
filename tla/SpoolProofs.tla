----------------------------- MODULE SpoolProofs -----------------------------
(***************************************************************************)
(* Proofs about module TransferSpool, for any number of scripts, whatever  *)
(* names they share, any number of runs and of deaths of the bridge.       *)
(***************************************************************************)
EXTENDS TransferSpool, TLAPS

-----------------------------------------------------------------------------
(* The inductive invariant. *)

\* A path is in one file at most, of the name its script has chosen, and in
\* none before the script has written it.
FilesOK ==
    \A s \in Scripts :
        /\ pc[s] # "start" => base[s] \in Names
        /\ verdict[s] # "none" => pc[s] # "start"
        /\ \A n \in Names :
              /\ tmp[n] = s \/ req[n] = s =>
                    n = base[s] /\ pc[s] \notin {"start", "named"}
              /\ ~ (tmp[n] = s /\ req[n] = s)
        /\ pc[s] \in {"start", "named"} => sends[s] = 0
        /\ asked[s] <= latest

\* What the watcher has at hand came out of a .req file.
WatcherOK ==
    /\ watcher # "idle" => wBase \in Names
    /\ watcher \in {"idle", "reading"} => outcome = "none"
    /\ wReq \in Scripts =>
          /\ watcher \in {"reading", "sending", "shown"}
          /\ wBase = base[wReq] /\ pc[wReq] \notin {"start", "named"}
          /\ \A n \in Names : tmp[n] # wReq
          /\ watcher \in {"sending", "shown"} => asked[wReq] <= wRun
    /\ watcher = "shown" => sends[wReq] > 0

\* Consumed before it is sent, and gone for good once it is sent.
ConsumedOK ==
    \A s \in Scripts \ Undeletable :
        /\ wReq = s /\ watcher \in {"sending", "shown"} =>
              \A n \in Names : req[n] # s
        /\ sends[s] > 0 =>
              /\ \A n \in Names : tmp[n] # s /\ req[n] # s
              /\ wReq = s => watcher = "shown"

\* An "ok" under a name comes from a file that was sent for that name.
Sent(n) == \E q \in Scripts : base[q] = n /\ sends[q] > 0

ResultsOK ==
    /\ \A n \in Names : res[n] = "ok" => Sent(n)
    /\ outcome = "ok" => Sent(wBase)
    /\ OkIsSent

Inv ==
    /\ TypeOK
    /\ FilesOK
    /\ WatcherOK
    /\ ConsumedOK
    /\ ResultsOK
    /\ SentOnce

LEMMA InvInit == Init => Inv
<1> SUFFICES ASSUME Init PROVE Inv
  OBVIOUS
<1> USE SpoolAssumption DEF Init, NoRun, Many, Request
<1>1. TypeOK
  BY DEF TypeOK
<1>2. FilesOK /\ ConsumedOK /\ SentOnce
  BY DEF FilesOK, ConsumedOK, SentOnce
<1>3. WatcherOK /\ ResultsOK
  BY DEF WatcherOK, ResultsOK, OkIsSent
<1> QED
  BY <1>1, <1>2, <1>3 DEF Inv

-----------------------------------------------------------------------------
(* The types. *)

LEMMA StepTypes ==
  TypeOK /\ FilesOK /\ WatcherOK /\ [Next]_vars => TypeOK'
<1> SUFFICES ASSUME TypeOK, FilesOK, WatcherOK, [Next]_vars PROVE TypeOK'
  OBVIOUS
<1>c. MaxCrashes \in Nat /\ crashes \in 0 .. MaxCrashes
  BY SpoolAssumption DEF TypeOK
<1>d. ASSUME Crash PROVE crashes' \in 0 .. MaxCrashes /\ bridgeUp' \in BOOLEAN
  <2>1. crashes < MaxCrashes /\ crashes' = crashes + 1
    BY <1>d DEF Crash
  <2>2. crashes' \in 0 .. MaxCrashes
    BY <1>c, <2>1
  <2>3. bridgeUp' \in BOOLEAN
    BY <1>d DEF Crash
  <2> QED
    BY <2>2, <2>3
<1> USE SpoolAssumption DEF TypeOK, Request, NoRun, Many
<1>1. ASSUME NEW s \in Scripts, Name(s) \/ WriteRequest(s) \/ Rename(s) PROVE TypeOK'
  <2>1. CASE Name(s)
    BY <2>1 DEF Name, fileVars, watcherVars, runVars, lifeVars
  <2>2. CASE WriteRequest(s)
    BY <2>2 DEF WriteRequest, FilesOK, watcherVars, runVars, lifeVars
  <2>3. CASE Rename(s)
    <3>1. base[s] \in Names
      BY <2>3 DEF Rename, FilesOK
    <3> QED
      BY <2>3, <3>1 DEF Rename, watcherVars, runVars, lifeVars
  <2> QED
    BY <1>1, <2>1, <2>2, <2>3
<1>2. ASSUME NEW s \in Scripts, ReadResult(s) \/ RemoveResult(s) \/ ScriptEnds(s) PROVE TypeOK'
  <2>1. CASE ReadResult(s)
    BY <2>1 DEF ReadResult, fileVars, watcherVars, runVars, lifeVars
  <2>2. CASE RemoveResult(s)
    BY <2>2 DEF RemoveResult, FilesOK, watcherVars, runVars, lifeVars
  <2>3. CASE ScriptEnds(s)
    BY <2>3 DEF ScriptEnds, fileVars, watcherVars, runVars, lifeVars
  <2> QED
    BY <1>2, <2>1, <2>2, <2>3
<1>3. CASE WatcherStep
  <2>1. CASE Poll
    BY <2>1 DEF Poll, scriptVars, fileVars, runVars, lifeVars
  <2>2. ASSUME NEW n \in Names, Read(n) PROVE TypeOK'
    BY <2>2 DEF Read, scriptVars, fileVars, runVars, lifeVars
  <2>3. CASE Consume
    <3>1. wBase \in Names
      BY <2>3 DEF Consume, WatcherOK
    <3>2. req' \in [Names -> Scripts \cup {NoScript}]
      BY <2>3, <3>1 DEF Consume, Discard
    <3> QED
      BY <2>3, <3>2 DEF Consume, Decide, Forget, LastRun, scriptVars, runVars, lifeVars
  <2>4. CASE Show
    BY <2>4 DEF Show, scriptVars, fileVars, lifeVars
  <2>5. CASE SendEnds
    BY <2>5 DEF SendEnds, Outcomes, Forget, scriptVars, fileVars, runVars, lifeVars
  <2>6. CASE OpenResult \/ WriteResult \/ WriteFails
    BY <2>6 DEF OpenResult, WriteResult, WriteFails, Rest, Forget, WatcherOK,
        scriptVars, fileVars, runVars, lifeVars
  <2> QED
    BY <1>3, <2>1, <2>2, <2>3, <2>4, <2>5, <2>6 DEF WatcherStep
<1>4. ASSUME NEW n \in Names, Prune(n) PROVE TypeOK'
  BY <1>4 DEF Prune, scriptVars, watcherVars, runVars, lifeVars
<1>5. CASE NewRun
  BY <1>5 DEF NewRun, scriptVars, fileVars, watcherVars, lifeVars
<1>6. CASE Crash
  <2>1. /\ UNCHANGED <<scriptVars, fileVars, runVars>>
        /\ listed' = {} /\ watcher' = "idle" /\ wBase' = NoName
        /\ outcome' = "none" /\ wReq' = NoScript /\ wRun' = NoRun
    BY <1>6 DEF Crash, Rest, Forget
  <2> QED
    BY <1>6, <1>d, <2>1 DEF scriptVars, fileVars, runVars
<1>7. CASE Restart
  BY <1>7 DEF Restart, scriptVars, fileVars, watcherVars, runVars
<1>8. CASE UNCHANGED vars
  BY <1>8 DEF vars, scriptVars, fileVars, watcherVars, runVars, lifeVars
<1> QED
  BY <1>1, <1>2, <1>3, <1>4, <1>5, <1>6, <1>7, <1>8 DEF Next, ScriptStep

-----------------------------------------------------------------------------
(* The files. *)

LEMMA StepFiles ==
  Inv /\ [Next]_vars => FilesOK' /\ WatcherOK' /\ ConsumedOK'
<1> SUFFICES ASSUME Inv, [Next]_vars PROVE FilesOK' /\ WatcherOK' /\ ConsumedOK'
  OBVIOUS
<1>t. /\ NoScript \notin Scripts
      /\ tmp \in [Names -> Scripts \cup {NoScript}]
      /\ req \in [Names -> Scripts \cup {NoScript}]
      /\ pc \in [Scripts -> {"start", "named", "written", "polling", "read", "done"}]
      /\ verdict \in [Scripts -> {"none", "ok", "failed"}]
      /\ sends \in [Scripts -> 0 .. 2] /\ asked \in [Scripts -> 0 .. MaxRuns]
      /\ latest \in Nat /\ wRun \in Nat /\ wReq \in Scripts \cup {NoScript}
      /\ watcher \in {"sending", "shown"} => wReq \in Scripts
      /\ DOMAIN base = Scripts
  BY SpoolAssumption DEF Inv, TypeOK, Request, Many
<1>i. FilesOK /\ WatcherOK /\ ConsumedOK
  BY DEF Inv
<1> USE <1>t, <1>i DEF FilesOK, WatcherOK, ConsumedOK
<1>1. ASSUME NEW s \in Scripts, Name(s) PROVE FilesOK' /\ WatcherOK' /\ ConsumedOK'
  BY <1>1 DEF Name, fileVars, watcherVars, runVars, lifeVars
<1>2. ASSUME NEW s \in Scripts, WriteRequest(s) PROVE FilesOK' /\ WatcherOK' /\ ConsumedOK'
  BY <1>2 DEF WriteRequest, watcherVars, runVars, lifeVars
<1>3. ASSUME NEW s \in Scripts, Rename(s) PROVE FilesOK' /\ WatcherOK' /\ ConsumedOK'
  <2>1. base[s] \in Names
    BY <1>3 DEF Rename
  <2>2. CASE tmp[base[s]] = NoScript
    BY <1>3, <2>2 DEF Rename, watcherVars, runVars, lifeVars
  <2>3. CASE tmp[base[s]] # NoScript
    <3>1. /\ req' = [req EXCEPT ![base[s]] = tmp[base[s]]]
          /\ tmp' = [tmp EXCEPT ![base[s]] = NoScript]
          /\ \E next \in {"polling", "done"} : pc' = [pc EXCEPT ![s] = next]
          /\ UNCHANGED <<base, asked, verdict, watcherVars, runVars>>
      BY <1>3, <2>3 DEF Rename
    <3>2. FilesOK'
      <4> SUFFICES ASSUME NEW q \in Scripts
          PROVE /\ pc'[q] # "start" => base[q] \in Names
                /\ verdict[q] # "none" => pc'[q] # "start"
                /\ \A n \in Names :
                      /\ tmp'[n] = q \/ req'[n] = q =>
                            n = base[q] /\ pc'[q] \notin {"start", "named"}
                      /\ ~ (tmp'[n] = q /\ req'[n] = q)
                /\ pc'[q] \in {"start", "named"} => sends[q] = 0
                /\ asked[q] <= latest
        BY <3>1 DEF runVars
      <4>1. pc'[q] = pc[q] \/ (q = s /\ pc'[q] \in {"polling", "done"})
        BY <3>1
      <4>2. pc[s] = "written"
        BY <1>3 DEF Rename
      <4>3. \A n \in Names :
              /\ tmp'[n] = q => tmp[n] = q /\ n # base[s]
              /\ req'[n] = q => req[n] = q \/ (tmp[n] = q /\ n = base[s])
        BY <2>1, <3>1
      <4> QED
        BY <4>1, <4>2, <4>3
    <3>3. WatcherOK'
      BY <2>1, <2>3, <3>1 DEF watcherVars, runVars
    <3>4. ConsumedOK'
      BY <2>1, <2>3, <3>1 DEF watcherVars, runVars
    <3> QED
      BY <3>2, <3>3, <3>4
  <2> QED
    BY <2>2, <2>3
<1>4. ASSUME NEW s \in Scripts, ReadResult(s) \/ RemoveResult(s) \/ ScriptEnds(s)
      PROVE FilesOK' /\ WatcherOK' /\ ConsumedOK'
  BY <1>4 DEF ReadResult, RemoveResult, ScriptEnds, fileVars, watcherVars, runVars, lifeVars
<1>5. ASSUME NEW n \in Names, Read(n) PROVE FilesOK' /\ WatcherOK' /\ ConsumedOK'
  BY <1>5 DEF Read, scriptVars, fileVars, runVars, lifeVars
<1>6. CASE Consume
  <2>1. wBase \in Names
    BY <1>6 DEF Consume
  <2>2. /\ req' = [req EXCEPT ![wBase] = IF @ \in Undeletable THEN @ ELSE NoScript]
        /\ watcher = "reading"
        /\ UNCHANGED <<scriptVars, tmp, wBase, runVars>>
    BY <1>6 DEF Consume, Discard
  <2>3. \/ watcher' = "opening" /\ wReq' = NoScript
        \/ watcher' = "sending" /\ wReq' = wReq /\ wReq # NoScript /\ wRun' = latest
    BY <1>6 DEF Consume, Decide, Forget, LastRun
  <2>4. FilesOK'
    BY <2>1, <2>2 DEF scriptVars, runVars
  <2>5. WatcherOK'
    BY <2>1, <2>2, <2>3 DEF scriptVars, runVars
  <2>6. ConsumedOK'
    <3> SUFFICES ASSUME NEW s \in Scripts \ Undeletable
        PROVE /\ wReq' = s /\ watcher' \in {"sending", "shown"} =>
                    \A n \in Names : req'[n] # s
              /\ sends'[s] > 0 =>
                    /\ \A n \in Names : tmp'[n] # s /\ req'[n] # s
                    /\ wReq' = s => watcher' = "shown"
      BY DEF ConsumedOK
    <3>1. wReq' = s => wReq = s /\ wBase = base[s] /\ sends[s] = 0
      BY <2>2, <2>3
    <3>2. \A n \in Names : req'[n] = s => req[n] = s
      BY <2>1, <2>2
    <3>3. wBase = base[s] => \A n \in Names : req'[n] # s
      BY <2>1, <2>2
    <3> QED
      BY <2>2, <3>1, <3>2, <3>3 DEF scriptVars, runVars
  <2> QED
    BY <2>4, <2>5, <2>6
<1>7. CASE Show
  BY <1>7 DEF Show, Many, scriptVars, fileVars, lifeVars
<1>8. CASE SendEnds \/ OpenResult \/ WriteResult \/ WriteFails \/ Poll
  BY <1>8 DEF SendEnds, OpenResult, WriteResult, WriteFails, Poll, Rest, Forget,
      scriptVars, fileVars, runVars, lifeVars
<1>9. ASSUME NEW n \in Names, Prune(n) PROVE FilesOK' /\ WatcherOK' /\ ConsumedOK'
  BY <1>9 DEF Prune, scriptVars, watcherVars, runVars, lifeVars
<1>10. CASE NewRun
  BY <1>10 DEF NewRun, scriptVars, fileVars, watcherVars, lifeVars
<1>11. CASE Crash \/ Restart
  BY <1>11 DEF Crash, Restart, Rest, Forget, scriptVars, fileVars, watcherVars, runVars
<1>12. CASE UNCHANGED vars
  BY <1>12 DEF vars, scriptVars, fileVars, watcherVars, runVars, lifeVars
<1> QED
  BY <1>1, <1>2, <1>3, <1>4, <1>5, <1>6, <1>7, <1>8, <1>9, <1>10, <1>11, <1>12
     DEF Next, ScriptStep, WatcherStep

-----------------------------------------------------------------------------
(* What is sent and what is said of it. *)

LEMMA StepSends == Inv /\ [Next]_vars => SentOnce'
<1> SUFFICES ASSUME Inv, [Next]_vars PROVE SentOnce'
  OBVIOUS
<1>1. SentOnce /\ sends \in [Scripts -> 0 .. 2]
  BY DEF Inv, TypeOK, Many
<1>2. CASE Show
  <2>1. wReq \in Scripts /\ (wReq \notin Undeletable => sends[wReq] = 0)
    BY <1>1, <1>2 DEF Inv, TypeOK, Request, ConsumedOK, Show
  <2> QED
    BY <1>1, <1>2, <2>1 DEF Show, SentOnce, Many
<1>3. CASE UNCHANGED sends
  BY <1>1, <1>3 DEF SentOnce
<1> QED
  BY <1>2, <1>3 DEF Next, ScriptStep, WatcherStep, Name, WriteRequest, Rename,
      ReadResult, RemoveResult, ScriptEnds, Poll, Read, Consume, SendEnds,
      OpenResult, WriteResult, WriteFails, Prune, NewRun, Crash, Restart,
      vars, runVars

\* Files are never taken back, and who sent one keeps its name.
LEMMA SentStays ==
  ASSUME Inv, [Next]_vars, NEW n, Sent(n)
  PROVE  Sent(n)'
<1>1. /\ sends \in [Scripts -> 0 .. 2] /\ DOMAIN base = Scripts
      /\ \A q \in Scripts : sends[q] > 0 => pc[q] # "start"
  BY DEF Inv, TypeOK, FilesOK, Many
<1>2. PICK q \in Scripts : base[q] = n /\ sends[q] > 0
  BY DEF Sent
<1>3. base'[q] = base[q]
  <2>1. ASSUME NEW s \in Scripts, Name(s) PROVE base'[q] = base[q]
    BY <1>1, <1>2, <2>1 DEF Name
  <2>2. CASE UNCHANGED base
    BY <2>2
  <2> QED
    BY <2>1, <2>2 DEF Next, ScriptStep, WatcherStep, WriteRequest, Rename, ReadResult,
        RemoveResult, ScriptEnds, Poll, Read, Consume, Show, SendEnds, OpenResult,
        WriteResult, WriteFails, Prune, NewRun, Crash, Restart, vars, scriptVars
<1>4. sends'[q] > 0
  <2>1. CASE Show
    BY <1>1, <1>2, <2>1 DEF Show, Many
  <2>2. CASE UNCHANGED sends
    BY <1>2, <2>2
  <2> QED
    BY <2>1, <2>2 DEF Next, ScriptStep, WatcherStep, Name, WriteRequest, Rename,
        ReadResult, RemoveResult, ScriptEnds, Poll, Read, Consume, SendEnds,
        OpenResult, WriteResult, WriteFails, Prune, NewRun, Crash, Restart,
        vars, runVars
<1> QED
  BY <1>2, <1>3, <1>4 DEF Sent

LEMMA StepResults == Inv /\ [Next]_vars => ResultsOK'
<1> SUFFICES ASSUME Inv, [Next]_vars PROVE ResultsOK'
  OBVIOUS
<1>t. /\ res \in [Names -> {"none", "empty", "ok", "error"}]
      /\ verdict \in [Scripts -> {"none", "ok", "failed"}]
      /\ watcher # "idle" => wBase \in Names
      /\ \A s \in Scripts : pc[s] # "start" => base[s] \in Names
  BY DEF Inv, TypeOK, FilesOK, WatcherOK
<1>r. /\ \A n \in Names : res[n] = "ok" => Sent(n)
      /\ outcome = "ok" => Sent(wBase)
      /\ \A s \in Scripts : verdict[s] = "ok" => Sent(base[s])
  BY DEF Inv, ResultsOK, OkIsSent, Sent
<1>s. /\ \A n \in Names : res[n] = "ok" => Sent(n)'
      /\ outcome = "ok" => \A n : n = wBase => Sent(n)'
  BY <1>r, SentStays
<1>b. \A s \in Scripts : verdict[s] # "none" => base'[s] = base[s] /\ pc[s] # "start"
  <2>1. \A s \in Scripts : verdict[s] # "none" => pc[s] # "start"
    BY DEF Inv, FilesOK
  <2>2. ASSUME NEW q \in Scripts, Name(q)
        PROVE  \A s \in Scripts : verdict[s] # "none" => base'[s] = base[s]
    BY <2>1, <2>2 DEF Name, Inv, TypeOK
  <2>3. CASE UNCHANGED base
    BY <2>1, <2>3
  <2> QED
    BY <2>1, <2>2, <2>3 DEF Next, ScriptStep, WatcherStep, WriteRequest, Rename, ReadResult,
        RemoveResult, ScriptEnds, Poll, Read, Consume, Show, SendEnds, OpenResult,
        WriteResult, WriteFails, Prune, NewRun, Crash, Restart, vars, scriptVars
<1>v. \A s \in Scripts : verdict[s] = "ok" => \A n : n = base'[s] => Sent(n)'
  BY <1>r, <1>b, SentStays
<1>o. ResultsOK' <=> /\ \A n \in Names : res'[n] = "ok" => Sent(n)'
                     /\ outcome' = "ok" => \A n : n = wBase' => Sent(n)'
                     /\ \A s \in Scripts : verdict'[s] = "ok" => \A n : n = base'[s] => Sent(n)'
  BY DEF ResultsOK, OkIsSent, Sent
<1>1. CASE UNCHANGED <<res, verdict>> /\ (outcome' # "ok" \/ UNCHANGED <<outcome, wBase>>)
  BY <1>1, <1>o, <1>s, <1>v
<1>2. ASSUME NEW s \in Scripts, ReadResult(s) PROVE ResultsOK'
  <2>1. /\ base[s] \in Names
        /\ verdict' = [verdict EXCEPT ![s] = IF res[base[s]] = "ok" THEN "ok" ELSE "failed"]
        /\ UNCHANGED <<base, res, outcome, wBase>>
    BY <1>2, <1>t DEF ReadResult, fileVars, watcherVars
  <2>2. \A q \in Scripts : verdict'[q] = "ok" =>
          verdict[q] = "ok" \/ (q = s /\ res[base[s]] = "ok")
    BY <1>t, <2>1
  <2> QED
    BY <1>o, <1>s, <1>v, <2>1, <2>2
<1>3. ASSUME NEW s \in Scripts, RemoveResult(s) PROVE ResultsOK'
  <2>1. UNCHANGED <<verdict, base, outcome, wBase>> /\ \A n \in Names : res'[n] \in {res[n], "none"}
    BY <1>3, <1>t DEF RemoveResult, watcherVars
  <2> QED
    BY <1>o, <1>s, <1>v, <2>1
<1>4. CASE SendEnds
  <2>1. UNCHANGED <<verdict, base, res, wBase, sends>>
    BY <1>4 DEF SendEnds, scriptVars, fileVars, runVars
  <2>2. outcome' = "ok" => Sent(wBase)
    <3>1. SUFFICES ASSUME outcome' = "ok" PROVE Sent(wBase)
      OBVIOUS
    <3>2. watcher = "shown"
      BY <1>4, <3>1 DEF SendEnds, Outcomes
    <3>3. wReq \in Scripts /\ sends[wReq] > 0 /\ wBase = base[wReq]
      BY <3>2 DEF Inv, TypeOK, WatcherOK, Request
    <3> QED
      BY <3>3 DEF Sent
  <2>3. outcome' = "ok" => \A n : n = wBase' => Sent(n)'
    BY <2>1, <2>2, SentStays
  <2> QED
    BY <1>o, <1>s, <1>v, <2>1, <2>3
<1>5. CASE OpenResult
  <2>1. UNCHANGED <<verdict, base, outcome, wBase>> /\ \A n \in Names : res'[n] \in {res[n], "empty"}
    BY <1>5, <1>t DEF OpenResult, scriptVars
  <2> QED
    BY <1>o, <1>s, <1>v, <2>1
<1>6. CASE WriteResult
  <2>1. /\ UNCHANGED <<verdict, base>> /\ outcome' = "none" /\ wBase \in Names
        /\ \A n \in Names : res'[n] = res[n] \/ (n = wBase /\ res'[n] = outcome)
    BY <1>6, <1>t DEF WriteResult, Rest, scriptVars
  <2> QED
    BY <1>o, <1>s, <1>v, <2>1
<1>7. ASSUME NEW n \in Names, Prune(n) PROVE ResultsOK'
  <2>1. UNCHANGED <<verdict, base, outcome, wBase>> /\ \A m \in Names : res'[m] \in {res[m], "none"}
    BY <1>7, <1>t DEF Prune, scriptVars, watcherVars
  <2> QED
    BY <1>o, <1>s, <1>v, <2>1
<1>8. ASSUME NEW n \in Names, Read(n) PROVE ResultsOK'
  <2>1. outcome = "none"
    BY <1>8 DEF Read, Inv, WatcherOK
  <2> QED
    BY <1>8, <2>1, <1>1 DEF Read, scriptVars, fileVars
<1> QED
  BY <1>1, <1>2, <1>3, <1>4, <1>5, <1>6, <1>7, <1>8
     DEF Next, ScriptStep, WatcherStep, Name, WriteRequest, Rename, ScriptEnds,
      Poll, Consume, Decide, Show, WriteFails, Rest, NewRun, Crash, Restart,
      vars, scriptVars, fileVars, watcherVars

LEMMA InvStep == Inv /\ [Next]_vars => Inv'
BY StepTypes, StepFiles, StepSends, StepResults DEF Inv

LEMMA InvHolds == Spec => []Inv
BY InvInit, InvStep, PTL DEF Spec

-----------------------------------------------------------------------------
(* The theorems. *)

\* The variables of the spool keep their types; a request is only sent with a
\* path and a chat at hand (Spool._handle returns early without one).
THEOREM TypeCorrect == Spec => []TypeOK
BY InvHolds, PTL DEF Inv

\* poll_once discards a request before it sends the file: no file is sent
\* twice, over any number of scripts, shared names, deaths and polls.
THEOREM NoFileIsSentTwice == Spec => []SentOnce
BY InvHolds, PTL DEF Inv

\* A script of send-to-feishu.sh that reports success reports a file that was
\* sent under its name.
THEOREM SuccessIsSent == Spec => []OkIsSent
BY InvHolds, PTL DEF Inv, ResultsOK

\* last_chat_for_project: a file never goes to the chat of a run older than
\* the newest when its script started, and so than the one that asked for it.
THEOREM NeverToAnEarlierRun == Spec => []NotToAnEarlierRun
<1>1. Inv => NotToAnEarlierRun
  BY DEF Inv, TypeOK, WatcherOK, Request, NotToAnEarlierRun
<1> QED
  BY <1>1, InvHolds, PTL
=============================================================================
