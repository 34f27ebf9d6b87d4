------------------------------ MODULE JobsProofs ------------------------------
(***************************************************************************)
(* Proofs about module Jobs, for any number of tool calls of the agent.    *)
(***************************************************************************)
EXTENDS Jobs, TLAPS

-----------------------------------------------------------------------------
(* The inductive invariant. *)

\* A call has no row before it has the lock, its row is open until its worker
\* has settled it, and has then one of the ends that a worker writes.
RowsOK ==
    \A c \in Calls :
        /\ job[c].pc \in {"idle", "asked", "registered", "refused"} =>
              row[c].status = "none"
        /\ job[c].pc \in {"begun", "spawned", "running", "ended"} =>
              row[c].status \in Open
        /\ job[c].pc \in {"settled", "resettled"} =>
              row[c].status \in {"succeeded", "failed", "stopped"}

\* The server takes its threads with it, and a bridge that dies the server.
ServerOK ==
    /\ server = "gone" => \A c \in Calls : job[c].pc \notin Registered \cup {"asked"}
    /\ bridge # "up" => server = "gone"

LockOK == \A c, d \in Calls : job[c].pc \in Working /\ job[d].pc \in Working => c = d

\* Whose a living process is: the worker's that waits for it, or nobody's.
ProcsOK ==
    \A c \in Calls :
        /\ Alive(c) /\ ~ Leaked(c) =>
              \/ job[c].pc \in {"spawned", "running"}
              \/ kind = "container" /\ server = "gone"
        /\ Leaked(c) => job[c].pc \in {"ended", "settled", "resettled", "answered", "lost"}

\* Two processes on the host are alive only if one is leaked.
OneProcess ==
    \A c, d \in Calls : Alive(c) /\ Alive(d) => c = d \/ Leaked(c) \/ Leaked(d)

Inv ==
    /\ TypeOK
    /\ RowsOK
    /\ ServerOK
    /\ LockOK
    /\ ProcsOK
    /\ OneProcess

LEMMA InvInit == Init => Inv
<1> SUFFICES ASSUME Init PROVE Inv
  OBVIOUS
<1> USE DEF Init, NoJob, NoRow, NoStop
<1>1. TypeOK
  BY DEF TypeOK, JobStates, RowStates, NoCall
<1>2. RowsOK /\ ServerOK /\ LockOK
  BY DEF RowsOK, ServerOK, LockOK, Registered, Working
<1>3. ProcsOK /\ OneProcess
  BY DEF ProcsOK, OneProcess, Alive, Leaked
<1> QED
  BY <1>1, <1>2, <1>3 DEF Inv

-----------------------------------------------------------------------------
(* What the steps do to one job and to one row. *)

LEMMA RowTypes ==
  ASSUME NEW r \in RowStates, NEW v \in {"none", "ok", "error", "cancelled"}
  PROVE  /\ Inserted \in RowStates /\ SetPid(r) \in RowStates
         /\ SetInnerPid(r) \in RowStates /\ Finished(r, v) \in RowStates
         /\ MarkedStopping(r) \in RowStates /\ Interrupted(r) \in RowStates
BY DEF RowStates, Inserted, NoRow, SetPid, SetInnerPid, Finished,
    MarkedStopping, Interrupted, Final, Open

\* The statuses a transaction can leave behind.
LEMMA RowSteps ==
  ASSUME NEW r \in RowStates, NEW v \in {"none", "ok", "error", "cancelled"}
  PROVE  /\ SetPid(r).status = r.status
         /\ SetInnerPid(r).status = r.status
         /\ Finished(r, v).status \in {"succeeded", "failed", "stopped"}
         /\ r.status = "stopping" => Finished(r, v).status = "stopped"
         /\ MarkedStopping(r).status =
              IF r.status = "running" THEN "stopping" ELSE r.status
         /\ Interrupted(r).status =
              IF r.status \in Open THEN "interrupted" ELSE r.status
BY DEF RowStates, NoRow, SetPid, SetInnerPid, Finished, MarkedStopping,
    Interrupted, Final, Open

LEMMA AbandonedJob ==
  ASSUME NEW j \in JobStates
  PROVE  /\ Abandoned(j) \in JobStates
         /\ Abandoned(j).pc \notin Registered \cup {"asked"}
         /\ Abandoned(j).pc = j.pc \/ Abandoned(j).pc = "lost"
         /\ Abandoned(j).proc = "alive" => j.proc = "alive" /\ kind # "sandbox"
         /\ Abandoned(j).flag = "leaked" <=> j.flag = "leaked"
<1>1. CASE j.pc \in Registered \cup {"asked"} \/ j.proc = "alive"
  <2> DEFINE pc == IF j.pc = "answered" THEN j.pc ELSE "lost"
             proc == IF j.proc = "alive" /\ ~ DieWithParent THEN "alive" ELSE "exited"
             flag == IF j.flag = "leaked" THEN j.flag ELSE "no"
  <2>1. Abandoned(j) = [pc |-> pc, cancel |-> FALSE, proc |-> proc,
           inner |-> j.inner, known |-> FALSE, stop |-> "no", flag |-> flag,
           exit |-> "none", verdict |-> "none"]
    BY <1>1 DEF Abandoned, NoJob
  <2>2. /\ pc \in {"answered", "lost"} /\ proc \in {"alive", "exited"}
        /\ flag \in {"no", "leaked"}
    OBVIOUS
  <2>3. j.inner \in {"none", "alive", "dead"}
    BY DEF JobStates
  <2>4. Abandoned(j) \in JobStates
    <3> HIDE DEF pc, proc, flag
    <3> QED
      BY <2>1, <2>2, <2>3 DEF JobStates
  <2> QED
    BY <1>1, <2>1, <2>2, <2>4 DEF Registered, Working, DieWithParent
<1>2. CASE ~ (j.pc \in Registered \cup {"asked"} \/ j.proc = "alive")
  BY <1>2 DEF Abandoned
<1> QED
  BY <1>1, <1>2

LEMMA SignalledJob ==
  ASSUME NEW j \in JobStates, NEW c \in Calls, NEW p, NEW i
  PROVE  /\ Signalled(j, c, p, i) \in JobStates
         /\ Signalled(j, c, p, i).pc = j.pc
         /\ Signalled(j, c, p, i).flag = j.flag
         /\ Signalled(j, c, p, i).proc = "alive" => j.proc = "alive"
<1> DEFINE hit == c \in p /\ j.proc = "alive"
           proc == IF hit THEN "killed" ELSE j.proc
           exit == IF hit /\ j.pc \in Heeded THEN "other" ELSE j.exit
           inner == IF c \in i /\ j.inner = "alive" THEN "dead" ELSE j.inner
           A == [j EXCEPT !.proc = proc]
           B == [A EXCEPT !.exit = exit]
<1>1. Signalled(j, c, p, i) = [B EXCEPT !.inner = inner]
  BY DEF Signalled, JobStates
<1>2. /\ proc \in {"none", "alive", "exited", "killed"}
      /\ exit \in {"none", "zero", "other"}
      /\ inner \in {"none", "alive", "dead"}
      /\ proc = "alive" => j.proc = "alive"
  BY DEF JobStates
<1> HIDE DEF proc, exit, inner
<1>3. A \in JobStates /\ A.pc = j.pc /\ A.flag = j.flag /\ A.proc = proc
  BY <1>2 DEF JobStates
<1>4. B \in JobStates /\ B.pc = j.pc /\ B.flag = j.flag /\ B.proc = proc
  <2> HIDE DEF A
  <2> QED
    BY <1>2, <1>3 DEF JobStates
<1> HIDE DEF B
<1>5. /\ [B EXCEPT !.inner = inner] \in JobStates
      /\ [B EXCEPT !.inner = inner].pc = B.pc
      /\ [B EXCEPT !.inner = inner].flag = B.flag
      /\ [B EXCEPT !.inner = inner].proc = B.proc
  BY <1>2, <1>4 DEF JobStates
<1> QED
  BY <1>1, <1>2, <1>4, <1>5

LEMMA EndedJob ==
  ASSUME NEW j \in JobStates, NEW v \in {"none", "ok", "error", "cancelled"}
  PROVE  /\ Ended(j, v) \in JobStates
         /\ Ended(j, v).pc = "ended" /\ Ended(j, v).proc = "exited"
         /\ Ended(j, v).flag = "no"
<1> DEFINE inner == IF j.inner = "alive" THEN "alive" ELSE "dead"
           A == [NoJob EXCEPT !.pc = "ended"]
           B == [A EXCEPT !.verdict = v]
           C == [B EXCEPT !.proc = "exited"]
<1>1. Ended(j, v) = [C EXCEPT !.inner = inner]
  BY DEF Ended
<1>2. inner \in {"none", "alive", "dead"}
  OBVIOUS
<1>3. A \in JobStates /\ A.pc = "ended" /\ A.flag = "no"
  BY DEF NoJob, JobStates, Registered, Working
<1>4. B \in JobStates /\ B.pc = "ended" /\ B.flag = "no"
  <2> HIDE DEF A
  <2> QED
    BY <1>3 DEF JobStates
<1>5. C \in JobStates /\ C.pc = "ended" /\ C.flag = "no" /\ C.proc = "exited"
  <2> HIDE DEF B
  <2> QED
    BY <1>4 DEF JobStates
<1> HIDE DEF inner, C
<1> QED
  BY <1>1, <1>2, <1>5 DEF JobStates

-----------------------------------------------------------------------------
(* How a step moves a call: what happens to its place, its process and the *)
(* status of its row.                                                      *)

\* No process is started, and none is given up by its runner.
Fewer(c) == (Alive(c)' => Alive(c)) /\ (Leaked(c)' <=> Leaked(c))
RowStays(c) == row'[c].status = row[c].status
Marked(c) == row[c].status = "running" /\ row'[c].status = "stopping"
Goes(c, from, to) == job[c].pc = from /\ job'[c].pc = to

Stays(c) == job'[c].pc = job[c].pc /\ Fewer(c) /\ RowStays(c)

\* A step of one call's own.
Moves(c) ==
    \/ Stays(c)
    \/ /\ Goes(c, "idle", "asked") \/ Goes(c, "asked", "registered")
       /\ Fewer(c) /\ RowStays(c) /\ server # "gone"
    \/ /\ Goes(c, "registered", "begun") /\ ToolLockFree
       /\ Fewer(c) /\ row'[c].status = "running"
    \/ /\ Goes(c, "registered", "answered") \/ Goes(c, "registered", "refused")
       /\ Fewer(c) /\ RowStays(c)
    \/ Goes(c, "begun", "spawned") /\ ~ Leaked(c)' /\ RowStays(c)
    \/ Goes(c, "spawned", "running") /\ Fewer(c) /\ RowStays(c)
    \/ /\ Goes(c, "begun", "ended") \/ Goes(c, "spawned", "ended") \/ Goes(c, "running", "ended")
       /\ Leaked(c)' \/ ~ Alive(c)'
       /\ RowStays(c)
    \/ /\ Goes(c, "ended", "settled") /\ Fewer(c)
       /\ row'[c].status \in {"succeeded", "failed", "stopped"}
       /\ row[c].status = "stopping" => row'[c].status = "stopped"
    \/ /\ Goes(c, "settled", "resettled") /\ Fewer(c)
       /\ row'[c].status = "failed" /\ agent = "dead"
    \/ /\ Goes(c, "settled", "answered") \/ Goes(c, "resettled", "answered")
       /\ Fewer(c) /\ RowStays(c)

\* A step of something else that reaches every call.
Suffers(c) ==
    \/ /\ job'[c].pc = job[c].pc /\ Fewer(c)
       /\ server' = "gone" => server = "gone"
       /\ RowStays(c) \/ Marked(c)
    \/ /\ job'[c].pc \notin Registered \cup {"asked"}
       /\ job'[c].pc = job[c].pc \/ job'[c].pc = "lost"
       /\ Fewer(c) /\ (Alive(c)' => kind = "container")
       /\ server' = "gone"
       /\ RowStays(c) \/ Marked(c)
    \/ /\ job'[c] = job[c] /\ server = "gone" /\ server' = "gone"
       /\ row'[c].status = IF row[c].status \in Open THEN "interrupted" ELSE row[c].status

Typed == job' \in [Calls -> JobStates] /\ row' \in [Calls -> RowStates]

OneMoves(c) ==
    /\ Typed
    /\ Moves(c)
    /\ \A d \in Calls \ {c} : job'[d] = job[d] /\ row'[d] = row[d]

\* What a step on one call's job, or job and row, has to show.
LEMMA OneCall ==
  ASSUME Inv, NEW c \in Calls, NEW j \in JobStates, NEW r \in RowStates,
         job' = [job EXCEPT ![c] = j], row' = [row EXCEPT ![c] = r]
  PROVE  /\ Typed
         /\ job'[c] = j /\ row'[c] = r
         /\ \A d \in Calls \ {c} : job'[d] = job[d] /\ row'[d] = row[d]
BY DEF Inv, TypeOK, Typed

LEMMA OneJob ==
  ASSUME Inv, NEW c \in Calls, NEW j \in JobStates,
         job' = [job EXCEPT ![c] = j], row' = row
  PROVE  /\ Typed
         /\ job'[c] = j /\ row'[c] = row[c]
         /\ \A d \in Calls \ {c} : job'[d] = job[d] /\ row'[d] = row[d]
BY DEF Inv, TypeOK, Typed

-----------------------------------------------------------------------------
(* The steps of one call. *)

LEMMA DispatchMoves ==
  ASSUME Inv, NEW c \in Calls, Dispatch(c) \/ CancelNotice(c)
  PROVE  OneMoves(c)
<1>a. job[c] \in JobStates /\ row[c] \in RowStates
  BY DEF Inv, TypeOK
<1>b. Leaked(c) => job[c].pc \in {"ended", "settled", "resettled", "answered", "lost"}
  BY DEF Inv, ProcsOK
<1>1. CASE Dispatch(c)
  <2> DEFINE j == [job[c] EXCEPT !.pc = "asked"]
  <2>1. j \in JobStates /\ j.pc = "asked" /\ j.proc = job[c].proc /\ j.flag = job[c].flag
    BY <1>a DEF JobStates, Registered, Working
  <2>2. job' = [job EXCEPT ![c] = j] /\ row' = row
    BY <1>1 DEF Dispatch
  <2> HIDE DEF j
  <2>3. /\ Typed /\ job'[c] = j /\ row'[c] = row[c]
        /\ \A d \in Calls \ {c} : job'[d] = job[d] /\ row'[d] = row[d]
    BY <2>1, <2>2, OneJob
  <2> QED
    BY <1>a, <1>b, <1>1, <2>1, <2>3 DEF Dispatch, OneMoves, Moves, Stays, Goes, Fewer, RowStays, Alive, Leaked
<1>2. CASE CancelNotice(c)
  <2> DEFINE j == [job[c] EXCEPT !.cancel = TRUE]
  <2>1. j \in JobStates /\ j.pc = job[c].pc /\ j.proc = job[c].proc /\ j.flag = job[c].flag
    BY <1>a DEF JobStates, Registered, Working
  <2>2. job' = [job EXCEPT ![c] = j] /\ row' = row
    BY <1>2 DEF CancelNotice
  <2> HIDE DEF j
  <2>3. /\ Typed /\ job'[c] = j /\ row'[c] = row[c]
        /\ \A d \in Calls \ {c} : job'[d] = job[d] /\ row'[d] = row[d]
    BY <2>1, <2>2, OneJob
  <2> QED
    BY <1>a, <1>b, <1>2, <2>1, <2>3 DEF OneMoves, Moves, Stays, Goes, Fewer, RowStays, Alive, Leaked
<1> QED
  BY <1>1, <1>2

LEMMA ServerMoves ==
  ASSUME Inv, NEW c \in Calls, Register(c) \/ Begin(c) \/ Settle(c) \/ SettleAgain(c) \/ Release(c),
         server # "gone"
  PROVE  OneMoves(c)
<1>a. job[c] \in JobStates /\ row[c] \in RowStates
  BY DEF Inv, TypeOK
<1>b. Leaked(c) => job[c].pc \in {"ended", "settled", "resettled", "answered", "lost"}
  BY DEF Inv, ProcsOK
<1>1. CASE Register(c)
  <2> DEFINE j == [job[c] EXCEPT !.pc = "registered"]
  <2>1. j \in JobStates /\ j.pc = "registered" /\ j.proc = job[c].proc /\ j.flag = job[c].flag
    BY <1>a DEF JobStates, Registered, Working
  <2>2. job' = [job EXCEPT ![c] = j] /\ row' = row
    BY <1>1 DEF Register
  <2> HIDE DEF j
  <2>3. /\ Typed /\ job'[c] = j /\ row'[c] = row[c]
        /\ \A d \in Calls \ {c} : job'[d] = job[d] /\ row'[d] = row[d]
    BY <2>1, <2>2, OneJob
  <2> QED
    BY <1>a, <1>b, <1>1, <2>1, <2>3 DEF Register, OneMoves, Moves, Stays, Goes, Fewer, RowStays, Alive, Leaked
<1>2. CASE /\ job[c].pc = "registered" /\ ToolLockFree
            /\ job' = [job EXCEPT ![c].pc = "begun"]
            /\ row' = [row EXCEPT ![c] = IF kind = "sandbox" THEN Inserted
                                         ELSE ContainerInserted]
  <2> DEFINE j == [job[c] EXCEPT !.pc = "begun"]
             r == Inserted
  <2>1. j \in JobStates /\ j.pc = "begun" /\ j.proc = job[c].proc /\ j.flag = job[c].flag
    BY <1>a DEF JobStates, Registered, Working
  <2>2. r \in RowStates /\ r.status = "running"
    BY DEF Inserted, NoRow, RowStates, Final, Open
  <2>3. job' = [job EXCEPT ![c] = j] /\ row' = [row EXCEPT ![c] = r]
    BY <1>2 DEF ContainerInserted
  <2> HIDE DEF j, r
  <2>4. /\ Typed /\ job'[c] = j /\ row'[c] = r
        /\ \A d \in Calls \ {c} : job'[d] = job[d] /\ row'[d] = row[d]
    BY <2>1, <2>2, <2>3, OneCall
  <2> QED
    BY <1>a, <1>b, <1>2, <2>1, <2>2, <2>4 DEF OneMoves, Moves, Stays, Goes, Fewer, RowStays, Alive, Leaked
<1>3. CASE /\ job[c].pc = "registered"
            /\ job' = [job EXCEPT ![c] = [NoJob EXCEPT !.pc = "answered"]]
            /\ row' = row
  <2> DEFINE j == [NoJob EXCEPT !.pc = "answered"]
  <2>1. j \in JobStates /\ j.pc = "answered" /\ j.proc = "none" /\ j.flag = "no"
    BY DEF NoJob, JobStates, Registered, Working
  <2>2. job' = [job EXCEPT ![c] = j] /\ row' = row
    BY <1>3
  <2> HIDE DEF j
  <2>3. /\ Typed /\ job'[c] = j /\ row'[c] = row[c]
        /\ \A d \in Calls \ {c} : job'[d] = job[d] /\ row'[d] = row[d]
    BY <2>1, <2>2, OneJob
  <2> QED
    BY <1>a, <1>b, <1>3, <2>1, <2>3 DEF OneMoves, Moves, Stays, Goes, Fewer, RowStays, Alive, Leaked
<1>4. CASE /\ job[c].pc = "registered"
            /\ job' = [job EXCEPT ![c] = [NoJob EXCEPT !.pc = "refused"]]
            /\ row' = row
  <2> DEFINE j == [NoJob EXCEPT !.pc = "refused"]
  <2>1. j \in JobStates /\ j.pc = "refused" /\ j.proc = "none" /\ j.flag = "no"
    BY DEF NoJob, JobStates, Registered, Working
  <2>2. job' = [job EXCEPT ![c] = j] /\ row' = row
    BY <1>4
  <2> HIDE DEF j
  <2>3. /\ Typed /\ job'[c] = j /\ row'[c] = row[c]
        /\ \A d \in Calls \ {c} : job'[d] = job[d] /\ row'[d] = row[d]
    BY <2>1, <2>2, OneJob
  <2> QED
    BY <1>a, <1>b, <1>4, <2>1, <2>3 DEF OneMoves, Moves, Stays, Goes, Fewer, RowStays, Alive, Leaked
<1>5. CASE Settle(c)
  <2> DEFINE k == [job[c] EXCEPT !.pc = "settled"]
             j == [k EXCEPT !.verdict = "none"]
             r == Finished(row[c], job[c].verdict)
  <2>1. j \in JobStates /\ j.pc = "settled" /\ j.proc = job[c].proc /\ j.flag = job[c].flag
    <3>1. k \in JobStates /\ k.pc = "settled" /\ k.proc = job[c].proc /\ k.flag = job[c].flag
      BY <1>a DEF JobStates, Registered, Working
    <3> HIDE DEF k
    <3> QED
      BY <3>1 DEF JobStates
  <2>2. /\ r \in RowStates /\ r.status \in {"succeeded", "failed", "stopped"}
        /\ row[c].status = "stopping" => r.status = "stopped"
    BY <1>a, RowTypes, RowSteps DEF JobStates
  <2>3. job' = [job EXCEPT ![c] = j] /\ row' = [row EXCEPT ![c] = r]
    BY <1>5, <1>a DEF Settle, ContainerFinished, Inv, TypeOK, JobStates
  <2> HIDE DEF j, r
  <2>4. /\ Typed /\ job'[c] = j /\ row'[c] = r
        /\ \A d \in Calls \ {c} : job'[d] = job[d] /\ row'[d] = row[d]
    BY <2>1, <2>2, <2>3, OneCall
  <2> QED
    BY <1>a, <1>b, <1>5, <2>1, <2>2, <2>4 DEF Settle, OneMoves, Moves, Stays, Goes, Fewer, RowStays, Alive, Leaked
<1>6. CASE Release(c)
  <2> DEFINE j == [job[c] EXCEPT !.pc = "answered"]
  <2>1. j \in JobStates /\ j.pc = "answered" /\ j.proc = job[c].proc /\ j.flag = job[c].flag
    BY <1>a DEF JobStates, Registered, Working
  <2>2. job' = [job EXCEPT ![c] = j] /\ row' = row
    BY <1>6 DEF Release
  <2> HIDE DEF j
  <2>3. /\ Typed /\ job'[c] = j /\ row'[c] = row[c]
        /\ \A d \in Calls \ {c} : job'[d] = job[d] /\ row'[d] = row[d]
    BY <2>1, <2>2, OneJob
  <2> QED
    BY <1>a, <1>b, <1>6, <2>1, <2>3 DEF Release, OneMoves, Moves, Stays, Goes, Fewer, RowStays, Alive, Leaked
<1>7. CASE SettleAgain(c)
  <2> DEFINE j == [job[c] EXCEPT !.pc = "resettled"]
             r == Finished(row[c], "error")
  <2>1. j \in JobStates /\ j.pc = "resettled" /\ j.proc = job[c].proc /\ j.flag = job[c].flag
    BY <1>a DEF JobStates, Registered, Working
  <2>2. r \in RowStates /\ r.status = "failed"
    <3>1. row[c].status # "stopping" /\ r \in RowStates
      BY <1>a, <1>7, RowTypes DEF SettleAgain, Inv, RowsOK
    <3> QED
      BY <3>1 DEF Finished, NoRow
  <2>3. job' = [job EXCEPT ![c] = j] /\ row' = [row EXCEPT ![c] = r]
    BY <1>7 DEF SettleAgain, ContainerFinished
  <2> HIDE DEF j, r
  <2>4. /\ Typed /\ job'[c] = j /\ row'[c] = r
        /\ \A d \in Calls \ {c} : job'[d] = job[d] /\ row'[d] = row[d]
    BY <2>1, <2>2, <2>3, OneCall
  <2> QED
    BY <1>a, <1>b, <1>7, <2>1, <2>2, <2>4
    DEF SettleAgain, OneMoves, Moves, Goes, Fewer, Alive, Leaked
<1> QED
  BY <1>1, <1>2, <1>3, <1>4, <1>5, <1>6, <1>7 DEF Begin

-----------------------------------------------------------------------------
(* The runners and the commands. *)

LEMMA StaysMoves ==
  ASSUME Inv, NEW c \in Calls, NEW j \in JobStates,
         job' = [job EXCEPT ![c] = j], row' = row,
         j.pc = job[c].pc, j.proc = "alive" => Alive(c),
         j.flag = "leaked" <=> Leaked(c)
  PROVE  OneMoves(c)
<1>1. /\ Typed /\ job'[c] = j /\ row'[c] = row[c]
      /\ \A d \in Calls \ {c} : job'[d] = job[d] /\ row'[d] = row[d]
  BY OneJob
<1> QED
  BY <1>1 DEF OneMoves, Moves, Stays, Fewer, RowStays, Alive, Leaked

LEMMA EndMoves ==
  ASSUME Inv, NEW c \in Calls, NEW j \in JobStates,
         NEW v \in {"none", "ok", "error", "cancelled"},
         job[c].pc \in {"begun", "spawned", "running"},
         job' = [job EXCEPT ![c] = Ended(j, v)], row' = row
  PROVE  OneMoves(c)
<1>1. Ended(j, v) \in JobStates /\ Ended(j, v).pc = "ended" /\ Ended(j, v).proc = "exited"
  BY EndedJob
<1>2. /\ Typed /\ job'[c] = Ended(j, v) /\ row'[c] = row[c]
      /\ \A d \in Calls \ {c} : job'[d] = job[d] /\ row'[d] = row[d]
  BY <1>1, OneJob
<1> QED
  BY <1>1, <1>2 DEF OneMoves, Moves, Goes, RowStays, Alive

LEMMA LaunchMoves ==
  ASSUME Inv, NEW c \in Calls, SandboxLaunch(c) \/ ContainerLaunch(c)
  PROVE  OneMoves(c)
<1>a. job[c] \in JobStates /\ job[c].pc = "begun" /\ row' = row
  BY DEF Inv, TypeOK, SandboxLaunch, ContainerLaunch
<1>b. ~ Leaked(c)
  BY <1>a DEF Inv, ProcsOK
<1>1. CASE job' = [job EXCEPT ![c] = Ended(job[c], "error")]
  BY <1>a, <1>1, EndMoves
<1>2. CASE job' = [job EXCEPT ![c].pc = "spawned", ![c].proc = "alive"]
  <2> DEFINE j == [job[c] EXCEPT !.pc = "spawned", !.proc = "alive"]
  <2>1. j \in JobStates /\ j.pc = "spawned" /\ j.flag = job[c].flag
    BY <1>a DEF JobStates, Registered, Working
  <2>2. job' = [job EXCEPT ![c] = j]
    BY <1>2 DEF Inv, TypeOK
  <2> HIDE DEF j
  <2>3. /\ Typed /\ job'[c] = j /\ row'[c] = row[c]
        /\ \A d \in Calls \ {c} : job'[d] = job[d] /\ row'[d] = row[d]
    BY <1>a, <2>1, <2>2, OneJob
  <2> QED
    BY <1>a, <1>b, <2>1, <2>3 DEF OneMoves, Moves, Goes, RowStays, Leaked
<1> QED
  BY <1>1, <1>2 DEF SandboxLaunch, ContainerLaunch

LEMMA PidMoves ==
  ASSUME Inv, NEW c \in Calls, SandboxPid(c) \/ ContainerPid(c) \/ ReadMarker(c)
  PROVE  OneMoves(c)
<1>a. job[c] \in JobStates /\ row[c] \in RowStates
  BY DEF Inv, TypeOK
<1>1. CASE SandboxPid(c) \/ ContainerPid(c)
  <2> DEFINE j == [job[c] EXCEPT !.pc = "running"]
             r == SetPid(row[c])
  <2>1. j \in JobStates /\ j.pc = "running" /\ j.proc = job[c].proc /\ j.flag = job[c].flag
    BY <1>a DEF JobStates, Registered, Working
  <2>2. r \in RowStates /\ r.status = row[c].status
    BY <1>a, RowTypes, RowSteps
  <2>3. /\ job[c].pc = "spawned"
        /\ job' = [job EXCEPT ![c] = j] /\ row' = [row EXCEPT ![c] = r]
    BY <1>1 DEF SandboxPid, ContainerPid, ContainerSetPid
  <2> HIDE DEF j, r
  <2>4. /\ Typed /\ job'[c] = j /\ row'[c] = r
        /\ \A d \in Calls \ {c} : job'[d] = job[d] /\ row'[d] = row[d]
    BY <2>1, <2>2, <2>3, OneCall
  <2> QED
    BY <2>1, <2>2, <2>3, <2>4 DEF OneMoves, Moves, Goes, Fewer, RowStays, Alive, Leaked
<1>2. CASE ReadMarker(c)
  <2> DEFINE j == [job[c] EXCEPT !.known = TRUE]
             r == SetInnerPid(row[c])
  <2>1. j \in JobStates /\ j.pc = job[c].pc /\ j.proc = job[c].proc /\ j.flag = job[c].flag
    BY <1>a DEF JobStates
  <2>2. r \in RowStates /\ r.status = row[c].status
    BY <1>a, RowTypes, RowSteps
  <2>3. job' = [job EXCEPT ![c] = j] /\ row' = [row EXCEPT ![c] = r]
    BY <1>2 DEF ReadMarker
  <2> HIDE DEF j, r
  <2>4. /\ Typed /\ job'[c] = j /\ row'[c] = r
        /\ \A d \in Calls \ {c} : job'[d] = job[d] /\ row'[d] = row[d]
    BY <2>1, <2>2, <2>3, OneCall
  <2> QED
    BY <2>1, <2>2, <2>4 DEF OneMoves, Moves, Stays, Fewer, RowStays, Alive, Leaked
<1> QED
  BY <1>1, <1>2

\* What a pass of a runner's loop may write of its job.
Reasons == {"cancelled", "timeout"}
Stops == {"no", "asked", "term"}
Procs == {"none", "alive", "exited", "killed"}
Exits == {"none", "zero", "other"}
Inners == {"none", "alive", "dead"}

Ticked(j, f, s, p, x, i) ==
    [[[[[j EXCEPT !.flag = f] EXCEPT !.stop = s] EXCEPT !.proc = p]
         EXCEPT !.exit = x] EXCEPT !.inner = i]

LEMMA TickedJob ==
  ASSUME NEW j \in JobStates, NEW f \in Reasons, NEW s \in Stops,
         NEW p \in Procs, NEW x \in Exits, NEW i \in Inners
  PROVE  /\ Ticked(j, f, s, p, x, i) \in JobStates
         /\ Ticked(j, f, s, p, x, i).pc = j.pc
         /\ Ticked(j, f, s, p, x, i).flag = f
         /\ Ticked(j, f, s, p, x, i).proc = p
         /\ Ticked(j, f, s, p, x, i).exit = x
         /\ Ticked(j, f, s, p, x, i).inner = i
         /\ Ticked(j, f, s, p, x, i).verdict = j.verdict
<1> DEFINE k1 == [j EXCEPT !.flag = f]
           k2 == [k1 EXCEPT !.stop = s]
           k3 == [k2 EXCEPT !.proc = p]
           k4 == [k3 EXCEPT !.exit = x]
           k5 == [k4 EXCEPT !.inner = i]
           Same(k) == k.pc = j.pc /\ k.verdict = j.verdict
<1>1. k1 \in JobStates /\ Same(k1) /\ k1.flag = f
  BY DEF JobStates, Reasons
<1>2. k2 \in JobStates /\ Same(k2) /\ k2.flag = f
  <2> HIDE DEF k1
  <2> QED
    BY <1>1 DEF JobStates, Stops
<1>3. k3 \in JobStates /\ Same(k3) /\ k3.flag = f /\ k3.proc = p
  <2> HIDE DEF k2
  <2> QED
    BY <1>2 DEF JobStates, Procs
<1>4. k4 \in JobStates /\ Same(k4) /\ k4.flag = f /\ k4.proc = p /\ k4.exit = x
  <2> HIDE DEF k3
  <2> QED
    BY <1>3 DEF JobStates, Exits
<1>5. /\ k5 \in JobStates /\ Same(k5) /\ k5.flag = f /\ k5.proc = p
      /\ k5.exit = x /\ k5.inner = i
  <2> HIDE DEF k4
  <2> QED
    BY <1>4 DEF JobStates, Inners
<1>6. Ticked(j, f, s, p, x, i) = k5
  BY DEF Ticked
<1> QED
  BY <1>5, <1>6

LEMMA TickedMoves ==
  ASSUME Inv, NEW c \in Calls, job[c].pc = "running", NEW j \in JobStates,
         job' = [job EXCEPT ![c] = j], row' = row,
         j.pc = job[c].pc, j.proc = "alive" => Alive(c),
         j.flag \in {"cancelled", "timeout"}
  PROVE  OneMoves(c)
<1>1. ~ Leaked(c)
  BY DEF Inv, ProcsOK
<1> QED
  BY <1>1, StaysMoves

\* A pass of the loop: the process does not start again, a code is only
\* replaced by that of a killed process.
Pass(c) ==
    /\ job[c].pc = "running" /\ row' = row
    /\ \E s \in Stops, p \in Procs, x \in Exits, i \in Inners :
          /\ job' = [job EXCEPT ![c] = Ticked(job[c], Reason(job[c]), s, p, x, i)]
          /\ p = "alive" => Alive(c)
          /\ x = job[c].exit \/ x = "other"
          /\ i = "alive" => job[c].inner = "alive"

LEMMA SandboxPass ==
  ASSUME Inv, NEW c \in Calls, SandboxTick(c)
  PROVE  Pass(c)
<1>a. job[c] \in JobStates /\ job[c].pc = "running" /\ Alive(c) /\ row' = row
  BY DEF Inv, TypeOK, SandboxTick
<1>1. PICK p \in {"alive", "killed"} :
        job' = [job EXCEPT ![c] =
                  [job[c] EXCEPT !.flag = Reason(job[c]), !.stop = "term", !.proc = p,
                                 !.exit = IF p = "killed" THEN "other" ELSE @]]
  BY DEF SandboxTick
<1> DEFINE exit == IF p = "killed" THEN "other" ELSE job[c].exit
<1>2. job' = [job EXCEPT ![c] =
                Ticked(job[c], Reason(job[c]), "term", p, exit, job[c].inner)]
  BY <1>1, <1>a DEF Ticked, JobStates
<1>3. /\ "term" \in Stops /\ p \in Procs /\ exit \in Exits /\ job[c].inner \in Inners
      /\ exit = job[c].exit \/ exit = "other"
  BY <1>a DEF JobStates, Stops, Procs, Exits, Inners
<1> HIDE DEF exit
<1> QED
  BY <1>a, <1>2, <1>3 DEF Pass

LEMMA ContainerPass ==
  ASSUME Inv, NEW c \in Calls, ContainerTick(c)
  PROVE  Pass(c)
<1> DEFINE old == job[c]
           j == [old EXCEPT !.flag = Reason(old)]
<1>a. old \in JobStates /\ old.pc = "running" /\ row' = row
  <2>1. old \in JobStates
    BY DEF Inv, TypeOK
  <2>2. j.pc = "running" /\ row' = row
    BY DEF ContainerTick
  <2> QED
    BY <2>1, <2>2 DEF JobStates
<1>b. /\ old.stop \in Stops /\ old.proc \in Procs /\ old.exit \in Exits /\ old.inner \in Inners
      /\ "term" \in Stops /\ "asked" \in Stops /\ "other" \in Exits
      /\ "killed" \in Procs
  BY <1>a DEF JobStates, Stops, Procs, Exits, Inners
<1>c. /\ j.stop = old.stop /\ j.proc = old.proc /\ j.exit = old.exit
      /\ j.inner = old.inner /\ Hit(j) = Hit(old)
      /\ \A i \in Hit(old) : i \in Inners /\ (i = "alive" => old.inner = "alive")
  BY <1>a, <1>b DEF JobStates, Hit, Inners
<1>1. CASE \E i \in Hit(j) : job' = [job EXCEPT ![c] = [j EXCEPT !.stop = "term", !.inner = i]]
  <2>1. PICK i \in Hit(old) : job' = [job EXCEPT ![c] = [j EXCEPT !.stop = "term", !.inner = i]]
    BY <1>1, <1>c
  <2>2. job' = [job EXCEPT ![c] = Ticked(job[c], Reason(job[c]), "term", job[c].proc, job[c].exit, i)]
    BY <1>a, <2>1 DEF Ticked, JobStates
  <2> QED
    BY <1>a, <1>b, <1>c, <2>2 DEF Pass, Alive
<1>2. CASE job' = [job EXCEPT ![c] = [j EXCEPT !.stop = "asked"]]
  <2>1. job' = [job EXCEPT ![c] = Ticked(job[c], Reason(job[c]), "asked", job[c].proc, job[c].exit, job[c].inner)]
    BY <1>a, <1>2 DEF Ticked, JobStates
  <2> QED
    BY <1>a, <1>b, <2>1 DEF Pass, Alive
<1>3. CASE /\ Alive(c)
           /\ \E p \in {"alive", "killed"} :
                job' = [job EXCEPT ![c] =
                          [j EXCEPT !.stop = "term", !.proc = p,
                                    !.exit = IF p = "killed" THEN "other" ELSE @]]
  <2>1. PICK p \in {"alive", "killed"} :
                job' = [job EXCEPT ![c] =
                          [j EXCEPT !.stop = "term", !.proc = p,
                                    !.exit = IF p = "killed" THEN "other" ELSE @]]
    BY <1>3
  <2> DEFINE x == IF p = "killed" THEN "other" ELSE job[c].exit
  <2>2. /\ x \in Exits /\ p \in Procs /\ (x = job[c].exit \/ x = "other")
        /\ Alive(c) /\ job[c].pc = "running" /\ row' = row
        /\ "term" \in Stops /\ job[c].inner \in Inners
    BY <1>a, <1>b, <1>3 DEF Procs
  <2>3. job' = [job EXCEPT ![c] = Ticked(job[c], Reason(job[c]), "term", p, x, job[c].inner)]
    BY <1>a, <2>1 DEF Ticked, JobStates
  <2> HIDE DEF x
  <2> QED
    BY <2>2, <2>3 DEF Pass
<1>4. CASE \E i \in IF j.known THEN Hit(j) ELSE {j.inner} :
               job' = [job EXCEPT ![c] =
                         [j EXCEPT !.inner = i,
                                   !.proc = IF @ = "alive" THEN "killed" ELSE @,
                                   !.exit = IF Alive(c) THEN "other" ELSE @]]
  <2>1. PICK i \in Inners :
               /\ i = "alive" => old.inner = "alive"
               /\ job' = [job EXCEPT ![c] =
                         [j EXCEPT !.inner = i,
                                   !.proc = IF @ = "alive" THEN "killed" ELSE @,
                                   !.exit = IF Alive(c) THEN "other" ELSE @]]
    BY <1>4, <1>b, <1>c
  <2> DEFINE p == IF job[c].proc = "alive" THEN "killed" ELSE job[c].proc
             x == IF Alive(c) THEN "other" ELSE job[c].exit
  <2>2. /\ x \in Exits /\ p \in Procs /\ p # "alive"
        /\ x = job[c].exit \/ x = "other"
        /\ job[c].pc = "running" /\ row' = row
        /\ job[c].stop \in Stops /\ (i = "alive" => job[c].inner = "alive")
    BY <1>a, <1>b, <2>1 DEF Procs
  <2>3. job' = [job EXCEPT ![c] = Ticked(job[c], Reason(job[c]), job[c].stop, p, x, i)]
    BY <1>a, <2>1 DEF Ticked, JobStates
  <2> HIDE DEF x, p
  <2> QED
    BY <2>2, <2>3 DEF Pass
<1> QED
  BY <1>1, <1>2, <1>3, <1>4 DEF ContainerTick

LEMMA PassMoves ==
  ASSUME Inv, NEW c \in Calls, Pass(c)
  PROVE  OneMoves(c)
<1>1. job[c] \in JobStates /\ Reason(job[c]) \in Reasons
  BY DEF Inv, TypeOK, Reason, Reasons
<1>2. PICK s \in Stops, p \in Procs, x \in Exits, i \in Inners :
        /\ job' = [job EXCEPT ![c] = Ticked(job[c], Reason(job[c]), s, p, x, i)]
        /\ p = "alive" => Alive(c)
  BY DEF Pass
<1> DEFINE j == Ticked(job[c], Reason(job[c]), s, p, x, i)
<1>3. j \in JobStates /\ j.pc = job[c].pc /\ j.flag = Reason(job[c]) /\ j.proc = p
  BY <1>1, TickedJob
<1> HIDE DEF j
<1> QED
  BY <1>1, <1>2, <1>3, TickedMoves DEF Pass, j, Reasons

LEMMA EndsMoves ==
  ASSUME Inv, NEW c \in Calls, SandboxEnds(c) \/ ContainerEnds(c)
  PROVE  OneMoves(c)
<1> DEFINE flagged == IF job[c].flag = "cancelled" THEN "cancelled"
                      ELSE IF job[c].flag = "no" /\ job[c].exit = "zero" THEN "ok"
                      ELSE "error"
           known == IF job[c].flag = "cancelled" THEN "cancelled"
                    ELSE IF job[c].flag = "no" /\ job[c].known /\ job[c].exit = "zero"
                    THEN "ok" ELSE "error"
<1>1. job[c] \in JobStates /\ job[c].pc = "running" /\ row' = row
  BY DEF Inv, TypeOK, SandboxEnds, ContainerEnds
<1>2. /\ flagged \in {"none", "ok", "error", "cancelled"}
      /\ known \in {"none", "ok", "error", "cancelled"}
  OBVIOUS
<1>3. \/ job' = [job EXCEPT ![c] = Ended(job[c], flagged)]
      \/ job' = [job EXCEPT ![c] = Ended(job[c], known)]
  BY DEF SandboxEnds, ContainerEnds
<1> HIDE DEF flagged, known
<1> QED
  BY <1>1, <1>2, <1>3, EndMoves

LEMMA BreaksMoves ==
  ASSUME Inv, NEW c \in Calls, SandboxBreaks(c)
  PROVE  OneMoves(c)
<1> DEFINE j == [NoJob EXCEPT !.pc = "ended", !.verdict = "error",
                              !.proc = "alive", !.flag = "leaked"]
<1>1. j \in JobStates /\ j.pc = "ended" /\ j.flag = "leaked"
  BY DEF NoJob, JobStates, Registered, Working
<1>2. /\ job[c].pc \in {"spawned", "running"}
      /\ job' = [job EXCEPT ![c] = j] /\ row' = row
  BY DEF SandboxBreaks
<1> HIDE DEF j
<1>3. /\ Typed /\ job'[c] = j /\ row'[c] = row[c]
      /\ \A d \in Calls \ {c} : job'[d] = job[d] /\ row'[d] = row[d]
  BY <1>1, <1>2, OneJob
<1> QED
  BY <1>1, <1>2, <1>3 DEF OneMoves, Moves, Goes, RowStays, Leaked

LEMMA CommandMoves ==
  ASSUME Inv, NEW c \in Calls, Command(c)
  PROVE  OneMoves(c)
<1>a. job[c] \in JobStates /\ row' = row
  BY DEF Inv, TypeOK, Command
<1>1. ASSUME NEW i \in {"alive", "dead"}, job' = [job EXCEPT ![c].inner = i]
      PROVE  OneMoves(c)
  <2> DEFINE j == [job[c] EXCEPT !.inner = i]
  <2>1. j \in JobStates /\ j.pc = job[c].pc /\ j.proc = job[c].proc /\ j.flag = job[c].flag
    BY <1>a DEF JobStates
  <2>2. job' = [job EXCEPT ![c] = j]
    BY <1>1
  <2> HIDE DEF j
  <2> QED
    BY <1>a, <2>1, <2>2, StaysMoves DEF Alive, Leaked
<1>2. CASE ProcEnds(c)
  <2>1. PICK e \in Exits :
           job' = [job EXCEPT ![c].proc = "exited",
                              ![c].exit = IF job[c].pc \in Heeded THEN e ELSE @]
    BY <1>2 DEF ProcEnds, Exits
  <2> DEFINE x == IF job[c].pc \in Heeded THEN e ELSE job[c].exit
             k == [job[c] EXCEPT !.proc = "exited"]
             j == [k EXCEPT !.exit = x]
  <2>2. x \in Exits
    BY <1>a, <2>1 DEF Exits, JobStates
  <2>3. k \in JobStates /\ k.pc = job[c].pc /\ k.proc = "exited" /\ k.flag = job[c].flag
    BY <1>a DEF JobStates
  <2>4. job' = [job EXCEPT ![c] = j]
    BY <1>a, <2>1 DEF Inv, TypeOK, JobStates
  <2> HIDE DEF x, k
  <2>5. j \in JobStates /\ j.pc = job[c].pc /\ j.proc = "exited" /\ j.flag = job[c].flag
    BY <2>2, <2>3 DEF JobStates, Exits
  <2> HIDE DEF j
  <2> QED
    BY <1>a, <2>4, <2>5, StaysMoves DEF Alive, Leaked
<1> QED
  BY <1>1, <1>2 DEF Command, InnerStarts, InnerEnds

LEMMA CallMoves ==
  ASSUME Inv, NEW c \in Calls,
         Dispatch(c) \/ CancelNotice(c) \/ Worker(c) \/ Runs(c)
  PROVE  OneMoves(c)
<1>1. ASSUME Register(c) \/ Begin(c) \/ Settle(c) \/ SettleAgain(c) \/ Release(c)
      PROVE  OneMoves(c)
  <2>1. job[c].pc \in Registered \cup {"asked"}
    BY <1>1 DEF Register, Begin, Settle, SettleAgain, Release, Registered, Working
  <2>2. server # "gone"
    BY <2>1 DEF Inv, ServerOK
  <2> QED
    BY <1>1, <2>2, ServerMoves
<1>2. CASE Dispatch(c) \/ CancelNotice(c)
  BY <1>2, DispatchMoves
<1>3. CASE Worker(c)
  BY <1>1, <1>3, LaunchMoves, PidMoves, SandboxPass, ContainerPass, PassMoves, EndsMoves
     DEF Worker, SandboxCall, ContainerCall
<1>4. CASE Runs(c)
  BY <1>4, CommandMoves, BreaksMoves DEF Runs
<1> QED
  BY <1>2, <1>3, <1>4

-----------------------------------------------------------------------------
(* The steps that reach every call. *)

LEMMA AbandonedSuffers ==
  ASSUME Inv, NEW c \in Calls, server' = "gone",
         job'[c] = Abandoned(job[c]), RowStays(c)
  PROVE  Suffers(c)
<1>1. job[c] \in JobStates /\ kind \in {"sandbox", "container"}
  BY DEF Inv, TypeOK
<1> DEFINE j == Abandoned(job[c])
<1>2. /\ j.pc \notin Registered \cup {"asked"}
      /\ j.pc = job[c].pc \/ j.pc = "lost"
      /\ j.proc = "alive" => job[c].proc = "alive" /\ kind # "sandbox"
      /\ j.flag = "leaked" <=> job[c].flag = "leaked"
  BY <1>1, AbandonedJob
<1> HIDE DEF j
<1>3. job'[c] = j
  BY DEF j
<1> QED
  BY <1>1, <1>2, <1>3 DEF Suffers, Fewer, Alive, Leaked

LEMMA SignalledSuffers ==
  ASSUME Inv, NEW c \in Calls, NEW p, NEW i, RowStays(c) \/ Marked(c),
         \/ job'[c] = Signalled(job[c], c, p, i) /\ server' = server
         \/ job'[c] = Abandoned(Signalled(job[c], c, p, i)) /\ server' = "gone"
  PROVE  Suffers(c) /\ job'[c] \in JobStates
<1>1. job[c] \in JobStates /\ kind \in {"sandbox", "container"}
  BY DEF Inv, TypeOK
<1> DEFINE j == Signalled(job[c], c, p, i)
<1>2. /\ j \in JobStates /\ j.pc = job[c].pc /\ j.flag = job[c].flag
      /\ j.proc = "alive" => job[c].proc = "alive"
  BY <1>1, SignalledJob
<1> HIDE DEF j
<1> DEFINE k == Abandoned(j)
<1>3. /\ k \in JobStates
      /\ k.pc \notin Registered \cup {"asked"}
      /\ k.pc = j.pc \/ k.pc = "lost"
      /\ k.proc = "alive" => j.proc = "alive" /\ kind # "sandbox"
      /\ k.flag = "leaked" <=> j.flag = "leaked"
  BY <1>2, AbandonedJob
<1> HIDE DEF k
<1>4. \/ job'[c] = j /\ server' = server
      \/ job'[c] = k /\ server' = "gone"
  BY DEF j, k
<1> QED
  BY <1>1, <1>2, <1>3, <1>4 DEF Suffers, Fewer, Alive, Leaked

\* Such a step as a whole; with the bridge goes the server.
AllSuffer ==
    /\ Typed
    /\ \A c \in Calls : Suffers(c)
    /\ server = "gone" => server' = "gone"
    /\ bridge' # "up" => server' = "gone" \/ (bridge # "up" /\ server' = server)

LEMMA SignalSuffers ==
  ASSUME Inv, NEW pids, NEW inners, NEW sure \in BOOLEAN, Signal(pids, inners, sure),
         bridge' = bridge, row' \in [Calls -> RowStates],
         \A c \in Calls : RowStays(c) \/ Marked(c)
  PROVE  AllSuffer
<1>1. PICK p, i :
        LET signalled == [c \in Calls |-> Signalled(job[c], c, p, i)]
        IN  \/ agent = "alive" /\ LosesAgent(signalled)
            \/ job' = signalled /\ UNCHANGED server
  BY DEF Signal
<1>2. \/ /\ job' = [c \in Calls |-> Signalled(job[c], c, p, i)]
         /\ server' = server
      \/ /\ job' = [c \in Calls |-> Abandoned(Signalled(job[c], c, p, i))]
         /\ server' = "gone"
  BY <1>1 DEF LosesAgent
<1>3. ASSUME NEW c \in Calls
      PROVE  Suffers(c) /\ job'[c] \in JobStates
  BY <1>2, SignalledSuffers
<1>4. job' \in [Calls -> JobStates]
  BY <1>2, <1>3
<1> QED
  BY <1>2, <1>3, <1>4 DEF AllSuffer, Typed

LEMMA EveryCall ==
  ASSUME Inv, Eof \/ Exit \/ AgentEnds \/ Stop \/ StopFindsNothing \/ StopKills
              \/ BridgeDies \/ Recover
  PROVE  AllSuffer
<1>a. job \in [Calls -> JobStates] /\ row \in [Calls -> RowStates]
  BY DEF Inv, TypeOK
<1>1. CASE Eof
  <2>1. ASSUME NEW c \in Calls
        PROVE  /\ job'[c] \in JobStates /\ job'[c].pc = job[c].pc
               /\ job'[c].proc = job[c].proc /\ job'[c].flag = job[c].flag
    <3> DEFINE j == [job[c] EXCEPT !.cancel = TRUE]
    <3>1. j \in JobStates /\ j.pc = job[c].pc /\ j.proc = job[c].proc /\ j.flag = job[c].flag
      BY <1>a DEF JobStates
    <3>2. job'[c] = j \/ job'[c] = job[c]
      BY <1>1 DEF Eof
    <3> HIDE DEF j
    <3> QED
      BY <1>a, <3>1, <3>2
  <2>2. job' \in [Calls -> JobStates]
    BY <1>1, <2>1 DEF Eof
  <2>3. row' = row /\ server = "up" /\ server' = "closing" /\ bridge' = "up"
    BY <1>1 DEF Eof, Inv, ServerOK
  <2>4. \A c \in Calls : Suffers(c)
    BY <2>1, <2>3 DEF Suffers, Fewer, RowStays, Alive, Leaked
  <2> QED
    BY <1>a, <2>2, <2>3, <2>4 DEF AllSuffer, Typed
<1>2. CASE Exit \/ AgentEnds
  <2>a. row' = row /\ bridge' = bridge
    BY <1>2 DEF Exit, AgentEnds
  <2>1. CASE job' = [c \in Calls |-> Abandoned(job[c])] /\ server' = "gone"
    <3>1. \A c \in Calls : Suffers(c)
      BY <2>a, <2>1, AbandonedSuffers DEF RowStays
    <3>2. job' \in [Calls -> JobStates]
      BY <1>a, <2>1, AbandonedJob
    <3> QED
      BY <1>a, <2>a, <2>1, <3>1, <3>2 DEF AllSuffer, Typed
  <2>2. CASE job' = job /\ server' = server
    BY <1>a, <2>a, <2>2 DEF AllSuffer, Typed, Suffers, Fewer, RowStays, Alive, Leaked
  <2> QED
    BY <1>2, <2>1, <2>2 DEF Exit, AgentEnds, LosesAgent
<1>3. CASE Stop
  <2>1. row' \in [Calls -> RowStates]
    BY <1>3, <1>a, RowTypes DEF Stop
  <2>2. \A c \in Calls : RowStays(c) \/ Marked(c)
    BY <1>3, <1>a, RowSteps DEF Stop, RowStays, Marked
  <2> QED
    BY <1>3, <2>1, <2>2, SignalSuffers DEF Stop
<1>4. CASE StopKills
  <2>1. \A c \in Calls : RowStays(c)
    BY <1>4 DEF StopKills, RowStays
  <2> QED
    BY <1>4, <1>a, <2>1, SignalSuffers DEF StopKills
<1>5. CASE BridgeDies
  <2>1. ASSUME NEW c \in Calls
        PROVE  Suffers(c) /\ job'[c] \in JobStates
    <3> DEFINE k == Abandoned(job[c])
               j == Signalled(k, c, Calls, {})
    <3>1. /\ k \in JobStates
          /\ k.pc \notin Registered \cup {"asked"}
          /\ k.pc = job[c].pc \/ k.pc = "lost"
          /\ k.proc = "alive" => job[c].proc = "alive" /\ kind # "sandbox"
          /\ k.flag = "leaked" <=> job[c].flag = "leaked"
      BY <1>a, AbandonedJob
    <3> HIDE DEF k
    <3>2. /\ j \in JobStates /\ j.pc = k.pc /\ j.flag = k.flag
          /\ j.proc = "alive" => k.proc = "alive"
      BY <3>1, SignalledJob
    <3>3. job'[c] = j /\ server' = "gone" /\ row' = row
      BY <1>5 DEF BridgeDies, k
    <3> HIDE DEF j
    <3>4. kind \in {"sandbox", "container"}
      BY DEF Inv, TypeOK
    <3> QED
      BY <3>1, <3>2, <3>3, <3>4 DEF Suffers, Fewer, RowStays, Alive, Leaked
  <2>2. job' \in [Calls -> JobStates]
    BY <1>5, <2>1 DEF BridgeDies
  <2> QED
    BY <1>5, <1>a, <2>1, <2>2 DEF BridgeDies, AllSuffer, Typed
<1>6. CASE Recover
  <2>1. server = "gone" /\ server' = "gone"
    BY <1>6 DEF Recover, Inv, ServerOK
  <2>2. row' \in [Calls -> RowStates]
    BY <1>6, <1>a, RowTypes DEF Recover, ContainerInterrupted
  <2>3. \A c \in Calls : Suffers(c)
    BY <1>6, <1>a, <2>1, RowSteps DEF Recover, Suffers, ContainerInterrupted
  <2> QED
    BY <1>6, <1>a, <2>1, <2>2, <2>3 DEF Recover, AllSuffer, Typed
<1>7. CASE StopFindsNothing
  <2>1. row' \in [Calls -> RowStates]
    BY <1>7, <1>a, RowTypes DEF StopFindsNothing
  <2>2. \A c \in Calls : RowStays(c) \/ Marked(c)
    BY <1>7, <1>a, RowSteps DEF StopFindsNothing, RowStays, Marked
  <2> QED
    BY <1>7, <1>a, <2>1, <2>2
    DEF StopFindsNothing, AllSuffer, Typed, Suffers, Fewer, Alive, Leaked
<1> QED
  BY <1>1, <1>2, <1>3, <1>4, <1>5, <1>6, <1>7

-----------------------------------------------------------------------------
(* The invariant holds after every step. *)

\* The rest of the type invariant.
OthersTyped ==
    /\ kind \in {"sandbox", "container"}
    /\ agent \in {"new", "missed", "alive", "dead"}
    /\ server \in {"up", "closing", "gone"}
    /\ latest \in Calls \cup {NoCall}
    /\ stop \in [on : BOOLEAN, pids : SUBSET Calls, inners : SUBSET Calls]
    /\ bridge \in {"up", "down", "back"}
    /\ told \in [Calls -> SUBSET Final]

LEMMA OthersStayTyped == Inv /\ Next => OthersTyped' /\ kind' = kind
<1> SUFFICES ASSUME Inv, Next PROVE OthersTyped' /\ kind' = kind
  OBVIOUS
<1>a. OthersTyped
  BY DEF Inv, TypeOK, OthersTyped
<1>1. ASSUME NEW c \in Calls, Dispatch(c) \/ CancelNotice(c) \/ Worker(c) \/ Runs(c)
      PROVE  /\ UNCHANGED <<kind, agent, server, stop, bridge, told>>
             /\ latest' \in {latest, c}
  BY <1>1 DEF Dispatch, CancelNotice, Worker, Runs, SandboxCall, ContainerCall, Register,
     Begin, Settle, SettleAgain, Release, SandboxLaunch, SandboxPid, SandboxTick, SandboxEnds,
     ContainerLaunch, ContainerPid, ReadMarker, ContainerTick, ContainerEnds,
     Command, SandboxBreaks
<1>2. CASE \E c \in Calls : Dispatch(c) \/ CancelNotice(c) \/ Worker(c) \/ Runs(c)
  BY <1>a, <1>1, <1>2 DEF OthersTyped
<1>3. CASE Eof \/ Exit \/ RecordPid \/ AgentEnds \/ BridgeDies \/ Recover
  <2>1. CASE Eof \/ Exit \/ RecordPid
    BY <1>a, <2>1 DEF OthersTyped, Eof, Exit, RecordPid
  <2>2. CASE AgentEnds
    BY <1>a, <2>2 DEF OthersTyped, AgentEnds, LosesAgent
  <2>3. CASE BridgeDies
    BY <1>a, <2>3 DEF OthersTyped, BridgeDies, NoStop
  <2>4. CASE Recover
    BY <1>a, <2>4 DEF OthersTyped, Recover
  <2> QED
    BY <1>3, <2>1, <2>2, <2>3, <2>4
<1>4. ASSUME NEW p, NEW i, NEW sure \in BOOLEAN, Signal(p, i, sure)
      PROVE  agent' \in {"new", "missed", "alive", "dead"} /\ server' \in {"up", "closing", "gone"}
  BY <1>4, <1>a DEF Signal, LosesAgent, OthersTyped
<1>5. CASE Stop
  <2>1. StopPids \subseteq Calls /\ StopInners \subseteq Calls
    BY DEF StopPids, StopInners, SandboxPids, ContainerRows
  <2> QED
    BY <1>a, <1>4, <1>5, <2>1 DEF OthersTyped, Stop
<1>6. CASE StopKills
  BY <1>a, <1>4, <1>6 DEF OthersTyped, StopKills, NoStop
<1>7. CASE StopFindsNothing
  BY <1>a, <1>7 DEF OthersTyped, StopFindsNothing
<1>8. CASE SandboxMonitor \/ ContainerMonitor
  BY <1>a, <1>8 DEF OthersTyped, SandboxMonitor, ContainerMonitor, Look
<1> QED
  BY <1>2, <1>3, <1>5, <1>6, <1>7, <1>8 DEF Next

\* Nothing of a job or a row moves.
Quiet == job' = job /\ row' = row /\ server' = server /\ bridge' = bridge

LEMMA Steps ==
  Inv /\ [Next]_vars =>
     \/ \E c \in Calls : OneMoves(c) /\ server' = server /\ bridge' = bridge
     \/ AllSuffer
     \/ Quiet
<1> SUFFICES ASSUME Inv, [Next]_vars
             PROVE  \/ \E c \in Calls : OneMoves(c) /\ server' = server /\ bridge' = bridge
                    \/ AllSuffer
                    \/ Quiet
  OBVIOUS
<1>1. CASE \E c \in Calls : Dispatch(c) \/ CancelNotice(c) \/ Worker(c) \/ Runs(c)
  BY <1>1, CallMoves DEF Dispatch, CancelNotice, Worker, Runs
<1>2. CASE Eof \/ Exit \/ AgentEnds \/ Stop \/ StopFindsNothing \/ StopKills
          \/ BridgeDies \/ Recover
  BY <1>2, EveryCall
<1>3. CASE RecordPid \/ SandboxMonitor \/ ContainerMonitor \/ UNCHANGED vars
  BY <1>3 DEF RecordPid, SandboxMonitor, ContainerMonitor, Look, Quiet, vars
<1> QED
  BY <1>1, <1>2, <1>3 DEF Next

LEMMA RowsStep == Inv /\ [Next]_vars => RowsOK'
<1> SUFFICES ASSUME Inv, [Next]_vars, NEW c \in Calls
             PROVE  /\ job'[c].pc \in {"idle", "asked", "registered", "refused"} =>
                          row'[c].status = "none"
                    /\ job'[c].pc \in {"begun", "spawned", "running", "ended"} =>
                          row'[c].status \in Open
                    /\ job'[c].pc \in {"settled", "resettled"} =>
                          row'[c].status \in {"succeeded", "failed", "stopped"}
  BY DEF RowsOK
<1>a. /\ job[c].pc \in {"idle", "asked", "registered", "refused"} => row[c].status = "none"
      /\ job[c].pc \in {"begun", "spawned", "running", "ended"} => row[c].status \in Open
      /\ job[c].pc \in {"settled", "resettled"} =>
            row[c].status \in {"succeeded", "failed", "stopped"}
  BY DEF Inv, RowsOK
<1>1. CASE \E d \in Calls : OneMoves(d)
  <2>1. PICK d \in Calls : OneMoves(d)
    BY <1>1
  <2>2. CASE c = d
    BY <1>a, <2>1, <2>2 DEF OneMoves, Moves, Stays, Goes, RowStays, Open
  <2>3. CASE c # d
    BY <1>a, <2>1, <2>3 DEF OneMoves
  <2> QED
    BY <2>2, <2>3
<1>2. CASE AllSuffer
  <2>1. Suffers(c)
    BY <1>2 DEF AllSuffer
  <2>2. CASE server = "gone" /\ job'[c] = job[c]
             /\ row'[c].status = IF row[c].status \in Open THEN "interrupted" ELSE row[c].status
    <3>1. job[c].pc \notin Registered \cup {"asked"}
      BY <2>2 DEF Inv, ServerOK
    <3> QED
      BY <1>a, <2>2, <3>1 DEF Registered, Working, Open
  <2> QED
    BY <1>a, <2>1, <2>2 DEF Suffers, RowStays, Marked, Registered, Working, Open
<1>3. CASE Quiet
  BY <1>a, <1>3 DEF Quiet
<1> QED
  BY <1>1, <1>2, <1>3, Steps

LEMMA ServerStepOK == Inv /\ [Next]_vars => ServerOK'
<1> SUFFICES ASSUME Inv, [Next]_vars
             PROVE  ServerOK'
  OBVIOUS
<1>a. /\ server = "gone" => \A c \in Calls : job[c].pc \notin Registered \cup {"asked"}
      /\ bridge # "up" => server = "gone"
  BY DEF Inv, ServerOK
<1>1. CASE \E d \in Calls : OneMoves(d) /\ server' = server /\ bridge' = bridge
  <2>1. PICK d \in Calls : OneMoves(d) /\ server' = server /\ bridge' = bridge
    BY <1>1
  <2>2. ASSUME server = "gone", NEW c \in Calls
        PROVE  job'[c].pc \notin Registered \cup {"asked"}
    <3>1. CASE c = d
      BY <1>a, <2>1, <2>2, <3>1 DEF OneMoves, Moves, Stays, Goes, Registered, Working
    <3>2. CASE c # d
      BY <1>a, <2>1, <2>2, <3>2 DEF OneMoves
    <3> QED
      BY <3>1, <3>2
  <2> QED
    BY <1>a, <2>1, <2>2 DEF ServerOK
<1>2. CASE AllSuffer
  <2>1. ASSUME server' = "gone", NEW c \in Calls
        PROVE  job'[c].pc \notin Registered \cup {"asked"}
    <3>1. Suffers(c)
      BY <1>2 DEF AllSuffer
    <3> QED
      BY <1>a, <2>1, <3>1 DEF Suffers
  <2>2. bridge' # "up" => server' = "gone"
    BY <1>a, <1>2 DEF AllSuffer
  <2> QED
    BY <2>1, <2>2 DEF ServerOK
<1>3. CASE Quiet
  BY <1>a, <1>3 DEF Quiet, ServerOK
<1> QED
  BY <1>1, <1>2, <1>3, Steps

LEMMA LockStep == Inv /\ [Next]_vars => LockOK'
<1> SUFFICES ASSUME Inv, [Next]_vars, NEW c \in Calls, NEW d \in Calls,
                    job'[c].pc \in Working, job'[d].pc \in Working
             PROVE  c = d
  BY DEF LockOK
<1>a. job[c].pc \in Working /\ job[d].pc \in Working => c = d
  BY DEF Inv, LockOK
<1>1. CASE \E e \in Calls : OneMoves(e)
  <2>1. PICK e \in Calls : OneMoves(e)
    BY <1>1
  <2>2. CASE Goes(e, "registered", "begun") /\ ToolLockFree
    BY <2>1, <2>2 DEF OneMoves, ToolLockFree
  <2>3. CASE ~ (Goes(e, "registered", "begun") /\ ToolLockFree)
    <3>1. job'[e].pc \in Working => job[e].pc \in Working
      BY <2>1, <2>3 DEF OneMoves, Moves, Stays, Goes, Working
    <3> QED
      BY <1>a, <2>1, <3>1 DEF OneMoves
  <2> QED
    BY <2>2, <2>3
<1>2. CASE AllSuffer
  <2>1. Suffers(c) /\ Suffers(d)
    BY <1>2 DEF AllSuffer
  <2> QED
    BY <1>a, <2>1 DEF Suffers, Registered
<1>3. CASE Quiet
  BY <1>a, <1>3 DEF Quiet
<1> QED
  BY <1>1, <1>2, <1>3, Steps

LEMMA ProcsStep == Inv /\ Next => ProcsOK'
<1> SUFFICES ASSUME Inv, Next, NEW c \in Calls
             PROVE  /\ Alive(c)' /\ ~ Leaked(c)' =>
                          \/ job'[c].pc \in {"spawned", "running"}
                          \/ kind' = "container" /\ server' = "gone"
                    /\ Leaked(c)' => job'[c].pc \in {"ended", "settled", "resettled", "answered", "lost"}
  BY DEF ProcsOK
<1>a. /\ Alive(c) /\ ~ Leaked(c) =>
            \/ job[c].pc \in {"spawned", "running"}
            \/ kind = "container" /\ server = "gone"
      /\ Leaked(c) => job[c].pc \in {"ended", "settled", "resettled", "answered", "lost"}
      /\ kind' = kind
  BY OthersStayTyped DEF Inv, ProcsOK
<1>1. CASE \E d \in Calls : OneMoves(d) /\ server' = server /\ bridge' = bridge
  <2>1. PICK d \in Calls : OneMoves(d) /\ server' = server
    BY <1>1
  <2>2. CASE c = d
    BY <1>a, <2>1, <2>2 DEF OneMoves, Moves, Stays, Goes, Fewer, Alive, Leaked
  <2>3. CASE c # d
    BY <1>a, <2>1, <2>3 DEF OneMoves, Alive, Leaked
  <2> QED
    BY <2>2, <2>3
<1>2. CASE AllSuffer
  <2>1. Suffers(c)
    BY <1>2 DEF AllSuffer
  <2>2. server = "gone" => server' = "gone"
    BY <1>2 DEF AllSuffer
  <2> QED
    BY <1>a, <2>1, <2>2 DEF Suffers, Fewer, Alive, Leaked, Registered, Working
<1>3. CASE Quiet
  BY <1>a, <1>3 DEF Quiet, Alive, Leaked
<1> QED
  BY <1>1, <1>2, <1>3, Steps

LEMMA AloneStep == Inv /\ Next => OneProcess'
<1> SUFFICES ASSUME Inv, Next, NEW c \in Calls, NEW d \in Calls,
                    Alive(c)', Alive(d)', c # d
             PROVE  Leaked(c)' \/ Leaked(d)'
  BY DEF OneProcess
<1>a. Alive(c) /\ Alive(d) => Leaked(c) \/ Leaked(d)
  BY DEF Inv, OneProcess
<1>1. CASE \E e \in Calls : OneMoves(e)
  <2>1. PICK e \in Calls : OneMoves(e)
    BY <1>1
  <2>2. CASE job[e].pc = "begun"
    \* Nobody else has a process while this call holds the lock.
    <3>1. ASSUME NEW f \in Calls, f # e, Alive(f)
          PROVE  Leaked(f)
      <4>1. job[f].pc \notin {"spawned", "running"}
        BY <2>2, <3>1 DEF Inv, LockOK, Working
      <4>2. server # "gone"
        BY <2>2 DEF Inv, ServerOK, Registered, Working
      <4> QED
        BY <3>1, <4>1, <4>2 DEF Inv, ProcsOK
    <3>2. \A f \in Calls \ {e} : (Alive(f)' <=> Alive(f)) /\ (Leaked(f)' <=> Leaked(f))
      BY <2>1 DEF OneMoves, Alive, Leaked
    <3> QED
      BY <3>1, <3>2
  <2>3. CASE job[e].pc # "begun"
    <3>1. (Alive(e)' => Alive(e)) \/ Leaked(e)'
      BY <2>1, <2>3 DEF OneMoves, Moves, Stays, Goes, Fewer
    <3>2. Leaked(e) => Leaked(e)'
      <4>1. Leaked(e) => job[e].pc \in {"ended", "settled", "resettled", "answered", "lost"}
        BY DEF Inv, ProcsOK
      <4> QED
        BY <2>1, <2>3, <4>1 DEF OneMoves, Moves, Stays, Goes, Fewer
    <3>3. \A f \in Calls \ {e} : (Alive(f)' <=> Alive(f)) /\ (Leaked(f)' <=> Leaked(f))
      BY <2>1 DEF OneMoves, Alive, Leaked
    <3> QED
      BY <1>a, <3>1, <3>2, <3>3
  <2> QED
    BY <2>2, <2>3
<1>2. CASE AllSuffer
  <2>1. Suffers(c) /\ Suffers(d)
    BY <1>2 DEF AllSuffer
  <2> QED
    BY <1>a, <2>1 DEF Suffers, Fewer, Alive, Leaked
<1>3. CASE Quiet
  BY <1>a, <1>3 DEF Quiet, Alive, Leaked
<1> QED
  BY <1>1, <1>2, <1>3, Steps

LEMMA TypeStep == Inv /\ Next => TypeOK'
<1> SUFFICES ASSUME Inv, Next PROVE TypeOK'
  OBVIOUS
<1>1. Typed
  <2>1. job \in [Calls -> JobStates] /\ row \in [Calls -> RowStates]
    BY DEF Inv, TypeOK
  <2> QED
    BY <2>1, Steps DEF OneMoves, AllSuffer, Quiet, Typed
<1> QED
  BY <1>1, OthersStayTyped DEF OthersTyped, Typed, TypeOK

LEMMA InvStep == Inv /\ [Next]_vars => Inv'
<1> SUFFICES ASSUME Inv, [Next]_vars PROVE Inv'
  OBVIOUS
<1>1. CASE Next
  BY <1>1, TypeStep, RowsStep, ServerStepOK, LockStep, ProcsStep, AloneStep DEF Inv
<1>2. CASE UNCHANGED vars
  BY <1>2 DEF vars, Inv, TypeOK, RowsOK, ServerOK, LockOK, ProcsOK, OneProcess,
     Alive, Leaked
<1> QED
  BY <1>1, <1>2

LEMMA Invariance == Spec => []Inv
<1>1. Init => Inv
  BY InvInit
<1>2. Inv /\ [Next]_vars => Inv'
  BY InvStep
<1> QED
  BY <1>1, <1>2, PTL DEF Spec

-----------------------------------------------------------------------------
(* The theorems. *)

\* The calls, rows and processes keep their types (runtimes/*/runner.py,
\* core/state.py: sandbox_jobs and container_jobs).
THEOREM TypeCorrect == Spec => []TypeOK
<1>1. Inv => TypeOK
  BY DEF Inv
<1> QED
  BY <1>1, Invariance, PTL

\* A sandbox job whose row has ended has no process left, whichever of the
\* three writers of core/state.py ended it.
THEOREM NothingOutlives == Spec => []NothingOutlivesItsRow
<1>1. Inv => NothingOutlivesItsRow
  <2> SUFFICES ASSUME Inv, kind = "sandbox", NEW c \in Calls,
                      row[c].status \in Final, Alive(c), ~ Leaked(c)
               PROVE  FALSE
    BY DEF NothingOutlivesItsRow
  <2>1. job[c].pc \in {"spawned", "running"}
    BY DEF Inv, ProcsOK
  <2>2. row[c].status \in Open
    BY <2>1 DEF Inv, RowsOK
  <2> QED
    BY <2>2 DEF Final, Open
<1> QED
  BY <1>1, Invariance, PTL

\* What a step may do to the status of one row.
RowStep(c) ==
    \/ row'[c].status = row[c].status
    \/ row[c].status = "none" /\ row'[c].status = "running"
    \/ row[c].status = "running" /\ row'[c].status \in Final \cup {"stopping"}
    \/ row[c].status = "stopping" /\ row'[c].status \in {"stopped", "interrupted"}
    \/ /\ row[c].status \in {"succeeded", "stopped"} /\ row'[c].status = "failed"
       /\ agent = "dead" /\ job[c].pc = "settled"

LEMMA RowMoves == Inv /\ [Next]_vars => \A c \in Calls : RowStep(c)
<1> SUFFICES ASSUME Inv, [Next]_vars, NEW c \in Calls PROVE RowStep(c)
  OBVIOUS
<1>a. /\ job[c].pc = "registered" => row[c].status = "none"
      /\ job[c].pc = "ended" => row[c].status \in Open
      /\ job[c].pc = "settled" => row[c].status \in {"succeeded", "failed", "stopped"}
  BY DEF Inv, RowsOK
<1>1. CASE \E d \in Calls : OneMoves(d)
  <2>1. PICK d \in Calls : OneMoves(d)
    BY <1>1
  <2>2. CASE c = d
    BY <1>a, <2>1, <2>2 DEF OneMoves, Moves, Stays, Goes, RowStays, Open, Final, RowStep
  <2>3. CASE c # d
    BY <2>1, <2>3 DEF OneMoves, RowStep
  <2> QED
    BY <2>2, <2>3
<1>2. CASE AllSuffer
  BY <1>2 DEF AllSuffer, Suffers, RowStays, Marked, Open, Final, RowStep
<1>3. CASE Quiet
  BY <1>3 DEF Quiet, RowStep
<1> QED
  BY <1>1, <1>2, <1>3, Steps

\* The runner, /stop and recovery write one column in any order
\* (core/state.py: finish_*, mark_*_stopping, recover_*); an end is rewritten
\* only by the second finish_* of a worker whose agent is dead, as a failure.
THEOREM RowsMoveOn == Spec => RowLifecycle
<1>1. Inv /\ [Next]_vars =>
        [\A c \in Calls :
            \/ row'[c].status = row[c].status
            \/ row[c].status = "none" /\ row'[c].status = "running"
            \/ row[c].status = "running" /\ row'[c].status \in Final \cup {"stopping"}
            \/ row[c].status = "stopping" /\ row'[c].status \in {"stopped", "interrupted"}
            \/ /\ row[c].status \in {"succeeded", "stopped"} /\ row'[c].status = "failed"
               /\ agent = "dead" /\ job[c].pc = "settled"]_row
  BY RowMoves DEF RowStep
<1> QED
  BY <1>1, Invariance, PTL DEF Spec, RowLifecycle
-----------------------------------------------------------------------------
(* What the chat was told. *)

\* Only a look of the monitor tells the chat anything, and it leaves the rows.
LEMMA TellsOnlyByLook ==
  Inv /\ [Next]_vars =>
     \/ told' = told
     \/ /\ row' = row
        /\ \A c \in Calls : told'[c] \subseteq told[c] \cup {row[c].status}
<1> SUFFICES ASSUME Inv, Next, told' # told
             PROVE  /\ row' = row
                    /\ \A c \in Calls : told'[c] \subseteq told[c] \cup {row[c].status}
  BY DEF vars
<1>1. ~ (\E c \in Calls : Dispatch(c) \/ CancelNotice(c) \/ Worker(c) \/ Runs(c))
  BY DEF Dispatch, CancelNotice, Worker, Runs
<1>2. ~ (Eof \/ Exit \/ RecordPid \/ AgentEnds \/ BridgeDies \/ Recover)
  BY DEF Eof, Exit, RecordPid, AgentEnds, BridgeDies, Recover
<1>3. ~ (Stop \/ StopFindsNothing \/ StopKills)
  BY DEF Stop, StopFindsNothing, StopKills
<1>4. Look
  BY <1>1, <1>2, <1>3 DEF Next, SandboxMonitor, ContainerMonitor
<1> QED
  BY <1>4 DEF Look

\* The agent of a run does not come back.
LEMMA AgentStaysDead == Inv /\ [Next]_vars /\ agent = "dead" => agent' = "dead"
<1> SUFFICES ASSUME Next, agent = "dead" PROVE agent' = "dead"
  BY DEF vars
<1>1. CASE \E c \in Calls : Dispatch(c) \/ CancelNotice(c) \/ Worker(c) \/ Runs(c)
  BY <1>1 DEF Dispatch, CancelNotice, Worker, Runs
<1>2. CASE Eof \/ Exit \/ RecordPid \/ AgentEnds \/ BridgeDies \/ Recover
  BY <1>2 DEF Eof, Exit, RecordPid, AgentEnds, BridgeDies, Recover
<1>3. CASE Stop \/ StopFindsNothing \/ StopKills
  BY <1>3 DEF Stop, StopFindsNothing, StopKills, Signal
<1>4. CASE SandboxMonitor \/ ContainerMonitor
  BY <1>4 DEF SandboxMonitor, ContainerMonitor, Look
<1> QED
  BY <1>1, <1>2, <1>3, <1>4 DEF Next

\* The monitor tells the chat of the end of the newest job it finds in the
\* table (scheduler.py), while runner, /stop and recovery write that table: an
\* end it was told of is what the row goes on to say, unless the agent is dead
\* and the second finish_* has made a failure of it.
THEOREM ChatIsToldTheTruth == Spec => []ToldTheTruth
<1>1. Init => ToldTheTruth
  BY DEF Init, ToldTheTruth
<1>2. Inv /\ ToldTheTruth /\ [Next]_vars => ToldTheTruth'
  <2> SUFFICES ASSUME Inv, ToldTheTruth, [Next]_vars, NEW c \in Calls,
                      NEW end \in told'[c]
               PROVE  \/ end = row'[c].status
                      \/ /\ end \in {"succeeded", "stopped"}
                         /\ row'[c].status = "failed" /\ agent' = "dead"
    BY DEF ToldTheTruth
  <2>1. CASE end \in told[c]
    <3>1. /\ end \in Final
          /\ \/ end = row[c].status
             \/ /\ end \in {"succeeded", "stopped"}
                /\ row[c].status = "failed" /\ agent = "dead"
      BY <2>1 DEF ToldTheTruth, Inv, TypeOK
    <3>2. \/ row'[c].status = row[c].status
          \/ /\ row[c].status \in {"succeeded", "stopped"}
             /\ row'[c].status = "failed" /\ agent = "dead"
      BY <3>1, RowMoves DEF RowStep, Final
    <3> QED
      BY <3>1, <3>2, AgentStaysDead
  <2>2. CASE end \notin told[c]
    BY <2>2, TellsOnlyByLook
  <2> QED
    BY <2>1, <2>2
<1> QED
  BY <1>1, <1>2, Invariance, PTL DEF Spec

-----------------------------------------------------------------------------
(* What a success means. *)

\* A job is recorded as succeeded, and the chat told so, only when its process
\* has ended and, in a container, nothing of it runs on inside, whatever was
\* cancelled, stopped or timed out at the end of the command.
SuccessIsOver ==
    \A c \in Calls :
        row[c].status = "succeeded" \/ "succeeded" \in told[c]
            => ~ Alive(c) /\ job[c].inner # "alive"

Early == {"idle", "asked", "registered", "begun"}
Over(j) == j.proc # "alive" /\ j.inner # "alive"

\* An exit code of zero, and a verdict made of it, are of a command that is over.
Earned(j) ==
    /\ kind = "sandbox" => j.inner # "alive"
    /\ j.exit = "zero" \/ j.verdict = "ok" => Over(j)
    /\ j.pc \in Early => j.exit # "zero" /\ j.verdict # "ok"

EarnedOK ==
    \A c \in Calls :
        /\ Earned(job[c])
        /\ row[c].status = "succeeded" \/ "succeeded" \in told[c] => Over(job[c])

\* What most steps do to a job: nothing of it starts, nothing new is claimed.
Fades(j, k) ==
    /\ k.proc = "alive" => j.proc = "alive"
    /\ k.inner = "alive" => j.inner = "alive"
    /\ k.exit = "zero" => j.exit = "zero"
    /\ k.verdict = "ok" => j.verdict = "ok"
    /\ k.pc \in Early => j.pc \in Early

LEMMA AbandonedFades ==
  ASSUME NEW j \in JobStates
  PROVE  Fades(j, Abandoned(j))
<1>1. CASE j.pc \in Registered \cup {"asked"} \/ j.proc = "alive"
  <2> DEFINE pc == IF j.pc = "answered" THEN j.pc ELSE "lost"
             proc == IF j.proc = "alive" /\ ~ DieWithParent THEN "alive" ELSE "exited"
             flag == IF j.flag = "leaked" THEN j.flag ELSE "no"
  <2>1. Abandoned(j) = [pc |-> pc, cancel |-> FALSE, proc |-> proc,
           inner |-> j.inner, known |-> FALSE, stop |-> "no", flag |-> flag,
           exit |-> "none", verdict |-> "none"]
    BY <1>1 DEF Abandoned, NoJob
  <2>2. pc \in {"answered", "lost"} /\ (proc = "alive" => j.proc = "alive")
    OBVIOUS
  <2> HIDE DEF pc, proc, flag
  <2> QED
    BY <2>1, <2>2 DEF Fades, Early
<1>2. CASE ~ (j.pc \in Registered \cup {"asked"} \/ j.proc = "alive")
  BY <1>2 DEF Abandoned, Fades
<1> QED
  BY <1>1, <1>2

LEMMA SignalledFades ==
  ASSUME NEW j \in JobStates, NEW c \in Calls, NEW p, NEW i
  PROVE  Fades(j, Signalled(j, c, p, i))
  BY DEF Signalled, JobStates, Fades, Early

LEMMA EndedFades ==
  ASSUME NEW j \in JobStates, NEW v \in {"error", "cancelled"}
  PROVE  Fades(j, Ended(j, v))
  BY DEF Ended, NoJob, JobStates, Fades, Early

LEMMA WorkerFades ==
  ASSUME Inv, NEW c \in Calls,
         \/ Dispatch(c) \/ CancelNotice(c)
         \/ Register(c) \/ Begin(c) \/ Settle(c) \/ SettleAgain(c) \/ Release(c)
         \/ SandboxPid(c) \/ ContainerPid(c) \/ ReadMarker(c)
  PROVE  Fades(job[c], job'[c])
<1>1. job \in [Calls -> JobStates]
  BY DEF Inv, TypeOK
<1> QED
  BY <1>1 DEF Dispatch, CancelNotice, Register, Begin, Settle, SettleAgain, Release,
     SandboxPid, ContainerPid, ReadMarker, NoJob, JobStates, Fades, Early

LEMMA PassFades ==
  ASSUME Inv, NEW c \in Calls, Pass(c)
  PROVE  Fades(job[c], job'[c])
<1>1. job \in [Calls -> JobStates] /\ Reason(job[c]) \in Reasons
  BY DEF Inv, TypeOK, Reason, Reasons
<1>2. PICK s \in Stops, p \in Procs, x \in Exits, i \in Inners :
        /\ job' = [job EXCEPT ![c] = Ticked(job[c], Reason(job[c]), s, p, x, i)]
        /\ p = "alive" => Alive(c)
        /\ x = job[c].exit \/ x = "other"
        /\ i = "alive" => job[c].inner = "alive"
  BY DEF Pass
<1> DEFINE j == Ticked(job[c], Reason(job[c]), s, p, x, i)
<1>3. /\ j.pc = job[c].pc /\ j.proc = p /\ j.exit = x /\ j.inner = i
      /\ j.verdict = job[c].verdict
  BY <1>1, TickedJob
<1>4. job'[c] = j
  BY <1>1, <1>2
<1> HIDE DEF j
<1> QED
  BY <1>2, <1>3, <1>4 DEF Fades, Alive

\* A job that fades keeps what it has earned.
LEMMA FadesKeeps ==
  ASSUME NEW j, NEW k, Earned(j), Fades(j, k)
  PROVE  Earned(k) /\ (Over(j) => Over(k))
  BY DEF Earned, Fades, Over

\* The steps of one call that do not just fade: a process is started, one
\* inside it, or one ends by itself.
LEMMA StartEarned ==
  ASSUME Inv, EarnedOK, NEW c \in Calls,
         SandboxLaunch(c) \/ ContainerLaunch(c) \/ Command(c)
  PROVE  /\ Earned(job'[c])
         /\ Over(job[c]) => Over(job'[c]) \/ job[c].pc = "begun"
<1>1. job \in [Calls -> JobStates] /\ job[c] \in JobStates /\ Earned(job[c])
  BY DEF Inv, TypeOK, EarnedOK
<1>2. ASSUME job' = [job EXCEPT ![c] = Ended(@, "error")]
      PROVE  Fades(job[c], job'[c])
  BY <1>1, <1>2, EndedFades
<1>3. ASSUME job[c].pc = "begun",
             job' = [job EXCEPT ![c].pc = "spawned", ![c].proc = "alive"]
      PROVE  Earned(job'[c])
  BY <1>1, <1>3 DEF JobStates, Earned, Early
<1>4. CASE InnerStarts(c)
  BY <1>1, <1>4 DEF InnerStarts, JobStates, Earned, Over, Alive
<1>5. CASE InnerEnds(c)
  BY <1>1, <1>5 DEF InnerEnds, JobStates, Earned, Over
<1>6. CASE ProcEnds(c)
  <2>1. PICK e \in {"zero", "other"} :
          /\ kind = "container" => job[c].inner # "alive"
          /\ job' = [job EXCEPT ![c].proc = "exited",
                                ![c].exit = IF job[c].pc \in Heeded THEN e ELSE @]
    BY <1>6 DEF ProcEnds
  <2>2. job[c].pc \in Heeded => job[c].pc \notin Early
    BY <1>6 DEF ProcEnds, Inv, ProcsOK, ServerOK, Early, Heeded, Registered,
       Working
  <2> QED
    BY <1>1, <2>1, <2>2 DEF JobStates, Earned, Over
<1> QED
  BY <1>1, <1>2, <1>3, <1>4, <1>5, <1>6, FadesKeeps
  DEF SandboxLaunch, ContainerLaunch, Command

\* The runner returns: "ok" is the verdict of a command that ended with zero.
LEMMA EndsEarned ==
  ASSUME Inv, EarnedOK, NEW c \in Calls, SandboxEnds(c) \/ ContainerEnds(c)
  PROVE  Earned(job'[c]) /\ (Over(job[c]) => Over(job'[c]))
<1>1. job \in [Calls -> JobStates] /\ job[c] \in JobStates /\ Earned(job[c])
  BY DEF Inv, TypeOK, EarnedOK
<1>2. PICK v \in {"ok", "error", "cancelled"} :
        /\ job' = [job EXCEPT ![c] = Ended(job[c], v)]
        /\ v = "ok" => job[c].exit = "zero"
  BY DEF SandboxEnds, ContainerEnds
<1>3. job'[c] = Ended(job[c], v)
  BY <1>1, <1>2
<1>4. CASE v # "ok"
  BY <1>1, <1>3, <1>4, EndedFades, FadesKeeps
<1>5. CASE v = "ok"
  <2>1. Over(job[c])
    BY <1>1, <1>2, <1>5 DEF Earned
  <2> QED
    BY <1>1, <1>3, <2>1 DEF Ended, NoJob, Earned, Over, Early
<1> QED
  BY <1>4, <1>5

\* A runner that breaks claims nothing.
LEMMA BreaksFades ==
  ASSUME Inv, NEW c \in Calls, SandboxBreaks(c)
  PROVE  Fades(job[c], job'[c])
<1>1. job \in [Calls -> JobStates]
  BY DEF Inv, TypeOK
<1> QED
  BY <1>1 DEF SandboxBreaks, NoJob, Fades, Early, Alive

\* Only a verdict "ok" makes a success of a row.
LEMMA OnlySettleSucceeds ==
  ASSUME Inv, NEW c \in Calls,
         Dispatch(c) \/ CancelNotice(c) \/ Worker(c) \/ Runs(c),
         row'[c].status = "succeeded", row[c].status # "succeeded"
  PROVE  job[c].verdict = "ok" /\ Fades(job[c], job'[c])
<1>1. job \in [Calls -> JobStates] /\ row \in [Calls -> RowStates]
  BY DEF Inv, TypeOK
<1>2. Goes(c, "ended", "settled")
  BY CallMoves DEF OneMoves, Moves, Stays, RowStays
<1>3. Settle(c)
  <2>1. ~ Command(c)
    BY <1>1, <1>2 DEF Command, InnerStarts, InnerEnds, ProcEnds, JobStates, Goes
  <2>2. ~ (SandboxTick(c) \/ ContainerTick(c))
    BY <1>2, SandboxPass, ContainerPass DEF Pass, Goes
  <2> QED
    BY <1>2, <2>1, <2>2
    DEF Goes, Dispatch, CancelNotice, Heeded, Worker, Runs, SandboxCall,
        ContainerCall, Register, Begin, SettleAgain, Release, SandboxLaunch, SandboxPid,
        SandboxEnds, ContainerLaunch, ContainerPid, ReadMarker, ContainerEnds,
        SandboxBreaks
<1>4. job[c].verdict = "ok"
  BY <1>1, <1>3 DEF Settle, Finished, ContainerFinished, NoRow, RowStates
<1> QED
  BY <1>3, <1>4, WorkerFades

\* A step of one call.
LEMMA OwnEarned ==
  ASSUME Inv, EarnedOK, ToldTheTruth, NEW c \in Calls,
         Dispatch(c) \/ CancelNotice(c) \/ Worker(c) \/ Runs(c)
  PROVE  EarnedOK'
<1>1. /\ kind' = kind /\ told' = told
      /\ \A d \in Calls \ {c} : job'[d] = job[d] /\ row'[d] = row[d]
  BY CallMoves DEF OneMoves, Dispatch, CancelNotice, Worker, Runs
<1>2. /\ Earned(job'[c])
      /\ Over(job[c]) => Over(job'[c]) \/ job[c].pc = "begun"
  <2>1. Earned(job[c])
    BY DEF EarnedOK
  <2> QED
    BY <2>1, FadesKeeps, WorkerFades, PassFades, SandboxPass, ContainerPass,
       BreaksFades, StartEarned, EndsEarned
    DEF Worker, Runs, SandboxCall, ContainerCall
<1>3. row'[c].status = "succeeded" \/ "succeeded" \in told[c] => Over(job'[c])
  <2>1. CASE row[c].status = "succeeded" \/ "succeeded" \in told[c]
    <3>1. row[c].status \in {"succeeded", "failed"} /\ Over(job[c])
      BY <2>1 DEF EarnedOK, ToldTheTruth
    <3> QED
      BY <1>2, <3>1 DEF Inv, RowsOK, Open
  <2>2. CASE row'[c].status = "succeeded" /\ row[c].status # "succeeded"
    BY <2>2, OnlySettleSucceeds, FadesKeeps DEF EarnedOK, Earned
  <2> QED
    BY <2>1, <2>2
<1> QED
  BY <1>1, <1>2, <1>3 DEF EarnedOK, Earned

\* A step that reaches every call.
LEMMA EveryEarned ==
  ASSUME Inv, EarnedOK,
         Eof \/ Exit \/ AgentEnds \/ Stop \/ StopFindsNothing \/ StopKills
             \/ BridgeDies \/ Recover
  PROVE  EarnedOK' /\ \A c \in Calls : Fades(job[c], job'[c])
<1>1. job \in [Calls -> JobStates] /\ kind' = kind /\ told' = told
  BY DEF Inv, TypeOK, Eof, Exit, AgentEnds, Stop, StopFindsNothing, StopKills,
     BridgeDies, Recover
<1>2. ASSUME NEW c \in Calls PROVE Fades(job[c], job'[c])
  <2>1. ASSUME NEW p, NEW i,
               \/ job'[c] = Signalled(job[c], c, p, i)
               \/ job'[c] = Abandoned(Signalled(job[c], c, p, i))
               \/ job'[c] = Signalled(Abandoned(job[c]), c, p, i)
        PROVE  Fades(job[c], job'[c])
    BY <1>1, <2>1, SignalledFades, AbandonedFades, SignalledJob, AbandonedJob
    DEF Fades
  <2>2. ASSUME NEW pids, NEW inners, NEW sure \in BOOLEAN,
               Signal(pids, inners, sure)
        PROVE  Fades(job[c], job'[c])
    <3>1. PICK p, i :
            LET signalled == [d \in Calls |-> Signalled(job[d], d, p, i)]
            IN  \/ agent = "alive" /\ LosesAgent(signalled)
                \/ job' = signalled
      BY <2>2 DEF Signal
    <3>2. \/ job' = [d \in Calls |-> Signalled(job[d], d, p, i)]
          \/ job' = [d \in Calls |-> Abandoned(Signalled(job[d], d, p, i))]
      BY <3>1 DEF LosesAgent
    <3> QED
      BY <2>1, <3>2
  <2>3. ASSUME job' = job PROVE Fades(job[c], job'[c])
    BY <2>3 DEF Fades
  <2>4. CASE Eof
    BY <1>1, <2>4 DEF Eof, JobStates, Fades
  <2>5. CASE Exit \/ AgentEnds
    BY <1>1, <2>3, <2>5, AbandonedFades DEF Exit, AgentEnds, LosesAgent
  <2>6. CASE Stop \/ StopKills
    BY <2>2, <2>6 DEF Stop, StopKills
  <2>7. CASE BridgeDies
    BY <2>1, <2>7 DEF BridgeDies
  <2>8. CASE StopFindsNothing \/ Recover
    BY <2>3, <2>8 DEF StopFindsNothing, Recover
  <2> QED
    BY <2>4, <2>5, <2>6, <2>7, <2>8
<1>3. \A c \in Calls : row'[c].status = "succeeded" => row[c].status = "succeeded"
  BY EveryCall DEF AllSuffer, Suffers, RowStays, Marked
<1> QED
  BY <1>1, <1>2, <1>3, FadesKeeps DEF EarnedOK, Earned

LEMMA EarnedStep == Inv /\ ToldTheTruth /\ EarnedOK /\ [Next]_vars => EarnedOK'
<1> SUFFICES ASSUME Inv, ToldTheTruth, EarnedOK, [Next]_vars PROVE EarnedOK'
  OBVIOUS
<1>1. CASE RecordPid \/ UNCHANGED vars
  BY <1>1 DEF RecordPid, vars, EarnedOK, Earned
<1>2. CASE SandboxMonitor \/ ContainerMonitor
  BY <1>2 DEF SandboxMonitor, ContainerMonitor, Look, EarnedOK, Earned
<1> QED
  BY <1>1, <1>2, OwnEarned, EveryEarned DEF Next

\* A success, of a row or told to the chat, is of a command that is over.
THEOREM SuccessIsOfTheDone == Spec => []SuccessIsOver
<1>1. Init => EarnedOK
  BY DEF Init, NoJob, NoRow, EarnedOK, Earned
<1>2. Inv /\ ToldTheTruth /\ EarnedOK /\ [Next]_vars => EarnedOK'
  BY EarnedStep
<1>3. Inv /\ EarnedOK => SuccessIsOver
  BY DEF EarnedOK, Over, Alive, SuccessIsOver
<1> QED
  BY <1>1, <1>2, <1>3, Invariance, ChatIsToldTheTruth, PTL DEF Spec

-----------------------------------------------------------------------------
(* One command at a time. *)

\* The exceptions of OneCommandAtATime.
Exempt(c) == Leaked(c) \/ Survivor(c)

\* A command at work that is nobody's exception has the lock.
HeldOK == \A c \in Calls : AtWork(c) => Exempt(c) \/ job[c].pc \in Working \/ server = "gone"

\* A step of one call: only a launch brings a command to work, what is exempt
\* stays so while it is at work, and what lets go of the lock is exempt.
LEMMA OwnWork ==
  ASSUME Inv, EarnedOK, NEW c \in Calls,
         Dispatch(c) \/ CancelNotice(c) \/ Worker(c) \/ Runs(c)
  PROVE  /\ AtWork(c)' => AtWork(c) \/ Goes(c, "begun", "spawned")
         /\ Exempt(c) /\ AtWork(c)' => Exempt(c)'
         /\ job[c].pc \in Working /\ AtWork(c)' => Exempt(c)' \/ job'[c].pc \in Working
<1>1. /\ OneMoves(c) /\ kind' = kind
      /\ job \in [Calls -> JobStates] /\ job[c] \in JobStates
  BY CallMoves DEF Inv, TypeOK, Dispatch, CancelNotice, Worker, Runs
<1>2. AtWork(c)' => AtWork(c) \/ Goes(c, "begun", "spawned")
  <2>1. ASSUME Fades(job[c], job'[c]) PROVE AtWork(c)' => AtWork(c)
    BY <2>1 DEF Fades, AtWork, Alive
  <2>2. CASE SandboxLaunch(c) \/ ContainerLaunch(c)
    <3>1. CASE job' = [job EXCEPT ![c] = Ended(@, "error")]
      BY <1>1, <2>1, <3>1, EndedFades
    <3>2. CASE job' = [job EXCEPT ![c].pc = "spawned", ![c].proc = "alive"]
      BY <1>1, <2>2, <3>2 DEF SandboxLaunch, ContainerLaunch, Goes, JobStates
    <3> QED
      BY <2>2, <3>1, <3>2 DEF SandboxLaunch, ContainerLaunch
  <2>3. CASE Command(c)
    BY <1>1, <2>3 DEF Command, InnerStarts, InnerEnds, ProcEnds, JobStates,
       AtWork, Alive
  <2>4. CASE SandboxEnds(c) \/ ContainerEnds(c)
    <3>1. PICK v \in {"ok", "error", "cancelled"} : job'[c] = Ended(job[c], v)
      BY <1>1, <2>4 DEF SandboxEnds, ContainerEnds
    <3> QED
      BY <3>1 DEF Ended, NoJob, AtWork, Alive
  <2> QED
    BY <2>1, <2>2, <2>3, <2>4, WorkerFades, PassFades, SandboxPass,
       ContainerPass, BreaksFades
    DEF Worker, Runs, SandboxCall, ContainerCall
<1>3. Exempt(c) /\ AtWork(c)' => Exempt(c)'
  <2>1. CASE Leaked(c)
    <3>1. job[c].pc \in {"ended", "settled", "resettled", "answered", "lost"}
      BY <2>1 DEF Inv, ProcsOK
    <3> QED
      BY <1>1, <2>1, <3>1 DEF OneMoves, Moves, Stays, Goes, Fewer, Exempt
  <2>2. CASE Survivor(c)
    <3>1. /\ row[c].status \in {"failed", "stopped"} /\ kind' = "container"
          /\ ~ Alive(c)
      BY <1>1, <2>2 DEF Survivor
    <3>2. job[c].pc \notin {"registered", "begun", "spawned", "running", "ended"}
      BY <3>1 DEF Inv, RowsOK, Open
    <3>3. ~ Alive(c)' /\ row'[c].status \in {"failed", "stopped"}
      BY <1>1, <3>1, <3>2 DEF OneMoves, Moves, Stays, Goes, Fewer, RowStays
    <3> QED
      BY <3>1, <3>3 DEF Survivor, AtWork, Exempt
  <2> QED
    BY <2>1, <2>2 DEF Exempt
<1>4. ASSUME job[c].pc \in Working, AtWork(c)', job'[c].pc \notin Working
      PROVE  Exempt(c)'
  <2>1. /\ Goes(c, "settled", "answered") \/ Goes(c, "resettled", "answered")
        /\ Fewer(c) /\ RowStays(c)
    BY <1>1, <1>4 DEF OneMoves, Moves, Stays, Goes, Working
  <2>2. AtWork(c)
    BY <1>2, <1>4, <2>1 DEF Goes
  <2>3. CASE Alive(c)
    <3>1. Leaked(c)
      BY <2>1, <2>3 DEF Goes, Inv, ProcsOK, ServerOK, Registered, Working
    <3> QED
      BY <2>1, <3>1 DEF Fewer, Exempt
  <2>4. CASE ~ Alive(c)
    <3>1. job[c].inner = "alive"
      BY <2>2, <2>4 DEF AtWork
    <3>2. row[c].status \in {"failed", "stopped"}
      BY <2>1, <3>1 DEF Goes, Inv, RowsOK, EarnedOK, Over
    <3>3. kind = "container"
      BY <3>1 DEF EarnedOK, Earned, Inv, TypeOK
    <3> QED
      BY <1>1, <1>4, <2>1, <2>4, <3>2, <3>3
      DEF Fewer, RowStays, Survivor, AtWork, Exempt
  <2> QED
    BY <2>3, <2>4
<1> QED
  BY <1>2, <1>3, <1>4

\* A step that reaches every call.
LEMMA EveryWork ==
  ASSUME Inv, AllSuffer, kind' = kind, NEW c \in Calls, Fades(job[c], job'[c])
  PROVE  /\ AtWork(c)' => AtWork(c)
         /\ Exempt(c) /\ AtWork(c)' => Exempt(c)'
         /\ job[c].pc \in Working => job'[c].pc \in Working \/ server' = "gone"
<1>1. Suffers(c)
  BY DEF AllSuffer
<1>2. AtWork(c)' => AtWork(c)
  BY DEF Fades, AtWork, Alive
<1>3. Exempt(c) /\ AtWork(c)' => Exempt(c)'
  BY <1>1 DEF Suffers, Fewer, RowStays, Marked, Open, Exempt, Survivor, AtWork,
     Alive, Leaked
<1>4. job[c].pc \in Working => job'[c].pc \in Working \/ server' = "gone"
  BY <1>1 DEF Suffers
<1> QED
  BY <1>2, <1>3, <1>4

WorkOK == HeldOK /\ OneCommandAtATime

LEMMA OwnWorkOK ==
  ASSUME Inv, EarnedOK, WorkOK, NEW c \in Calls,
         Dispatch(c) \/ CancelNotice(c) \/ Worker(c) \/ Runs(c)
  PROVE  WorkOK'
<1>1. /\ OneMoves(c) /\ server' = server /\ kind' = kind
  BY CallMoves DEF Dispatch, CancelNotice, Worker, Runs
<1>2. \A d \in Calls \ {c} : (AtWork(d)' <=> AtWork(d)) /\ (Exempt(d)' <=> Exempt(d))
  BY <1>1 DEF OneMoves, AtWork, Alive, Exempt, Leaked, Survivor
<1>3. HeldOK'
  <2> SUFFICES ASSUME NEW d \in Calls, AtWork(d)', ~ Exempt(d)', server' # "gone"
               PROVE  job'[d].pc \in Working
    BY DEF HeldOK
  <2>1. CASE d = c
    BY <1>1, <2>1, OwnWork DEF WorkOK, HeldOK, Goes, Working
  <2>2. CASE d # c
    BY <1>1, <1>2, <2>2 DEF WorkOK, HeldOK, OneMoves
  <2> QED
    BY <2>1, <2>2
<1>4. OneCommandAtATime'
  <2> SUFFICES ASSUME NEW d \in Calls, NEW e \in Calls, d # e,
                      AtWork(d)', AtWork(e)', ~ Exempt(d)', ~ Exempt(e)'
               PROVE  FALSE
    BY DEF OneCommandAtATime, Exempt
  <2>1. CASE Goes(c, "begun", "spawned")
    <3>1. ASSUME NEW f \in Calls \ {c}, AtWork(f) PROVE Exempt(f)
      <4>1. job[c].pc \in Working /\ server # "gone"
        BY <2>1 DEF Goes, Working, Inv, ServerOK, Registered
      <4> QED
        BY <3>1, <4>1 DEF WorkOK, HeldOK, Inv, LockOK
    <3> QED
      BY <1>2, <3>1
  <2>2. CASE ~ Goes(c, "begun", "spawned")
    <3>1. AtWork(d) /\ AtWork(e) /\ ~ Exempt(d) /\ ~ Exempt(e)
      BY <1>2, <2>2, OwnWork
    <3> QED
      BY <3>1 DEF WorkOK, OneCommandAtATime, Exempt
  <2> QED
    BY <2>1, <2>2
<1> QED
  BY <1>3, <1>4 DEF WorkOK

LEMMA WorkStep == Inv /\ EarnedOK /\ WorkOK /\ [Next]_vars => WorkOK'
<1> SUFFICES ASSUME Inv, EarnedOK, WorkOK, [Next]_vars PROVE WorkOK'
  OBVIOUS
<1>1. CASE Eof \/ Exit \/ AgentEnds \/ Stop \/ StopFindsNothing \/ StopKills
          \/ BridgeDies \/ Recover
  <2>1. /\ AllSuffer /\ kind' = kind
        /\ \A c \in Calls : Fades(job[c], job'[c])
    BY <1>1, EveryCall, EveryEarned
    DEF Eof, Exit, AgentEnds, Stop, StopFindsNothing, StopKills, BridgeDies, Recover
  <2>2. \A c \in Calls :
           /\ AtWork(c)' => AtWork(c)
           /\ Exempt(c) /\ AtWork(c)' => Exempt(c)'
           /\ job[c].pc \in Working => job'[c].pc \in Working \/ server' = "gone"
    BY <2>1, EveryWork
  <2>3. server = "gone" => server' = "gone"
    BY <2>1 DEF AllSuffer
  <2>4. HeldOK'
    BY <2>2, <2>3 DEF WorkOK, HeldOK
  <2>5. OneCommandAtATime'
    <3> SUFFICES ASSUME NEW d \in Calls, NEW e \in Calls, d # e,
                        AtWork(d)', AtWork(e)', ~ Exempt(d)', ~ Exempt(e)'
                 PROVE  FALSE
      BY DEF OneCommandAtATime, Exempt
    <3> QED
      BY <2>2 DEF WorkOK, OneCommandAtATime, Exempt
  <2> QED
    BY <2>4, <2>5 DEF WorkOK
<1>2. CASE RecordPid \/ SandboxMonitor \/ ContainerMonitor \/ UNCHANGED vars
  BY <1>2 DEF RecordPid, SandboxMonitor, ContainerMonitor, Look, vars, WorkOK,
     HeldOK, OneCommandAtATime, AtWork, Alive, Exempt, Leaked, Survivor
<1> QED
  BY <1>1, <1>2, OwnWorkOK DEF Next

\* The tool lock of runtimes/*/mcp.py keeps two commands of one agent apart,
\* in a container the sessions inside as well, for any number of calls; the
\* exceptions are a runner that broke (runner.py) and a session that outlived
\* its docker client, which no row calls a success.
THEOREM OneAtATime == Spec => []OneCommandAtATime
<1>1. Init => EarnedOK /\ WorkOK
  BY DEF Init, NoJob, NoRow, EarnedOK, Earned, WorkOK, HeldOK,
     OneCommandAtATime, AtWork, Alive
<1>2. Inv /\ ToldTheTruth /\ EarnedOK /\ [Next]_vars => EarnedOK'
  BY EarnedStep
<1>3. Inv /\ EarnedOK /\ WorkOK /\ [Next]_vars => WorkOK'
  BY WorkStep
<1>4. WorkOK => OneCommandAtATime
  BY DEF WorkOK
<1> QED
  BY <1>1, <1>2, <1>3, <1>4, Invariance, ChatIsToldTheTruth, PTL DEF Spec

=============================================================================
