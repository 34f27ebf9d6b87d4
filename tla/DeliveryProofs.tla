--------------------------- MODULE DeliveryProofs ---------------------------
(***************************************************************************)
(* Proofs about module Delivery, for any number of messages, replies,      *)
(* attempts and deaths of the process.                                     *)
(***************************************************************************)
EXTENDS DeliveryProperties, FiniteSetTheorems, TLAPS

-----------------------------------------------------------------------------
(* The inductive invariant. *)

\* Rows are inserted in the order of their ids.
RowsOK ==
    \A r \in Rows :
        /\ status[r] = "absent" <=> nextRow <= r
        /\ nextRow <= r => /\ shown[r] = 0
                           /\ attempts[r] = 0
                           /\ noticeOf[r] = NoRow
                           /\ replyTo[r] = NoEvent

\* The sender is busy with the oldest pending row until it has marked it.
SenderOK ==
    /\ sender = "idle" <=> current = NoRow
    /\ sender \notin {"idle", "reporting"} => NextRow(current)
    /\ sender \in {"sent", "told"} => shown[current] > 0
    /\ sender = "dropping" => attempts[current] >= MaxSendAttempts
    /\ sender = "reporting" =>
          /\ status[current] = "failed"
          /\ kind[current] = "media"
          /\ \A r \in Rows : noticeOf[r] # current

\* A copy that is not on record yet.
InFlight(r) == IF sender \in {"sent", "told"} /\ current = r THEN 1 ELSE 0

\* Why copies are bounded: until the sender drops the row every copy but one
\* per death is on record as an attempt, and the last attempt is still to come.
CopiesOK ==
    \A r \in Rows :
        status[r] = "pending" /\ ~(sender = "dropping" /\ current = r) =>
            /\ shown[r] <= attempts[r] + crashes + InFlight(r)
            /\ shown[r] <= MaxSendAttempts - 1 + crashes + InFlight(r)

\* What the receive thread has at hand is registered and not yet carried out,
\* or carried out and not yet answered.
InboundOK ==
    /\ \A e \in Events :
          e \notin inbound => carried[e] = 0 /\ \A r \in Rows : replyTo[r] # e
    /\ rx # "idle" => rxEvent \in inbound
    /\ rx = "registered" => carried[rxEvent] = 0
    /\ rx \in {"carried", "replied"} => carried[rxEvent] = 1
    /\ rx \in {"registered", "carried"} => \A r \in Rows : replyTo[r] # rxEvent

Inv ==
    /\ TypeOK
    /\ RowsOK
    /\ SenderOK
    /\ CopiesOK
    /\ InboundOK
    /\ CarriedOnce
    /\ CopiesBounded
    /\ NoticeOnce

LEMMA InvInit == Init => Inv
<1> SUFFICES ASSUME Init PROVE Inv
  OBVIOUS
<1> USE OutboxAssumption, DeliveryAssumption
    DEF Init, OutboxInit, Rows, NoRow
<1>1. TypeOK
  BY DEF TypeOK, OutboxTypeOK, SenderPc
<1>2. RowsOK /\ SenderOK /\ InboundOK
  BY DEF RowsOK, SenderOK, InboundOK
<1>3. CopiesOK /\ CopiesBounded
  BY DEF CopiesOK, CopiesBounded
<1>4. CarriedOnce /\ NoticeOnce
  BY DEF CarriedOnce, NoticeOnce
<1> QED
  BY <1>1, <1>2, <1>3, <1>4 DEF Inv

-----------------------------------------------------------------------------
(* The types. *)

\* Whoever is busy has something at hand.
LEMMA AtHand ==
  ASSUME TypeOK, SenderOK, InboundOK
  PROVE  /\ sender # "idle" => current \in Rows
         /\ rx # "idle" => rxEvent \in Events
BY DEF TypeOK, OutboxTypeOK, SenderOK, InboundOK

LEMMA StepTypes ==
  TypeOK /\ SenderOK /\ InboundOK /\ [Next]_vars => TypeOK'
<1> SUFFICES ASSUME TypeOK, SenderOK, InboundOK, [Next]_vars PROVE TypeOK'
  OBVIOUS
<1>a. /\ sender # "idle" => current \in Rows
      /\ rx # "idle" => rxEvent \in Events
  BY AtHand
<1> USE OutboxAssumption, DeliveryAssumption
    DEF TypeOK, OutboxTypeOK, Rows, NoRow, SenderPc
<1>1. ASSUME NEW k \in {"text", "media"}, NEW q \in Rows \cup {NoRow},
             InsertRow(k, q)
      PROVE  /\ kind' \in [Rows -> {"none", "text", "media"}]
             /\ status' \in [Rows -> {"absent", "pending", "sent", "failed"}]
             /\ noticeOf' \in [Rows -> Rows \cup {NoRow}]
             /\ nextRow' \in 1 .. MaxRows + 1
             /\ UNCHANGED attempts
  BY <1>1 DEF InsertRow
<1>2. ASSUME NEW e \in Events, Receive(e) \/ ReceiveAgain(e) PROVE TypeOK'
  BY <1>2 DEF Receive, ReceiveAgain, outboxVars, rowVars, senderVars,
      processVars
<1>3. CASE Carry
  <2>1. carried' \in [Events -> Nat]
    BY <1>a, <1>3 DEF Carry
  <2>2. CASE UNCHANGED rowVars
    BY <1>3, <2>1, <2>2 DEF Carry, rowVars, senderVars
  <2>3. CASE InsertRow("media", NoRow)
    BY <1>1, <1>3, <2>1, <2>3 DEF Carry, senderVars
  <2> QED
    BY <1>3, <2>2, <2>3 DEF Carry
<1>4. CASE Reply
  <2>1. replyTo' \in [Rows -> Events \cup {NoEvent}]
    BY <1>a, <1>4 DEF Reply
  <2>2. CASE UNCHANGED rowVars
    BY <1>4, <2>1, <2>2 DEF Reply, rowVars, senderVars
  <2>3. CASE InsertRow("text", NoRow)
    BY <1>1, <1>4, <2>1, <2>3 DEF Reply, senderVars
  <2> QED
    BY <1>4, <2>2, <2>3 DEF Reply
<1>5. CASE Acknowledge
  BY <1>a, <1>5 DEF Acknowledge, outboxVars, rowVars, senderVars
<1>11. CASE ReceiveFails
  BY <1>11 DEF ReceiveFails, outboxVars, rowVars, senderVars, inboundVars
<1>6. CASE Notify
  BY <1>1, <1>6 DEF Notify, senderVars, inboundVars, processVars
<1>7. CASE Send
  <2> USE <1>7 DEF Send, inboundVars, processVars
  <2>1. ASSUME NEW r \in Rows, Take(r) \/ Revoke(r) PROVE TypeOK'
    BY <2>1 DEF Take, Revoke, MarkTerminal, rowVars, senderVars
  <2>2. CASE Show
    BY <1>a, <2>2 DEF Show, rowVars
  <2>3. CASE SendReturns
    <3>1. CASE MarkSent(current)
      BY <1>a, <2>3, <3>1 DEF SendReturns, MarkSent, Pause
    <3>2. CASE MarkTerminal(current)
      BY <1>a, <2>3, <3>2 DEF SendReturns, MarkTerminal, Pause
    <3> QED
      BY <2>3, <3>1, <3>2 DEF SendReturns
  <2>4. CASE SendFails
    BY <1>a, <2>4 DEF SendFails, MarkFailed
  <2>5. CASE Wake
    BY <2>5 DEF Wake, Pause, rowVars
  <2>6. CASE GiveUp
    BY <2>6 DEF GiveUp, MarkTerminal, Pause
  <2>7. CASE Report
    BY <1>1, <2>7 DEF Report, Pause
  <2> QED
    BY <2>1, <2>2, <2>3, <2>4, <2>5, <2>6, <2>7 DEF SenderStep
<1>8. CASE Crash
  BY <1>8 DEF Crash, Pause, rowVars, inboundVars
<1>9. CASE Restart \/ Start
  BY <1>9 DEF Restart, Start, outboxVars, rowVars, senderVars, inboundVars
<1>10. CASE UNCHANGED vars
  BY <1>10 DEF vars, outboxVars, rowVars, senderVars, inboundVars, processVars
<1> QED
  BY <1>2, <1>3, <1>4, <1>5, <1>6, <1>7, <1>8, <1>9, <1>10,
     <1>11
  DEF Next, ReceiveStep

-----------------------------------------------------------------------------
(* Which steps matter to the rows and which to the receive thread. *)

\* A step appends a row, or it is one of the sender's, or a crash, or it
\* leaves rows and sender alone.
LEMMA RowSteps ==
  ASSUME [Next]_vars
  PROVE  \/ /\ \E k \in {"text", "media"} : InsertRow(k, NoRow)
            /\ UNCHANGED <<senderVars, shown, crashes>>
         \/ SenderStep /\ UNCHANGED <<inboundVars, processVars>>
         \/ Crash
         \/ UNCHANGED <<outboxVars, crashes>>
<1>1. CASE \E e \in Events : Receive(e) \/ ReceiveAgain(e)
  BY <1>1 DEF Receive, ReceiveAgain, processVars
<1>2. CASE Carry \/ Reply
  BY <1>2 DEF Carry, Reply, outboxVars
<1>3. CASE Acknowledge \/ ReceiveFails \/ Restart \/ Start \/ UNCHANGED vars
  BY <1>3 DEF Acknowledge, ReceiveFails, Restart, Start, vars, processVars
<1>4. CASE Notify \/ Send
  BY <1>4 DEF Notify, Send, processVars
<1> QED
  BY <1>1, <1>2, <1>3, <1>4 DEF Next, ReceiveStep

\* Only Reply writes down what a row answers, and it answers with a new row.
LEMMA ReplySteps ==
  ASSUME [Next]_vars
  PROVE  \/ UNCHANGED replyTo
         \/ /\ InsertRow("text", NoRow)
            /\ replyTo' = [replyTo EXCEPT ![nextRow] = rxEvent]
BY DEF Next, ReceiveStep, Receive, ReceiveAgain, Carry, Reply, Acknowledge,
   ReceiveFails, Notify, Send, Crash, Restart, Start, inboundVars, vars

\* What the sender's steps do to the table: nothing, append a notice, or
\* change the row at hand, which is pending and stays or is decided.
LEMMA SenderWrites ==
  ASSUME TypeOK, SenderOK, SenderStep
  PROVE  \/ UNCHANGED <<rowVars, shown>>
         \/ Report
         \/ \E r \in Rows :
               /\ NextRow(r)
               /\ \A q \in Rows \ {r} : /\ status'[q] = status[q]
                                        /\ attempts'[q] = attempts[q]
                                        /\ shown'[q] = shown[q]
               /\ status'[r] \in {"pending", "sent", "failed"}
               /\ UNCHANGED <<kind, noticeOf, nextRow>>
<1> USE DEF TypeOK, OutboxTypeOK
<1>1. ASSUME NEW r \in Rows, Take(r) \/ Revoke(r)
      PROVE  \/ UNCHANGED <<rowVars, shown>>
             \/ /\ NextRow(r)
                /\ status' = [status EXCEPT ![r] = "failed"]
                /\ UNCHANGED <<kind, noticeOf, nextRow, attempts, shown>>
  BY <1>1 DEF Take, Revoke, MarkTerminal
<1>2. CASE Wake
  BY <1>2 DEF Wake
<1>3. ASSUME Show \/ SendReturns \/ SendFails \/ GiveUp
      PROVE  /\ current \in Rows
             /\ NextRow(current)
             /\ \A q \in Rows \ {current} : /\ status'[q] = status[q]
                                            /\ attempts'[q] = attempts[q]
                                            /\ shown'[q] = shown[q]
             /\ status'[current] \in {"pending", "sent", "failed"}
             /\ UNCHANGED <<kind, noticeOf, nextRow>>
  <2>1. NextRow(current) /\ sender \notin {"idle", "reporting"}
    BY <1>3 DEF SenderOK, Show, SendReturns, SendFails, GiveUp
  <2>2. current \in Rows /\ status[current] = "pending"
    BY <2>1 DEF NextRow, Pending
  <2>3. CASE Show
    BY <2>1, <2>2, <2>3 DEF Show, rowVars
  <2>4. CASE SendReturns
    BY <2>1, <2>2, <2>4 DEF SendReturns, MarkSent, MarkTerminal
  <2>5. CASE SendFails
    BY <2>1, <2>2, <2>5 DEF SendFails, MarkFailed
  <2>6. CASE GiveUp
    BY <2>1, <2>2, <2>6 DEF GiveUp, MarkTerminal
  <2> QED
    BY <1>3, <2>3, <2>4, <2>5, <2>6
<1> QED
  BY <1>1, <1>2, <1>3 DEF SenderStep

-----------------------------------------------------------------------------
(* The rows. *)

LEMMA StepRows ==
  ASSUME TypeOK, RowsOK, SenderOK, [Next]_vars
  PROVE  RowsOK'
<1> USE OutboxAssumption DEF TypeOK, OutboxTypeOK, Rows, NoRow
<1>1. ASSUME NEW k, NEW q \in Rows \cup {NoRow}, InsertRow(k, q), UNCHANGED shown
      PROVE  RowsOK'
  <2>1. CASE UNCHANGED replyTo
    BY <1>1, <2>1 DEF InsertRow, RowsOK
  <2>2. CASE replyTo' = [replyTo EXCEPT ![nextRow] = rxEvent]
    BY <1>1, <2>2 DEF InsertRow, RowsOK
  <2>3. UNCHANGED replyTo \/ replyTo' = [replyTo EXCEPT ![nextRow] = rxEvent]
    BY ReplySteps
  <2> QED
    BY <2>1, <2>2, <2>3
<1>3. CASE UNCHANGED <<rowVars, shown>>
  <2>1. UNCHANGED replyTo
    BY <1>3, ReplySteps DEF InsertRow, rowVars
  <2> QED
    BY <1>3, <2>1 DEF RowsOK, rowVars
<1>4. CASE SenderStep /\ UNCHANGED inboundVars
  <2>1. CASE Report
    BY <1>1, <2>1 DEF Report
  <2>2. ASSUME NEW r \in Rows,
               NextRow(r),
               \A q \in Rows \ {r} : /\ status'[q] = status[q]
                                     /\ attempts'[q] = attempts[q]
                                     /\ shown'[q] = shown[q],
               status'[r] \in {"pending", "sent", "failed"},
               UNCHANGED <<kind, noticeOf, nextRow>>
        PROVE  RowsOK'
    <3>1. ~ nextRow <= r
      BY <2>2 DEF RowsOK, NextRow, Pending
    <3>2. UNCHANGED replyTo
      BY <1>4 DEF inboundVars
    <3>3. ASSUME NEW q \in Rows
          PROVE  /\ status'[q] = "absent" <=> nextRow' <= q
                 /\ nextRow' <= q => /\ shown'[q] = 0
                                     /\ attempts'[q] = 0
                                     /\ noticeOf'[q] = NoRow
                                     /\ replyTo'[q] = NoEvent
      <4>1. CASE q = r
        BY <2>2, <3>1, <4>1
      <4>2. CASE q # r
        BY <2>2, <3>2, <4>2 DEF RowsOK
      <4> QED
        BY <4>1, <4>2
    <3> QED
      BY <3>3 DEF RowsOK
  <2> QED
    BY <1>3, <1>4, <2>1, <2>2, SenderWrites
<1>5. CASE Crash
  BY <1>3, <1>5 DEF Crash
<1>6. CASE UNCHANGED outboxVars
  BY <1>3, <1>6 DEF outboxVars
<1> QED
  BY <1>1, <1>4, <1>5, <1>6, RowSteps

\* There is no notice about a row that is still pending.
LEMMA NoNoticeYet ==
  ASSUME NoticeOnce, NEW r \in Rows, status[r] = "pending", NEW q \in Rows
  PROVE  noticeOf[q] # r
<1> SUFFICES ASSUME noticeOf[q] = r PROVE FALSE
  OBVIOUS
<1>1. noticeOf[q] # NoRow
  BY OutboxAssumption DEF Rows, NoRow
<1>2. status[noticeOf[q]] = "failed"
  BY <1>1 DEF NoticeOnce
<1> QED
  BY <1>2

\* The sender's row stays the oldest pending one while others append.
LEMMA StepSender ==
  ASSUME TypeOK, RowsOK, SenderOK, NoticeOnce, [Next]_vars
  PROVE  SenderOK'
<1> USE OutboxAssumption DEF TypeOK, OutboxTypeOK, Rows, NoRow
<1>1. sender # "idle" => current \in Rows
  BY DEF SenderOK
<1>2. ASSUME NEW k, InsertRow(k, NoRow), UNCHANGED <<senderVars, shown>>
      PROVE  SenderOK'
  <2>1. ASSUME NextRow(current) PROVE NextRow(current)'
    BY <1>2, <2>1 DEF InsertRow, NextRow, Pending, RowsOK, senderVars
  <2>2. ASSUME sender = "reporting", status[current] = "failed"
        PROVE  status'[current] = "failed" /\ kind'[current] = kind[current]
    BY <1>1, <1>2, <2>2 DEF InsertRow, RowsOK
  <2>3. ASSUME sender = "reporting", \A r \in Rows : noticeOf[r] # current
        PROVE  \A r \in Rows : noticeOf'[r] # current
    BY <1>1, <1>2, <2>3 DEF InsertRow
  <2>4. UNCHANGED <<attempts, shown, sender, current>>
    BY <1>2 DEF InsertRow, senderVars
  <2> QED
    BY <2>1, <2>2, <2>3, <2>4 DEF SenderOK
<1>3. CASE UNCHANGED outboxVars
  BY <1>3 DEF SenderOK, NextRow, Pending, outboxVars, rowVars, senderVars
<1>4. CASE Crash
  BY <1>4 DEF SenderOK, Crash, Pause
<1>5. CASE SenderStep
  <2>1. ASSUME NEW r \in Rows, Take(r) PROVE SenderOK'
    BY <2>1 DEF Take, SenderOK, NextRow, Pending, rowVars
  <2>2. ASSUME NEW r \in Rows, Revoke(r) PROVE SenderOK'
    BY <2>2 DEF Revoke, MarkTerminal, SenderOK, senderVars
  <2>3. CASE Show
    BY <1>1, <2>3 DEF Show, SenderOK, NextRow, Pending, rowVars
  <2>4. CASE SendReturns \/ Wake \/ Report
    BY <2>4 DEF SendReturns, Wake, Report, Pause, SenderOK
  <2>5. CASE SendFails
    <3>1. NextRow(current) /\ NextRow(current)'
      BY <2>5 DEF SendFails, SenderOK, MarkFailed, NextRow, Pending
    <3>2. attempts'[current] = attempts[current] + 1
      BY <1>1, <2>5 DEF SendFails, MarkFailed
    <3> QED
      BY <1>1, <2>5, <3>1, <3>2 DEF SendFails, SenderOK, LastAttempt
  <2>6. CASE GiveUp
    <3>1. status[current] = "pending" /\ current \in Rows
      BY <2>6 DEF GiveUp, SenderOK, NextRow, Pending
    <3>2. \A r \in Rows : noticeOf[r] # current
      BY <3>1, NoNoticeYet
    <3> QED
      BY <2>6, <3>1, <3>2 DEF GiveUp, MarkTerminal, Pause, SenderOK
  <2> QED
    BY <1>5, <2>1, <2>2, <2>3, <2>4, <2>5, <2>6 DEF SenderStep
<1> QED
  BY <1>2, <1>3, <1>4, <1>5, RowSteps

\* A notice is queued once the row is marked, by a sender that leaves the row
\* with the same step.
LEMMA StepNotice ==
  ASSUME TypeOK, RowsOK, SenderOK, NoticeOnce, [Next]_vars
  PROVE  NoticeOnce'
<1> USE OutboxAssumption DEF TypeOK, OutboxTypeOK, Rows, NoRow
<1>1. ASSUME NEW k, InsertRow(k, NoRow) PROVE NoticeOnce'
  BY <1>1 DEF InsertRow, RowsOK, NoticeOnce
<1>2. CASE UNCHANGED rowVars
  BY <1>2 DEF NoticeOnce, rowVars
<1>3. CASE SenderStep
  <2>1. CASE Report
    <3>1. /\ current \in Rows
          /\ status[current] = "failed" /\ kind[current] = "media"
          /\ \A r \in Rows : noticeOf[r] # current
      BY <2>1 DEF Report, SenderOK
    <3> QED
      BY <2>1, <3>1 DEF Report, InsertRow, RowsOK, NoticeOnce
  <2>2. ASSUME NEW r \in Rows,
               NextRow(r),
               \A q \in Rows \ {r} : status'[q] = status[q],
               UNCHANGED <<kind, noticeOf, nextRow>>
        PROVE  NoticeOnce'
    <3>1. \A q \in Rows : noticeOf[q] # r
      BY <2>2, NoNoticeYet DEF NextRow, Pending
    <3> QED
      BY <2>2, <3>1 DEF NoticeOnce
  <2> QED
    BY <1>2, <1>3, <2>1, <2>2, SenderWrites
<1> QED
  BY <1>1, <1>2, <1>3, RowSteps DEF Crash, outboxVars

-----------------------------------------------------------------------------
(* Copies. *)

LEMMA StepCopies ==
  ASSUME TypeOK, RowsOK, SenderOK, CopiesOK, CopiesBounded, [Next]_vars
  PROVE  CopiesOK' /\ CopiesBounded'
<1> USE OutboxAssumption, DeliveryAssumption
    DEF TypeOK, OutboxTypeOK, Rows, NoRow
<1>1. ASSUME NEW k, NEW q, InsertRow(k, q), UNCHANGED <<shown, crashes>>,
             \/ UNCHANGED senderVars
             \/ sender = "reporting" /\ sender' = "idle"
      PROVE  CopiesOK' /\ CopiesBounded'
  <2>1. CopiesBounded'
    BY <1>1 DEF CopiesBounded
  <2>2. ASSUME NEW r \in Rows, status'[r] = "pending",
               ~(sender' = "dropping" /\ current' = r)
        PROVE  /\ shown'[r] <= attempts'[r] + crashes' + InFlight(r)'
               /\ shown'[r] <= MaxSendAttempts - 1 + crashes' + InFlight(r)'
    <3>1. InFlight(r)' = InFlight(r)
      BY <1>1 DEF InFlight, senderVars
    <3>2. CASE r = nextRow
      BY <1>1, <3>2 DEF InsertRow, RowsOK, InFlight
    <3>3. CASE r # nextRow
      BY <1>1, <2>2, <3>1, <3>3 DEF InsertRow, CopiesOK, senderVars
    <3> QED
      BY <3>2, <3>3
  <2> QED
    BY <2>1, <2>2 DEF CopiesOK
<1>2. CASE UNCHANGED <<outboxVars, crashes>>
  BY <1>2 DEF CopiesOK, CopiesBounded, InFlight, outboxVars, rowVars, senderVars
<1>3. CASE Crash
  <2>1. ASSUME NEW r \in Rows, status[r] = "pending"
        PROVE  /\ shown[r] <= attempts[r] + crashes + 1
               /\ shown[r] <= MaxSendAttempts + crashes
    BY <2>1 DEF CopiesOK, CopiesBounded, InFlight, SenderOK
  <2>2. crashes' = crashes + 1 /\ UNCHANGED <<rowVars, shown>>
    BY <1>3 DEF Crash
  <2>3. \A r \in Rows : InFlight(r)' = 0
    BY <1>3 DEF Crash, Pause, InFlight
  <2>4. CopiesOK'
    BY <2>1, <2>2, <2>3 DEF CopiesOK, rowVars
  <2>5. CopiesBounded'
    BY <2>2 DEF CopiesBounded
  <2> QED
    BY <2>4, <2>5
<1>4. ASSUME SenderStep, UNCHANGED crashes
      PROVE  CopiesOK' /\ CopiesBounded'
  <2>1. ASSUME NEW r \in Rows, Take(r) PROVE CopiesOK' /\ CopiesBounded'
    BY <1>4, <2>1 DEF Take, CopiesOK, CopiesBounded, InFlight, rowVars
  <2>2. ASSUME NEW r \in Rows, Revoke(r) PROVE CopiesOK' /\ CopiesBounded'
    BY <1>4, <2>2 DEF Revoke, MarkTerminal, CopiesOK, CopiesBounded, InFlight,
        senderVars
  <2>3. CASE Show
    <3>1. current \in Rows /\ status[current] = "pending"
      BY <2>3 DEF Show, SenderOK, NextRow, Pending
    <3>2. /\ shown[current] <= attempts[current] + crashes
          /\ shown[current] <= MaxSendAttempts - 1 + crashes
      <4>1. sender \in {"sending", "telling"} /\ InFlight(current) = 0
        BY <2>3 DEF Show, InFlight
      <4> QED
        BY <3>1, <4>1 DEF CopiesOK
    <3>3. ASSUME NEW r \in Rows, r # current
          PROVE  shown'[r] = shown[r] /\ InFlight(r)' = InFlight(r)
      BY <2>3, <3>1, <3>3 DEF Show, InFlight
    <3>4. shown'[current] = shown[current] + 1 /\ InFlight(current)' = 1
      BY <2>3, <3>1 DEF Show, InFlight
    <3>5. UNCHANGED <<rowVars, current, crashes>>
      BY <1>4, <2>3 DEF Show
    <3>6. CopiesOK'
      BY <2>3, <3>2, <3>3, <3>4, <3>5 DEF Show, CopiesOK, rowVars
    <3>7. CopiesBounded'
      BY <3>2, <3>3, <3>4, <3>5 DEF CopiesBounded
    <3> QED
      BY <3>6, <3>7
  <2>4. CASE SendReturns
    BY <1>4, <2>4 DEF SendReturns, MarkSent, MarkTerminal, Pause, CopiesOK,
        CopiesBounded, InFlight, SenderOK, NextRow, Pending
  <2>5. CASE SendFails
    BY <1>4, <2>5 DEF SendFails, MarkFailed, LastAttempt, CopiesOK,
        CopiesBounded, InFlight, SenderOK, NextRow, Pending
  <2>6. CASE Wake
    BY <1>4, <2>6 DEF Wake, Pause, CopiesOK, CopiesBounded, InFlight, rowVars
  <2>7. CASE GiveUp
    BY <1>4, <2>7 DEF GiveUp, MarkTerminal, Pause, CopiesOK, CopiesBounded,
        InFlight, SenderOK, NextRow, Pending
  <2>8. CASE Report
    BY <1>1, <1>4, <2>8 DEF Report, Pause
  <2> QED
    BY <1>4, <2>1, <2>2, <2>3, <2>4, <2>5, <2>6, <2>7, <2>8 DEF SenderStep
<1> QED
  BY <1>1, <1>2, <1>3, <1>4, RowSteps DEF processVars

-----------------------------------------------------------------------------
(* Messages. *)

LEMMA StepInbound ==
  ASSUME TypeOK, RowsOK, SenderOK, InboundOK, CarriedOnce, [Next]_vars
  PROVE  InboundOK' /\ CarriedOnce'
<1> USE DeliveryAssumption DEF TypeOK, OutboxTypeOK, Rows
<1>1. rx # "idle" => rxEvent \in Events
  BY AtHand
<1>2. ASSUME NEW e \in Events, Receive(e) PROVE InboundOK' /\ CarriedOnce'
  <2>1. /\ e \notin inbound /\ inbound' = inbound \cup {e}
        /\ rx' = "registered" /\ rxEvent' = e
        /\ UNCHANGED <<carried, replyTo>>
    BY <1>2 DEF Receive, Registers
  <2> QED
    BY <2>1 DEF InboundOK, CarriedOnce
<1>3. CASE \E e \in Events : ReceiveAgain(e)
  BY <1>3 DEF ReceiveAgain, InboundOK, CarriedOnce, processVars
<1>4. CASE Carry
  <2>1. /\ rx = "registered" /\ rx' = "carried"
        /\ carried' = [carried EXCEPT ![rxEvent] = @ + 1]
        /\ UNCHANGED <<inbound, replyTo, rxEvent>>
    BY <1>4 DEF Carry
  <2> QED
    BY <1>1, <2>1 DEF InboundOK, CarriedOnce
<1>5. CASE Reply
  <2>1. /\ rx = "carried" /\ rx' = "replied"
        /\ UNCHANGED <<inbound, carried, rxEvent>>
    BY <1>5 DEF Reply
  <2>2. CASE UNCHANGED replyTo
    BY <2>1, <2>2 DEF InboundOK, CarriedOnce
  <2>3. CASE nextRow \in Rows /\ replyTo' = [replyTo EXCEPT ![nextRow] = rxEvent]
    <3>1. \A r \in Rows : replyTo[r] # rxEvent
      BY <2>1 DEF InboundOK
    <3>2. carried[rxEvent] = 1 /\ rxEvent \in inbound
      BY <2>1 DEF InboundOK
    <3>3. replyTo[nextRow] = NoEvent
      BY <2>3 DEF RowsOK
    <3>4. InboundOK'
      BY <1>1, <2>1, <2>3, <3>2 DEF InboundOK
    <3>5. CarriedOnce'
      BY <1>1, <2>1, <2>3, <3>1, <3>2, <3>3 DEF CarriedOnce
    <3> QED
      BY <3>4, <3>5
  <2> QED
    BY <1>5, <2>2, <2>3, OutboxAssumption DEF Reply, InsertRow
<1>6. ASSUME UNCHANGED <<inbound, carried, replyTo>>,
             rx' = "idle" \/ UNCHANGED <<rx, rxEvent>>
      PROVE  InboundOK' /\ CarriedOnce'
  <2>1. CarriedOnce'
    BY <1>6 DEF CarriedOnce
  <2>2. CASE rx' = "idle"
    BY <1>6, <2>1, <2>2 DEF InboundOK
  <2>3. CASE UNCHANGED <<rx, rxEvent>>
    BY <1>6, <2>1, <2>3 DEF InboundOK
  <2> QED
    BY <1>6, <2>2, <2>3
<1>7. CASE Acknowledge \/ ReceiveFails \/ Notify \/ Send
  BY <1>6, <1>7 DEF Acknowledge, ReceiveFails, Notify, Send, inboundVars,
      processVars
<1>8. CASE Crash \/ Restart \/ Start \/ UNCHANGED vars
  BY <1>6, <1>8 DEF Crash, Restart, Start, vars, inboundVars, processVars
<1> QED
  BY <1>2, <1>3, <1>4, <1>5, <1>7, <1>8 DEF Next, ReceiveStep

-----------------------------------------------------------------------------
(* The theorems. *)

THEOREM Invariance == Spec => []Inv
<1>1. Inv /\ [Next]_vars => Inv'
  BY StepTypes, StepRows, StepSender, StepNotice, StepCopies, StepInbound
  DEF Inv
<1> QED
  BY <1>1, InvInit, PTL DEF Spec

\* Every variable keeps its type.
THEOREM TypeCorrect == Spec => []TypeOK
<1>1. Inv => TypeOK
  BY DEF Inv
<1> QED
  BY <1>1, Invariance, PTL

\* A message is carried out and answered at most once.
THEOREM CarriedAtMostOnce == Spec => []CarriedOnce
<1>1. Inv => CarriedOnce
  BY DEF Inv
<1> QED
  BY <1>1, Invariance, PTL

\* The chat never sees more copies of a reply than attempts and deaths allow.
THEOREM CopiesAreBounded == Spec => []CopiesBounded
<1>1. Inv => CopiesBounded
  BY DEF Inv
<1> QED
  BY <1>1, Invariance, PTL

\* No attachment is reported twice, none that was not dropped.
THEOREM NoticesAreRight == Spec => []NoticeOnce
<1>1. Inv => NoticeOnce
  BY DEF Inv
<1> QED
  BY <1>1, Invariance, PTL

-----------------------------------------------------------------------------
(* Attachments that are dropped without a word. *)

\* An attachment that had its last attempt in an earlier life of the process
\* and no notice yet: it may be sent again, and then it is reported, or found
\* revoked or gone, and then it is not.  While the sender drops and reports it
\* it is not at risk, unless the process dies.
AtRisk ==
    {r \in Rows :
        /\ kind[r] = "media"
        /\ status[r] \in {"pending", "failed"}
        /\ attempts[r] >= MaxSendAttempts
        /\ \A q \in Rows : noticeOf[q] # r
        /\ ~(sender \in {"dropping", "reporting"} /\ current = r)}

DropsOK == Cardinality(AtRisk) <= crashes

\* A death of the process puts the sender's row at risk, and nothing else does.
LEMMA StepAtRisk ==
  ASSUME Inv, [Next]_vars
  PROVE  \/ AtRisk' \subseteq AtRisk /\ crashes' = crashes
         \/ AtRisk' \subseteq AtRisk \cup {current} /\ crashes' = crashes + 1
<1> USE OutboxAssumption DEF TypeOK, OutboxTypeOK, Rows, NoRow
<1>1. TypeOK /\ RowsOK /\ SenderOK
  BY DEF Inv
<1>2. ASSUME NEW k, NEW a, InsertRow(k, a), UNCHANGED <<senderVars>>
      PROVE  AtRisk' \subseteq AtRisk
  <2> SUFFICES ASSUME NEW r \in AtRisk' PROVE r \in AtRisk
    OBVIOUS
  <2>1. r # nextRow
    BY <1>1, <1>2 DEF InsertRow, RowsOK, AtRisk
  <2>2. \A q \in Rows : noticeOf[q] # r
    BY <1>1, <1>2 DEF InsertRow, RowsOK, AtRisk
  <2> QED
    BY <1>1, <1>2, <2>1, <2>2 DEF InsertRow, AtRisk, senderVars
<1>3. CASE Crash
  BY <1>3 DEF Crash, Pause, AtRisk, rowVars
<1>4. ASSUME SenderStep PROVE AtRisk' \subseteq AtRisk
  <2>a. sender # "idle" => current \in Rows
    BY <1>1 DEF SenderOK
  <2>1. ASSUME NEW r \in Rows, Take(r) \/ Revoke(r)
        PROVE  AtRisk' \subseteq AtRisk
    BY <1>1, <2>1 DEF Take, Revoke, MarkTerminal, NextRow, Pending, AtRisk, rowVars,
        senderVars
  <2>2. CASE Show \/ Wake
    BY <1>1, <2>2 DEF Show, Wake, Pause, AtRisk, rowVars
  <2>3. CASE SendReturns
    BY <1>1, <2>a, <2>3 DEF SendReturns, MarkSent, MarkTerminal, Pause, AtRisk, SenderOK,
        NextRow, Pending
  <2>4. CASE SendFails
    BY <1>1, <2>a, <2>4 DEF SendFails, MarkFailed, LastAttempt, AtRisk
  <2>5. CASE GiveUp
    BY <1>1, <2>a, <2>5 DEF GiveUp, MarkTerminal, Pause, AtRisk
  <2>6. CASE Report
    <3> SUFFICES ASSUME NEW r \in AtRisk' PROVE r \in AtRisk
      OBVIOUS
    <3>1. r # nextRow /\ nextRow \in Rows /\ noticeOf'[nextRow] = current
      BY <1>1, <2>6 DEF Report, InsertRow, RowsOK, AtRisk
    <3>2. r # current
      BY <3>1 DEF AtRisk
    <3>3. \A q \in Rows : noticeOf[q] # r
      BY <1>1, <2>6 DEF Report, InsertRow, RowsOK, AtRisk
    <3> QED
      BY <1>1, <2>6, <3>1, <3>2, <3>3 DEF Report, InsertRow, AtRisk
  <2> QED
    BY <1>4, <2>1, <2>2, <2>3, <2>4, <2>5, <2>6 DEF SenderStep
<1>5. CASE UNCHANGED <<outboxVars, crashes>>
  BY <1>5 DEF AtRisk, outboxVars, rowVars, senderVars
<1> QED
  BY <1>2, <1>3, <1>4, <1>5, RowSteps DEF Crash, processVars

LEMMA StepDrops ==
  ASSUME Inv, DropsOK, [Next]_vars
  PROVE  DropsOK'
<1>1. IsFiniteSet(AtRisk)
  <2>1. AtRisk \subseteq 1 .. MaxRows /\ IsFiniteSet(1 .. MaxRows)
    BY FS_Interval, OutboxAssumption DEF AtRisk, Rows
  <2> QED
    BY <2>1, FS_Subset
<1>2. crashes \in Nat /\ Cardinality(AtRisk) \in Nat
  BY <1>1, FS_CardinalityType, DeliveryAssumption DEF Inv, TypeOK
<1>3. CASE AtRisk' \subseteq AtRisk /\ crashes' = crashes
  <2>1. IsFiniteSet(AtRisk') /\ Cardinality(AtRisk') <= Cardinality(AtRisk)
    BY <1>1, <1>3, FS_Subset
  <2>2. Cardinality(AtRisk') \in Nat
    BY <2>1, FS_CardinalityType
  <2> QED
    BY <1>2, <1>3, <2>1, <2>2 DEF DropsOK
<1>4. CASE AtRisk' \subseteq AtRisk \cup {current} /\ crashes' = crashes + 1
  <2>1. /\ IsFiniteSet(AtRisk \cup {current})
        /\ Cardinality(AtRisk \cup {current}) <= Cardinality(AtRisk) + 1
    BY <1>1, <1>2, FS_AddElement
  <2>2. Cardinality(AtRisk') <= Cardinality(AtRisk \cup {current})
    BY <1>4, <2>1, FS_Subset
  <2>3. IsFiniteSet(AtRisk')
    BY <1>4, <2>1, FS_Subset
  <2> QED
    BY <1>2, <1>4, <2>1, <2>2, <2>3, FS_CardinalityType DEF DropsOK
<1> QED
  BY <1>3, <1>4, StepAtRisk

\* At most one attachment per death of the process is dropped without a word
\* (_outbox_loop, _give_up): one is only ever lost between its last attempt
\* and its notice, by the death that interrupts the sender there.
THEOREM DropsAreReported == Spec => []DropsReported
<1>1. Init => DropsOK
  <2> SUFFICES ASSUME Init PROVE DropsOK
    OBVIOUS
  <2>1. AtRisk = {}
    BY DEF Init, OutboxInit, AtRisk
  <2> QED
    BY <2>1, FS_EmptySet DEF Init, DropsOK
<1>2. Inv /\ DropsOK => DropsReported
  <2> SUFFICES ASSUME Inv, DropsOK PROVE DropsReported
    OBVIOUS
  <2>1. SilentDrops \subseteq AtRisk
    BY DEF SilentDrops, AtRisk
  <2>2. AtRisk \subseteq 1 .. MaxRows /\ IsFiniteSet(1 .. MaxRows)
    BY FS_Interval, OutboxAssumption DEF AtRisk, Rows
  <2>3. IsFiniteSet(AtRisk) /\ IsFiniteSet(SilentDrops)
    BY <2>1, <2>2, FS_Subset
  <2>4. Cardinality(SilentDrops) <= Cardinality(AtRisk)
    BY <2>1, <2>3, FS_Subset
  <2>5. /\ Cardinality(SilentDrops) \in Nat /\ Cardinality(AtRisk) \in Nat
        /\ crashes \in Nat
    BY <2>3, FS_CardinalityType, DeliveryAssumption DEF Inv, TypeOK
  <2> QED
    BY <2>4, <2>5 DEF DropsOK, DropsReported
<1> QED
  BY <1>1, <1>2, StepDrops, Invariance, PTL DEF Spec

-----------------------------------------------------------------------------
(* Refinement. *)

\* Everything before the oldest pending row is decided.
LEMMA HeadOfQueue ==
  ASSUME TypeOK, RowsOK, NEW r \in Rows, NextRow(r)
  PROVE  Queue!AtHead(r)
<1> USE OutboxAssumption DEF TypeOK, OutboxTypeOK, Rows
<1>1. status[r] = "pending" /\ r < nextRow
  BY DEF NextRow, Pending, RowsOK
<1>2. ASSUME NEW q \in Rows, q < r PROVE status[q] \in {"sent", "failed"}
  <2>1. status[q] # "absent" /\ status[q] # "pending"
    BY <1>1, <1>2 DEF NextRow, Pending, RowsOK
  <2> QED
    BY <2>1
<1> QED
  BY <1>1, <1>2 DEF Queue!AtHead, Queue!Decided, PlaceOf

LEMMA RefinesInit == Init => Queue!Init
BY DEF Init, OutboxInit, Queue!Init, PlaceOf

LEMMA RefinesStep ==
  ASSUME Inv, [Next]_vars
  PROVE  [Queue!Next]_(Queue!queueVars)
<1> USE OutboxAssumption
<1>1. TypeOK /\ RowsOK /\ SenderOK
  BY DEF Inv
<1>2. ASSUME NEW k, NEW q, InsertRow(k, q), UNCHANGED shown
      PROVE  Queue!Next
  <2>1. nextRow \in Rows /\ status' = [status EXCEPT ![nextRow] = "pending"]
    BY <1>1, <1>2 DEF InsertRow, TypeOK, OutboxTypeOK, Rows
  <2>2. \A j \in Rows : PlaceOf[status[j]] = "none" <=> nextRow <= j
    BY <1>1 DEF RowsOK, TypeOK, OutboxTypeOK, PlaceOf
  <2>3. PICK r \in Rows : r = nextRow
    BY <2>1
  <2>4. [j \in Rows |-> PlaceOf[status[j]]]'
           = [[j \in Rows |-> PlaceOf[status[j]]] EXCEPT ![r] = "queued"]
    BY <1>1, <2>1, <2>3 DEF TypeOK, OutboxTypeOK, PlaceOf
  <2>5. Queue!Enqueue(r)
    BY <1>2, <2>2, <2>3, <2>4 DEF Queue!Enqueue
  <2> QED
    BY <2>5 DEF Queue!Next
<1>3. ASSUME UNCHANGED <<status, shown>> PROVE UNCHANGED Queue!queueVars
  BY <1>3 DEF Queue!queueVars
<1>4. ASSUME NEW r \in Rows, NextRow(r), UNCHANGED shown,
             status' = [status EXCEPT ![r] = "failed"]
      PROVE  Queue!Next
  <2>1. [q \in Rows |-> PlaceOf[status[q]]]'
           = [[q \in Rows |-> PlaceOf[status[q]]] EXCEPT ![r] = "dropped"]
    BY <1>1, <1>4 DEF TypeOK, OutboxTypeOK, PlaceOf
  <2>2. Queue!Drop(r)
    BY <1>1, <1>4, <2>1, HeadOfQueue DEF Queue!Drop
  <2> QED
    BY <2>2 DEF Queue!Next
<1>5. CASE SenderStep
  <2>1. ASSUME sender \notin {"idle", "reporting"}
        PROVE  current \in Rows /\ NextRow(current)
    BY <1>1, <2>1 DEF SenderOK, NextRow, Pending
  <2>2. ASSUME NEW r \in Rows, Take(r) \/ Revoke(r)
        PROVE  [Queue!Next]_(Queue!queueVars)
    BY <1>3, <1>4, <2>2 DEF Take, Revoke, MarkTerminal, rowVars
  <2>3. CASE Show
    <3>1. /\ current \in Rows /\ NextRow(current)
          /\ shown' = [shown EXCEPT ![current] = @ + 1]
          /\ UNCHANGED status
      BY <2>1, <2>3 DEF Show, rowVars
    <3>2. Queue!ShowCopy(current)
      BY <1>1, <3>1, HeadOfQueue DEF Queue!ShowCopy
    <3> QED
      BY <3>1, <3>2 DEF Queue!Next
  <2>4. CASE SendReturns
    <3>1. CASE MarkSent(current) /\ sender = "sent"
      <4>1. PICK r \in Rows : r = current /\ NextRow(r)
        BY <2>1, <3>1
      <4>2. UNCHANGED shown /\ status' = [status EXCEPT ![r] = "sent"]
        BY <2>4, <3>1, <4>1 DEF SendReturns, MarkSent
      <4>3. shown[r] > 0
        BY <1>1, <3>1, <4>1 DEF SenderOK
      <4>4. [q \in Rows |-> PlaceOf[status[q]]]'
               = [[q \in Rows |-> PlaceOf[status[q]]] EXCEPT ![r] = "delivered"]
        BY <1>1, <4>2 DEF TypeOK, OutboxTypeOK, PlaceOf
      <4>5. Queue!Deliver(r)
        BY <1>1, <4>1, <4>2, <4>3, <4>4, HeadOfQueue DEF Queue!Deliver
      <4> QED
        BY <4>5 DEF Queue!Next
    <3>2. CASE MarkTerminal(current) /\ sender = "told"
      BY <1>4, <2>1, <2>4, <3>2 DEF SendReturns, MarkTerminal
    <3> QED
      BY <2>4, <3>1, <3>2 DEF SendReturns
  <2>5. CASE SendFails \/ Wake
    BY <1>3, <2>5 DEF SendFails, MarkFailed, Wake, rowVars
  <2>6. CASE GiveUp
    BY <1>4, <2>1, <2>6 DEF GiveUp, MarkTerminal
  <2>7. CASE Report
    BY <1>2, <2>7 DEF Report
  <2> QED
    BY <1>5, <2>2, <2>3, <2>4, <2>5, <2>6, <2>7 DEF SenderStep
<1>6. CASE Crash \/ UNCHANGED outboxVars
  BY <1>3, <1>6 DEF Crash, outboxVars, rowVars
<1> QED
  BY <1>2, <1>5, <1>6, RowSteps

\* The outbox implements the queue of ReplyQueue.
THEOREM Refinement == Spec => ImplementsReplyQueue
<1>1. Spec => Queue!Spec
  BY RefinesInit, RefinesStep, Invariance, PTL DEF Spec, Queue!Spec
<1> QED
  BY <1>1 DEF ImplementsReplyQueue

\* What is queued was not decided before.
LEMMA NotYetDecided ==
  ASSUME NEW i \in Rows, Queue!Enqueue(i)
  PROVE  PlaceOf[status[i]] = "none"
<1>1. i <= i
  BY OutboxAssumption DEF Rows
<1>2. [r \in Rows |-> PlaceOf[status[r]]][i] = "none"
  BY <1>1 DEF Queue!Enqueue
<1> QED
  BY <1>2

\* Whatever fails and whenever the process dies, the chat reads the replies in
\* the order in which enqueue_outbox got them, and the sender records as sent
\* only what the chat shows.
THEOREM RepliesInOrder == Spec => []Queue!ShownInOrder
<1>1. Init => Queue!ShownInOrder
  BY DEF Init, OutboxInit, Queue!ShownInOrder, PlaceOf
<1>2. ASSUME Inv, [Next]_vars, Queue!ShownInOrder
      PROVE  Queue!ShownInOrder'
  <2> USE <1>2 DEF Queue!ShownInOrder, Queue!Decided
  <2>1. shown \in [Rows -> Nat]
    BY DEF Inv, TypeOK, OutboxTypeOK
  <2>2. ASSUME NEW i \in Rows, Queue!Enqueue(i) PROVE Queue!ShownInOrder'
    BY <2>2, NotYetDecided DEF Queue!Enqueue
  <2>3. ASSUME NEW i \in Rows, Queue!ShowCopy(i) PROVE Queue!ShownInOrder'
    BY <2>1, <2>3 DEF Queue!ShowCopy, Queue!AtHead
  <2>4. ASSUME NEW i \in Rows, Queue!Deliver(i) \/ Queue!Drop(i)
        PROVE  Queue!ShownInOrder'
    BY <2>4 DEF Queue!Deliver, Queue!Drop, Queue!AtHead
  <2>5. CASE UNCHANGED Queue!queueVars
    BY <2>5 DEF Queue!queueVars
  <2> QED
    BY <2>2, <2>3, <2>4, <2>5, RefinesStep DEF Queue!Next
<1>3. Inv /\ Queue!ShownInOrder /\ [Next]_vars => Queue!ShownInOrder'
  BY <1>2
<1> QED
  BY <1>1, <1>3, Invariance, PTL DEF Spec

\* A reply that was delivered or dropped is never taken up again, not by the
\* poll after a restart either.
THEOREM DecidedIsLeftAlone == Spec => Queue!DecidedForGood
<1>1. ASSUME Inv, [Next]_vars PROVE [Queue!DecidedStays]_(Queue!queueVars)
  <2> SUFFICES ASSUME Queue!Next PROVE Queue!DecidedStays
    BY <1>1, RefinesStep
  <2> USE DEF Queue!DecidedStays, Queue!Decided
  <2>1. shown \in [Rows -> Nat]
    BY <1>1 DEF Inv, TypeOK, OutboxTypeOK
  <2>2. ASSUME NEW i \in Rows, Queue!Enqueue(i) PROVE Queue!DecidedStays
    BY <2>2, NotYetDecided DEF Queue!Enqueue
  <2>3. ASSUME NEW i \in Rows, Queue!ShowCopy(i) PROVE Queue!DecidedStays
    BY <2>1, <2>3 DEF Queue!ShowCopy, Queue!AtHead
  <2>4. ASSUME NEW i \in Rows, Queue!Deliver(i) \/ Queue!Drop(i)
        PROVE  Queue!DecidedStays
    BY <2>4 DEF Queue!Deliver, Queue!Drop, Queue!AtHead
  <2> QED
    BY <2>2, <2>3, <2>4 DEF Queue!Next
<1>2. Inv /\ [Next]_vars => [Queue!DecidedStays]_(Queue!queueVars)
  BY <1>1
<1> QED
  BY <1>2, Invariance, PTL DEF Spec, Queue!DecidedForGood

=============================================================================
