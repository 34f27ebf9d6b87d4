------------------------------- MODULE Outbox -------------------------------
(***************************************************************************)
(* The outbox table of core/state.py and the coroutine that empties it,    *)
(* BridgeService._outbox_loop.  Any thread appends rows; one sender takes  *)
(* the oldest pending row, sends it in a worker thread, and writes down    *)
(* what came of it.                                                        *)
(*                                                                         *)
(* The sender goes                                                         *)
(*   "idle" -> "sending"    the row's text or file is being sent           *)
(*          -> "telling"    its file is gone: the chat is being told       *)
(*          -> "sent", "told"  the chat shows it, the call has not returned*)
(*          -> "waiting"    the attempt failed: asyncio.sleep              *)
(*          -> "dropping"   it was the last attempt: _give_up              *)
(*          -> "reporting"  the row is marked failed, its notice not       *)
(*                          queued                                         *)
(*                                                                         *)
(* Of Feishu is assumed that a call which failed shows nothing later than  *)
(* its failure.  Its messages carry no key that would make it drop a       *)
(* second copy.                                                            *)
(***************************************************************************)
EXTENDS Naturals, FiniteSets

CONSTANTS
    MaxRows,            \* bound: rows of the outbox
    MaxSendAttempts     \* _MAX_SEND_ATTEMPTS, 5 in the code

ASSUME OutboxAssumption ==
    /\ MaxRows \in Nat
    /\ MaxSendAttempts \in Nat \ {0}

VARIABLES
    kind,        \* outbox.kind, image and file together as "media"
    status,      \* outbox.status, "absent" before the row is inserted
    attempts,    \* outbox.attempts
    noticeOf,    \* the dropped row that a failure notice is about, or 0
    nextRow,
    sender,      \* where the sender is
    current,     \* its row, or 0
    shown        \* how often the chat has shown a row

rowVars == <<kind, status, attempts, noticeOf, nextRow>>
senderVars == <<sender, current>>
outboxVars == <<rowVars, senderVars, shown>>

Rows == 1 .. MaxRows
NoRow == 0
SenderPc == {"idle", "sending", "telling", "sent", "told", "waiting",
             "dropping", "reporting"}

OutboxTypeOK ==
    /\ kind \in [Rows -> {"none", "text", "media"}]
    /\ status \in [Rows -> {"absent", "pending", "sent", "failed"}]
    /\ attempts \in [Rows -> Nat]
    /\ noticeOf \in [Rows -> Rows \cup {NoRow}]
    /\ nextRow \in 1 .. MaxRows + 1
    /\ sender \in SenderPc
    /\ current \in Rows \cup {NoRow}
    /\ shown \in [Rows -> Nat]

OutboxInit ==
    /\ kind = [r \in Rows |-> "none"]
    /\ status = [r \in Rows |-> "absent"]
    /\ attempts = [r \in Rows |-> 0]
    /\ noticeOf = [r \in Rows |-> NoRow]
    /\ nextRow = 1
    /\ sender = "idle"
    /\ current = NoRow
    /\ shown = [r \in Rows |-> 0]

-----------------------------------------------------------------------------
(* The table. *)

Pending == {r \in Rows : status[r] = "pending"}

\* Attachments that may still cost a row for their failure notice.
Undecided ==
    {r \in Rows :
        /\ kind[r] = "media"
        /\ status[r] = "pending" \/ (sender = "reporting" /\ current = r)}

\* The bound leaves room for the notices, so that it never stops the sender.
Room(k) ==
    nextRow + Cardinality(Undecided) + (IF k = "media" THEN 1 ELSE 0) <= MaxRows

\* enqueue_outbox
InsertRow(k, about) ==
    /\ nextRow <= MaxRows
    /\ kind' = [kind EXCEPT ![nextRow] = k]
    /\ status' = [status EXCEPT ![nextRow] = "pending"]
    /\ noticeOf' = [noticeOf EXCEPT ![nextRow] = about]
    /\ nextRow' = nextRow + 1
    /\ UNCHANGED attempts

\* Mutations of NextRow: the newest first; no row that has failed once.
NextRowNewest(r) == r \in Pending /\ \A q \in Pending : q <= r
NextRowUntried(r) ==
    /\ r \in Pending /\ attempts[r] = 0
    /\ \A q \in Pending : attempts[q] = 0 => r <= q

\* next_outbox: ORDER BY id LIMIT 1.
NextRow(r) == r \in Pending /\ \A q \in Pending : r <= q

MarkSent(r) ==
    /\ status' = [status EXCEPT ![r] = "sent"]
    /\ attempts' = [attempts EXCEPT ![r] = @ + 1]
    /\ UNCHANGED <<kind, noticeOf, nextRow>>

MarkFailed(r) ==
    /\ attempts' = [attempts EXCEPT ![r] = @ + 1]
    /\ UNCHANGED <<kind, status, noticeOf, nextRow>>

MarkTerminal(r) ==
    /\ status' = [status EXCEPT ![r] = "failed"]
    /\ UNCHANGED <<kind, attempts, noticeOf, nextRow>>

-----------------------------------------------------------------------------
(* The sender: _outbox_loop, _deliver and _give_up. *)

Pause == sender' = "idle" /\ current' = NoRow

\* The file of an attachment may have gone by the time it is sent.
Take(r) ==
    /\ sender = "idle"
    /\ NextRow(r)
    /\ \/ sender' = "sending"
       \/ kind[r] = "media" /\ sender' = "telling"
    /\ current' = r
    /\ UNCHANGED <<rowVars, shown>>

\* The file is in no project of the bot any more.
Revoke(r) ==
    /\ sender = "idle"
    /\ NextRow(r)
    /\ kind[r] = "media"
    /\ MarkTerminal(r)
    /\ UNCHANGED <<senderVars, shown>>

\* Feishu carries the call out.
Show ==
    /\ \/ sender = "sending" /\ sender' = "sent"
       \/ sender = "telling" /\ sender' = "told"
    /\ shown' = [shown EXCEPT ![current] = @ + 1]
    /\ UNCHANGED <<rowVars, current>>

SendReturns ==
    /\ \/ sender = "sent" /\ MarkSent(current)
       \/ sender = "told" /\ MarkTerminal(current)
    /\ Pause
    /\ UNCHANGED shown

\* Mutation of LastAttempt: the cap is one too high.
OneTooMany(n) == n > MaxSendAttempts

LastAttempt(n) == n >= MaxSendAttempts

\* The call raises, whether or not the chat shows the message.
SendFails ==
    /\ sender \in {"sending", "telling", "sent", "told"}
    /\ MarkFailed(current)
    /\ sender' = IF LastAttempt(attempts'[current]) THEN "dropping"
                 ELSE "waiting"
    /\ UNCHANGED <<current, shown>>

Wake ==
    /\ sender = "waiting"
    /\ Pause
    /\ UNCHANGED <<rowVars, shown>>

\* Mutations of GiveUp: the row is dropped without a report; it is not marked.
GiveUpSilently ==
    /\ sender = "dropping"
    /\ MarkTerminal(current)
    /\ Pause
    /\ UNCHANGED shown

GiveUpUnmarked ==
    /\ sender = "dropping"
    /\ IF kind[current] = "media"
       THEN sender' = "reporting" /\ UNCHANGED current
       ELSE Pause
    /\ UNCHANGED <<rowVars, shown>>

GiveUp ==
    /\ sender = "dropping"
    /\ MarkTerminal(current)
    /\ IF kind[current] = "media"
       THEN sender' = "reporting" /\ UNCHANGED current
       ELSE Pause
    /\ UNCHANGED shown

Report ==
    /\ sender = "reporting"
    /\ InsertRow("text", current)
    /\ Pause
    /\ UNCHANGED shown

SenderStep ==
    \/ \E r \in Rows : Take(r) \/ Revoke(r)
    \/ Show \/ SendReturns \/ SendFails
    \/ Wake \/ GiveUp \/ Report
=============================================================================
