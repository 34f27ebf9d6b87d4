------------------------- MODULE DeliveryProperties -------------------------
(***************************************************************************)
(* What module Delivery is to guarantee, and the abstract queue that its   *)
(* outbox implements.                                                      *)
(***************************************************************************)
EXTENDS Delivery

\* A message is carried out at most once and answered at most once, and only
\* after it was carried out, however often Feishu delivers it and whenever the
\* process dies: register_inbound commits before the handler is called.
CarriedOnce ==
    \A e \in Events :
        /\ carried[e] <= 1
        /\ \A r, q \in Rows : replyTo[r] = e /\ replyTo[q] = e => r = q
        /\ (\E r \in Rows : replyTo[r] = e) => carried[e] = 1

\* The chat sees a reply at most as often as it is attempted, once more for
\* each death of the process: a death loses at most one mark of _outbox_loop,
\* that of an attempt just shown or that of a row just given up.
CopiesBounded == \A r \in Rows : shown[r] <= MaxSendAttempts + crashes

\* A failure notice is about an attachment that was dropped for good, and no
\* attachment has two: _give_up marks the row before it queues the notice.
NoticeOnce ==
    \A r \in Rows :
        noticeOf[r] # NoRow =>
            /\ kind[noticeOf[r]] = "media"
            /\ status[noticeOf[r]] = "failed"
            /\ \A q \in Rows : noticeOf[q] = noticeOf[r] => q = r

\* Attachments that were given up, and the sender has turned to something else
\* without a notice.
SilentDrops ==
    {r \in Rows :
        /\ kind[r] = "media"
        /\ status[r] = "failed"
        /\ attempts[r] >= MaxSendAttempts
        /\ current # r
        /\ \A q \in Rows : noticeOf[q] # r}

\* "Attachments report the failure back to the chat" (_give_up): all but one
\* for each death of the process, which may come between the transaction that
\* marks the row and the one that queues the notice, or before both, and then
\* the file may be gone or revoked when the row is taken up again.
DropsReported == Cardinality(SilentDrops) <= crashes

PlaceOf ==
    [absent |-> "none", pending |-> "queued", sent |-> "delivered",
     failed |-> "dropped"]

Queue == INSTANCE ReplyQueue WITH
    Replies <- Rows,
    place <- [r \in Rows |-> PlaceOf[status[r]]],
    copies <- shown

\* The outbox implements ReplyQueue: a reply is decided before the next one
\* is shown, "sent" is only said of what the chat shows, and what is decided
\* is not sent again, over retries, drops and deaths of the process.
ImplementsReplyQueue == Queue!Spec

-----------------------------------------------------------------------------
(* The event loop runs, calls to Feishu return or raise, systemd starts the *)
(* unit again.                                                              *)

FairSpec ==
    Spec /\ WF_vars(Send) /\ WF_vars(Restart) /\ WF_vars(Start)

\* Every reply is delivered or dropped: none that cannot be sent blocks the
\* later ones for ever.
PendingDecided ==
    \A r \in Rows : status[r] = "pending" ~> status[r] \in {"sent", "failed"}

-----------------------------------------------------------------------------
(* What a comment of the repository says, and the code does not keep. *)

\* "it persists before returning its event ack" (service.py, receive): what
\* is acknowledged has been carried out.
AckedIsCarried == \A e \in acked : carried[e] > 0
=============================================================================
