------------------------------ MODULE Delivery ------------------------------
(***************************************************************************)
(* From a message in to a reply out: the SDK's receive thread              *)
(* (BridgeService.receive, MessageRouter.handle and register_inbound), the *)
(* event loop that sends notices of its own, the sender of module Outbox,  *)
(* and the life of the process they share.                                 *)
(*                                                                         *)
(* Feishu delivers an event at least once and again as long as it has not  *)
(* seen the acknowledgement, which the SDK sends when receive returns.     *)
(* What a message does to the tables is one step here, Carry; module       *)
(* Bridge says what it is.  Events are private messages of an authorised   *)
(* sender: all others are registered and ignored.                          *)
(***************************************************************************)
EXTENDS Outbox

CONSTANTS
    Events,       \* the messages that users send
    NoEvent,      \* "no message"
    MaxCrashes    \* bound: deaths of the process

ASSUME DeliveryAssumption ==
    /\ NoEvent \notin Events
    /\ MaxCrashes \in Nat

VARIABLES
    inbound,      \* the ids in inbound_events
    carried,      \* how often an event was carried out
    replyTo,      \* the event that a row of the outbox answers
    acked,        \* the events for which receive has returned
    rx,           \* where the receive thread is
    rxEvent,      \* the event it has at hand
    bridge,       \* "starting" (the loop does not run yet), "up" or "down"
    crashes

inboundVars == <<inbound, carried, replyTo, acked>>
processVars == <<rx, rxEvent, bridge, crashes>>
vars == <<outboxVars, inboundVars, processVars>>

TypeOK ==
    /\ OutboxTypeOK
    /\ inbound \subseteq Events
    /\ carried \in [Events -> Nat]
    /\ replyTo \in [Rows -> Events \cup {NoEvent}]
    /\ acked \subseteq Events
    /\ rx \in {"idle", "registered", "carried", "replied"}
    /\ rxEvent \in Events \cup {NoEvent}
    /\ bridge \in {"starting", "up", "down"}
    /\ crashes \in 0 .. MaxCrashes

Init ==
    /\ OutboxInit
    /\ inbound = {}
    /\ carried = [e \in Events |-> 0]
    /\ replyTo = [r \in Rows |-> NoEvent]
    /\ acked = {}
    /\ rx = "idle"
    /\ rxEvent = NoEvent
    /\ bridge = "starting"
    /\ crashes = 0

-----------------------------------------------------------------------------
(* The receive thread. *)

\* Mutation of Registers: a message that was seen is taken for a new one.
RegistersAgain(e) == TRUE

\* register_inbound succeeds: the id is not in the table.
Registers(e) == e \notin inbound

\* Delivered for the first time, or for the first time to a process that
\* lives long enough.
Receive(e) ==
    /\ bridge # "down"
    /\ rx = "idle"
    /\ Registers(e)
    /\ inbound' = inbound \cup {e}
    /\ rx' = "registered"
    /\ rxEvent' = e
    /\ UNCHANGED <<outboxVars, carried, replyTo, acked, bridge, crashes>>

\* Delivered again: handle returns no reply, and receive returns.
ReceiveAgain(e) ==
    /\ bridge # "down"
    /\ rx = "idle"
    /\ ~Registers(e)
    /\ acked' = acked \cup {e}
    /\ UNCHANGED <<outboxVars, inbound, carried, replyTo, processVars>>

\* The handler of the message; that of /send queues a file.
Carry ==
    /\ rx = "registered"
    /\ carried' = [carried EXCEPT ![rxEvent] = @ + 1]
    /\ rx' = "carried"
    /\ \/ UNCHANGED rowVars
       \/ Room("media") /\ InsertRow("media", NoRow)
    /\ UNCHANGED <<senderVars, shown, inbound, replyTo, acked, rxEvent, bridge,
                   crashes>>

\* receive queues what handle returned; some handlers return nothing.
Reply ==
    /\ rx = "carried"
    /\ \/ /\ Room("text")
          /\ InsertRow("text", NoRow)
          /\ replyTo' = [replyTo EXCEPT ![nextRow] = rxEvent]
       \/ UNCHANGED <<rowVars, replyTo>>
    /\ rx' = "replied"
    /\ UNCHANGED <<senderVars, shown, inbound, carried, acked, rxEvent, bridge,
                   crashes>>

\* receive returns.
Acknowledge ==
    /\ rx = "replied"
    /\ acked' = acked \cup {rxEvent}
    /\ rx' = "idle"
    /\ rxEvent' = NoEvent
    /\ UNCHANGED <<outboxVars, inbound, carried, replyTo, bridge, crashes>>

\* Mutation of ReceiveFails: the exception is swallowed, and receive goes on
\* without the message.
ReceiveGoesOn ==
    /\ rx \in {"registered", "carried"}
    /\ rx' = "replied"
    /\ rxEvent' = NoEvent
    /\ UNCHANGED <<outboxVars, inboundVars, bridge, crashes>>

\* The handler, or receive, raises: nothing is undone, nothing acknowledged.
ReceiveFails ==
    /\ rx \in {"registered", "carried"}
    /\ rx' = "idle"
    /\ rxEvent' = NoEvent
    /\ UNCHANGED <<outboxVars, inboundVars, bridge, crashes>>

-----------------------------------------------------------------------------
(* The event loop. *)

\* enqueue_reply of the scheduler; a notice of recovery while starting.
Notify ==
    /\ bridge # "down"
    /\ Room("text")
    /\ InsertRow("text", NoRow)
    /\ UNCHANGED <<senderVars, shown, inboundVars, processVars>>

Send ==
    /\ bridge = "up"
    /\ SenderStep
    /\ UNCHANGED <<inboundVars, processVars>>

-----------------------------------------------------------------------------
(* The life of the process.  An exception in the event loop ends it too.   *)

Crash ==
    /\ bridge # "down"
    /\ crashes < MaxCrashes
    /\ crashes' = crashes + 1
    /\ bridge' = "down"
    /\ rx' = "idle"
    /\ rxEvent' = NoEvent
    /\ Pause
    /\ UNCHANGED <<rowVars, shown, inboundVars>>

Restart ==
    /\ bridge = "down"
    /\ bridge' = "starting"
    /\ UNCHANGED <<outboxVars, inboundVars, rx, rxEvent, crashes>>

\* The loops are started.
Start ==
    /\ bridge = "starting"
    /\ bridge' = "up"
    /\ UNCHANGED <<outboxVars, inboundVars, rx, rxEvent, crashes>>

-----------------------------------------------------------------------------

ReceiveStep ==
    \/ \E e \in Events : Receive(e) \/ ReceiveAgain(e)
    \/ Carry \/ Reply \/ Acknowledge \/ ReceiveFails

Next == ReceiveStep \/ Notify \/ Send \/ Crash \/ Restart \/ Start

Spec == Init /\ [][Next]_vars
=============================================================================
