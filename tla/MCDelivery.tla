----------------------------- MODULE MCDelivery -----------------------------
(* One message and a small outbox. *)
EXTENDS DeliveryProperties
CONSTANT e1
=============================================================================
