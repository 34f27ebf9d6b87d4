--------------------------- MODULE MCTransferSpool ---------------------------
(* Two invocations of the script with the same date and pid. *)
EXTENDS TransferSpool
CONSTANTS s1, s2, n1
SameNonce == [s \in Scripts |-> n1]
=============================================================================
