--------------------------- MODULE MCDeliveryQueue ---------------------------
(***************************************************************************)
(* Small instances of DeliveryQueue for TLC.                               *)
(***************************************************************************)
EXTENDS DeliveryQueue, RetrySchedule

CONSTANTS BackoffFirst, BackoffCap

MCBackoff == [n \in 1..MaxAttempts |-> BackoffDelay(BackoffFirst, BackoffCap, n)]
=============================================================================
