------------------------------ MODULE MCTracking ------------------------------
(***************************************************************************)
(* A small instance of Tracking for TLC: two copies of one schedule, the   *)
(* rows of both channels.                                                  *)
(***************************************************************************)
EXTENDS Tracking, RetrySchedule

CONSTANTS BackoffFirst, BackoffCap

MCBackoff == [n \in 1..MaxAttempts |-> BackoffDelay(BackoffFirst, BackoffCap, n)]
=============================================================================
