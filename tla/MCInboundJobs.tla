---------------------------- MODULE MCInboundJobs ----------------------------
(***************************************************************************)
(* Small instances of InboundJobs for TLC.                                 *)
(***************************************************************************)
EXTENDS InboundJobs, RetrySchedule

CONSTANTS BackoffFirst, BackoffCap, m1

MCBackoff == [n \in 1..MaxJobAttempts |-> JobDelay(BackoffFirst, BackoffCap)[n]]

OneMail == [f \in File |-> m1]
=============================================================================
