---------------------------- MODULE RetrySchedule ----------------------------
(***************************************************************************)
(* The waits between attempts, as the stores of this service compute them. *)
(* Waits are natural numbers of one time unit.                             *)
(***************************************************************************)
EXTENDS Naturals

\* deliveries.backoff: first * 2^(n-1), at most cap, n counted after the
\* failed attempt.
BackoffDelay(first, cap, n) ==
  LET delay == first * 2^(n - 1) IN IF delay > cap THEN cap ELSE delay

\* inbound.JobBackoff: doubled for each attempt after the first until it
\* reaches cap, n less than 1 counting as 1.
JobDelay(base, cap) ==
  LET doubled[n \in Nat] ==
        IF n <= 1 THEN base
        ELSE IF doubled[n - 1] < cap THEN 2 * doubled[n - 1] ELSE doubled[n - 1]
  IN [n \in Nat |-> IF doubled[n] > cap THEN cap ELSE doubled[n]]
=============================================================================
