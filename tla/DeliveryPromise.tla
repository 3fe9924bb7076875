--------------------------- MODULE DeliveryPromise ---------------------------
(***************************************************************************)
(* What the delivery queue promises about one row of                       *)
(* notification_deliveries, with workers, claims, timers and retries left  *)
(* out: a row that is enqueued stays open until it ends in exactly one     *)
(* outcome, it never leaves that outcome, and it ends in "sent" only if    *)
(* the provider took the message at least once.                            *)
(*                                                                         *)
(* A row that is open may become contested, two loops working on it.  Then *)
(* it may end more than once and be opened again in between; but what ends *)
(* as "sent" was taken by the provider all the same, no row is contested   *)
(* once it has ended, and even a contested row ends for good at last.      *)
(***************************************************************************)

CONSTANT Delivery

VARIABLES
  outcome,    \* [Delivery -> Outcome]
  delivered,  \* rows whose message the provider has accepted at least once
  contested   \* rows that more than one loop has worked on at once

vars == <<outcome, delivered, contested>>

Ending  == {"sent", "failed", "skipped"}
Outcome == {"absent", "open"} \cup Ending

TypeOK == /\ outcome \in [Delivery -> Outcome]
          /\ delivered \in SUBSET Delivery
          /\ contested \in SUBSET Delivery

Init == /\ outcome = [d \in Delivery |-> "absent"]
        /\ delivered = {}
        /\ contested = {}

Open(d) == /\ outcome[d] = "absent"
           /\ outcome' = [outcome EXCEPT ![d] = "open"]
           /\ UNCHANGED <<delivered, contested>>

Deliver(d) == /\ outcome[d] = "open" \/ d \in contested
              /\ delivered' = delivered \cup {d}
              /\ UNCHANGED <<outcome, contested>>

Close(d, o) == /\ outcome[d] = "open" \/ d \in contested
               /\ o = "sent" => d \in delivered
               /\ outcome' = [outcome EXCEPT ![d] = o]
               /\ UNCHANGED <<delivered, contested>>

\* Loops take up open rows that others are working on.
Contest(rows) == /\ \A d \in rows : outcome[d] = "open"
                 /\ contested' = contested \cup rows
                 /\ UNCHANGED <<outcome, delivered>>

Reopen(d) == /\ d \in contested
             /\ outcome' = [outcome EXCEPT ![d] = "open"]
             /\ UNCHANGED <<delivered, contested>>

Next == \/ \E d \in Delivery : \/ Open(d)
                               \/ Deliver(d)
                               \/ \E o \in Ending : Close(d, o)
                               \/ Reopen(d)
        \/ \E rows \in SUBSET Delivery : Contest(rows)

SafeSpec == Init /\ [][Next]_vars

\* Every row that is opened ends, and ends for good, contested or not.
RowsEnd == \A d \in Delivery : outcome[d] = "open" ~> [](outcome[d] \in Ending)
=============================================================================
