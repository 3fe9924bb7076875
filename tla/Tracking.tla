------------------------------- MODULE Tracking -------------------------------
(***************************************************************************)
(* The delivery queue and the provider's webhooks on one table: both write *)
(* notification_deliveries, and meet in the column provider_email_id,      *)
(* which MarkSent (src/deliveries/store.go) stores and Apply               *)
(* (src/emailevents/store.go) looks rows up by.                            *)
(*                                                                         *)
(* DeliveryQueue's actions are conjoined with what they do to the email    *)
(* columns, EmailEvents' with what they do to the queue's.  A message the  *)
(* provider takes is <<row, how many it took for the row>>.                *)
(***************************************************************************)
EXTENDS DeliveryQueue, Sequences

CONSTANTS
  Serial,      \* bound: how many messages the provider takes for one row
  EventType,   \* the event types the provider reports
  HasActor     \* rows whose notification names the user who caused it

ASSUME TrackingAssumption == Serial \subseteq Nat \ {0} /\ HasActor \subseteq Email

VARIABLES
  message,         \* each loop: the message whose id it has and not yet stored
  emailId, providerStatus, log, alerts, reported, answered, early

tracked == <<emailId, providerStatus, log, alerts, reported, answered, early>>
all     == <<vars, message, tracked>>

Mail   == Email \X Serial
NoMail == <<NoRow, 0>>

\* The queue as a webhook meets it: a row not yet there is one not yet open,
\* the provider has taken the first messages of each row, and a loop has in
\* hand the message whose id it is about to store.
Queue    == [d \in Email |-> IF status[d] = "absent" THEN "pending" ELSE status[d]]
Owner    == [m \in Mail |-> IF m[2] <= accepted[m[1]] THEN m[1] ELSE NoRow]
InFlight == {message[w] : w \in Worker} \ {NoMail}

Webhooks == INSTANCE EmailEvents WITH
  Delivery <- Email, queue <- Queue, owner <- Owner, hand <- InFlight

TrackingTypeOK ==
  /\ message \in [Worker -> Mail \cup {NoMail}]
  /\ Webhooks!TypeOK

TrackingInit ==
  /\ Init
  /\ message = [w \in Worker |-> NoMail]
  /\ emailId = [d \in Email |-> NoMail]
  /\ providerStatus = [d \in Email |-> ""]
  /\ log = {}
  /\ alerts = [d \in Email |-> <<>>]
  /\ reported = {} /\ answered = {} /\ early = {}
-----------------------------------------------------------------------------
(* Slips: definitions of the next section with a plausible bug each *)

\* The attempt's UPDATE does not store the id.
StoreNothing(w) == UNCHANGED emailId

-----------------------------------------------------------------------------
(* The loops *)

Forget(ws) == message' = [w \in Worker |-> IF w \in ws THEN NoMail ELSE message[w]]

\* The provider's answer bears the id of the message it took, unless it comes
\* too late, cannot be read or is an SMTP server's.
TrackedAttempt(w, d, r) ==
  /\ Attempt(w, d, r)
  /\ d \in Email /\ r \in {"ok", "late"} => accepted'[d] \in Serial
  /\ \/ /\ d \in Email /\ r = "ok"
        /\ message' = [message EXCEPT ![w] = <<d, accepted'[d]>>]
     \/ UNCHANGED message
  /\ UNCHANGED tracked

\* MarkSent stores the id, or that there is none; MarkRetrying does not touch
\* the column.
StoreId(w) ==
  IF cur[w] \in Email /\ result[w] = "ok"
  THEN emailId' = [emailId EXCEPT ![cur[w]] = message[w]]
  ELSE UNCHANGED emailId

TrackedSettle(w) ==
  /\ Settle(w)
  /\ StoreId(w)
  /\ Forget({w})
  /\ UNCHANGED <<providerStatus, log, alerts, reported, answered, early>>

TrackedSettleLost(w) == SettleLost(w) /\ Forget({w}) /\ UNCHANGED tracked

TrackedExit(i) == Exit(i) /\ Forget(Loops(i)) /\ UNCHANGED tracked

\* The steps that meet no message.
Elsewhere ==
  /\ \/ \E d \in Delivery : Enqueue(d)
     \/ \E w \in Worker : Poll(w)
     \/ \E i \in Instance : Stop(i) \/ Restart(i)
     \/ Tick
  /\ UNCHANGED <<message, tracked>>
-----------------------------------------------------------------------------
(* The webhooks *)

Happen(m, t) == UNCHANGED <<vars, message>> /\ Webhooks!Happen(m, t)

\* A status that moves forward sets updated_at too, which a row that is in
\* processing is judged stuck by.
Receive(r, heard) ==
  /\ UNCHANGED <<status, attempts, wait, hand, mode, history, faults, message>>
  /\ Webhooks!Receive(r, heard)
  /\ age' = [d \in Delivery |->
               IF d \in Email /\ status[d] = "processing"
                    /\ providerStatus'[d] # providerStatus[d]
               THEN 0 ELSE age[d]]

TrackingNext ==
  \/ \E w \in Worker : \/ \E d \in Delivery, r \in Result : TrackedAttempt(w, d, r)
                       \/ TrackedSettle(w)
                       \/ TrackedSettleLost(w)
  \/ \E i \in Instance : TrackedExit(i)
  \/ Elsewhere
  \/ \E m \in Mail, t \in EventType : Happen(m, t)
  \/ \E r \in Mail \X EventType, heard \in BOOLEAN : Receive(r, heard)

TrackingSafeSpec == TrackingInit /\ [][TrackingNext]_all

\* The queue's fairness, and a provider that delivers a report until answered.
TrackingSpec ==
  /\ TrackingSafeSpec
  /\ Fairness
  /\ \A r \in Mail \X EventType : WF_all(Receive(r, TRUE))
-----------------------------------------------------------------------------
(* Properties *)

\* The queue does to the email columns only what EmailEvents lets it do,
\* whatever the timing: what is shown of that module holds of the two together.
KeepsEvents == Webhooks!SafeSpec

\* Every report recorded for a row is about the email whose id the row
\* carries: neither a retry nor a second instance mixes two emails' histories,
\* unless two loops held the row at once.
OneEmailPerRow ==
  \A r \in log : LET d == r[1][1] IN overtaken[d] = 0 => emailId[d] = r[1]

\* A report about the email a row carries was answered and is not in the log
\* only if the answer came while the id was still on its way to the row: no later
\* delivery of a webhook is dropped as unmatched or as seen before.
MissedOnlyEarly == Webhooks!MissedOnlyEarly

\* A relevant report about the email a row carries ends in the log, unless a
\* second loop at work on the row gives it another email's id first.
ReportsReachTheLog ==
  \A r \in Mail \X EventType : LET d == r[1][1] IN
    (r \in reported \ answered /\ r[2] \in Webhooks!Relevant /\ emailId[d] = r[1])
      ~> \/ r \in log
         \/ overtaken[d] > 0 /\ emailId[d] # r[1]
=============================================================================
