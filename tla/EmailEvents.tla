----------------------------- MODULE EmailEvents -----------------------------
(***************************************************************************)
(* What the provider reports about an email after taking it: the webhook   *)
(* (src/controllers/emailevents.go), the transaction that applies it       *)
(* (src/emailevents) and the worker's MarkSent, which gives a row the      *)
(* provider's id of its email and so makes webhooks find the row.          *)
(*                                                                         *)
(* The provider is external: it may report any event of an accepted email, *)
(* in any order, and delivers each report again until it is answered.      *)
(* A row's queue lifecycle is that of DeliveryQueue, reduced to what       *)
(* webhooks can meet: Tracking puts the two together and shows that the    *)
(* queue does nothing else.                                                *)
(***************************************************************************)
EXTENDS Naturals, Sequences

CONSTANTS
  Delivery,    \* email rows of notification_deliveries
  Mail,        \* the provider's ids, one for each message it takes
  EventType,   \* the event types the provider reports
  HasActor,    \* rows whose notification names the user who caused it
  NoRow, NoMail

VARIABLES
  queue,           \* column status
  emailId,         \* column provider_email_id
  providerStatus,  \* column provider_status, "" while NULL
  log,             \* email_events: the reports recorded
  alerts,          \* in-app alerts raised for the sender, by status
  owner,           \* the row a message was sent for
  hand,            \* messages accepted whose MarkSent is still to come
  reported,        \* reports the provider has made
  answered,        \* reports answered 200, not to be delivered again
  early            \* history: those answered while their message was in hand

rows == <<queue, emailId, owner, hand>>
hook == <<providerStatus, log, alerts, reported, answered, early>>
vars == <<rows, hook>>

Report == Mail \X EventType

Open == {"pending", "processing", "retrying"}

StatusForEvent ==
  [t \in {"email.sent", "email.delivery_delayed", "email.delivered", "email.complained",
          "email.bounced", "email.failed", "email.suppressed"} |->
     CASE t = "email.sent"             -> "sent"
       [] t = "email.delivery_delayed" -> "delivery_delayed"
       [] t = "email.delivered"        -> "delivered"
       [] t = "email.complained"       -> "complained"
       [] t = "email.bounced"          -> "bounced"
       [] t = "email.failed"           -> "failed"
       [] t = "email.suppressed"       -> "suppressed"]

Relevant == DOMAIN StatusForEvent

ProviderStatus == {"sent", "delivery_delayed", "delivered", "complained",
                   "bounced", "failed", "suppressed"}

Problem == {"delivery_delayed", "complained", "bounced", "failed", "suppressed"}
Undelivered == {"bounced", "failed", "suppressed"}

ASSUME EventAssumption == /\ HasActor \subseteq Delivery
                          /\ NoRow \notin Delivery
                          /\ NoMail \notin Mail

Rank(s) == IF s \in Undelivered          THEN 50
           ELSE IF s = "complained"       THEN 40
           ELSE IF s = "delivered"        THEN 30
           ELSE IF s = "delivery_delayed" THEN 20
           ELSE IF s = "sent"             THEN 10
           ELSE 0

TypeOK ==
  /\ queue \in [Delivery -> Open \cup {"sent", "failed"}]
  /\ emailId \in [Delivery -> Mail \cup {NoMail}]
  /\ providerStatus \in [Delivery -> ProviderStatus \cup {""}]
  /\ log \subseteq Report
  /\ alerts \in [Delivery -> Seq(Problem)]
  /\ owner \in [Mail -> Delivery \cup {NoRow}]
  /\ hand \subseteq Mail
  /\ reported \subseteq Report
  /\ answered \subseteq reported
  /\ early \subseteq answered

Init ==
  /\ queue = [d \in Delivery |-> "pending"]
  /\ emailId = [d \in Delivery |-> NoMail]
  /\ providerStatus = [d \in Delivery |-> ""]
  /\ log = {}
  /\ alerts = [d \in Delivery |-> <<>>]
  /\ owner = [m \in Mail |-> NoRow]
  /\ hand = {}
  /\ reported = {}
  /\ answered = {}
  /\ early = {}
-----------------------------------------------------------------------------
(* Slips: definitions below with a plausible bug each *)

\* An event of equal rank wins too.
AdvanceOnEqual(current, incoming) ==
  IF Rank(incoming) >= Rank(current) THEN incoming ELSE current

\* The last event wins.
AdvanceAlways(current, incoming) == incoming

\* Every change raises an alert, good news too.
RaiseAlertAlways(d, next) ==
  alerts' = IF d \in HasActor THEN [alerts EXCEPT ![d] = Append(@, next)] ELSE alerts

\* The transaction is rolled back, and the webhook answered like a success.
ApplyUncommitted(d, r) == UNCHANGED <<log, providerStatus, alerts>>

\* The client reads the queue before the provider.
DeriveStateQueueFirst(queueStatus, provider) ==
  IF queueStatus \in {"pending", "processing"} THEN "queued"
  ELSE IF queueStatus \in {"sent", "failed", "retrying", "skipped"} THEN queueStatus
  ELSE IF provider \in ProviderStatus THEN provider ELSE "unknown"
-----------------------------------------------------------------------------
(* The queue, as far as webhooks meet it *)

\* A loop's poll takes open rows, stuck ones among them.
Claim(claimed) ==
  /\ \A d \in claimed : queue[d] \in Open
  /\ queue' = [d \in Delivery |-> IF d \in claimed THEN "processing" ELSE queue[d]]
  /\ UNCHANGED <<emailId, owner, hand, hook>>

\* The provider takes a message for a row, for all the queue can tell even for
\* one that has ended, when two loops had it; its answer may come too late for
\* the loop, or bear no id.
Send(d, m, intime) ==
  /\ owner[m] = NoRow
  /\ owner' = [owner EXCEPT ![m] = d]
  /\ hand' = IF intime THEN hand \cup {m} ELSE hand
  /\ UNCHANGED <<queue, emailId, hook>>

\* The worker records the provider's id.
MarkSent(m) ==
  /\ m \in hand
  /\ queue' = [queue EXCEPT ![owner[m]] = "sent"]
  /\ emailId' = [emailId EXCEPT ![owner[m]] = m]
  /\ hand' = hand \ {m}
  /\ UNCHANGED <<owner, hook>>

\* The answer to a message bore no id, and so does the row.
MarkSentBlank(d) ==
  /\ queue' = [queue EXCEPT ![d] = "sent"]
  /\ emailId' = [emailId EXCEPT ![d] = NoMail]
  /\ UNCHANGED <<owner, hand, hook>>

\* A crash or a lost UPDATE: the ids never reach their rows.
LoseMail(gone) ==
  /\ gone \subseteq hand
  /\ hand' = hand \ gone
  /\ UNCHANGED <<queue, emailId, owner, hook>>

\* An attempt on the row fails, perhaps after another loop's was sent.  The
\* email columns are not touched.
FailAttempt(d, s) ==
  /\ queue' = [queue EXCEPT ![d] = s]
  /\ UNCHANGED <<emailId, owner, hand, hook>>
-----------------------------------------------------------------------------
(* The webhook *)

\* External: the provider has something to report about an email it took.
Happen(m, t) ==
  /\ owner[m] # NoRow
  /\ <<m, t>> \notin reported
  /\ reported' = reported \cup {<<m, t>>}
  /\ UNCHANGED <<rows, providerStatus, log, alerts, answered, early>>

\* The status after an event: only a strictly higher rank wins.
Advance(current, incoming) ==
  IF Rank(incoming) > Rank(current) THEN incoming ELSE current

\* The alert for the person who caused the email, in the same transaction.
RaiseAlert(d, next) ==
  alerts' = IF next \in Problem /\ d \in HasActor
            THEN [alerts EXCEPT ![d] = Append(@, next)] ELSE alerts

\* ON CONFLICT (svix_id) DO NOTHING: the webhook was processed before.  (Two
\* reports of one type about one email would differ in their ids and be recorded
\* both; the second changes nothing further, so here they are one.)
Seen(r) == r \in log

\* Record report r on row d and move the row's status forward.
Apply(d, r) ==
  LET incoming == StatusForEvent[r[2]]
      next == Advance(providerStatus[d], incoming)
  IN /\ log' = log \cup {r}
     /\ providerStatus' = [providerStatus EXCEPT ![d] = next]
     /\ IF next # providerStatus[d] THEN RaiseAlert(d, next) ELSE UNCHANGED alerts

\* One delivery of a report.  An event of no interest, an email no row
\* carries and a report seen before are answered like a success.  The answer
\* may be lost on the way back, and then the report comes again.
Receive(r, heard) ==
  /\ r \in reported \ answered
  /\ \/ /\ r[2] \in Relevant /\ ~Seen(r)
        /\ \E d \in Delivery : emailId[d] = r[1] /\ Apply(d, r)
     \/ /\ \/ r[2] \notin Relevant
           \/ Seen(r)
           \/ \A d \in Delivery : emailId[d] # r[1]
        /\ UNCHANGED <<providerStatus, log, alerts>>
  /\ answered' = IF heard THEN answered \cup {r} ELSE answered
  /\ early' = IF heard /\ r[1] \in hand THEN early \cup {r} ELSE early
  /\ UNCHANGED <<rows, reported>>

Next ==
  \/ \E claimed \in SUBSET Delivery : Claim(claimed)
  \/ \E d \in Delivery, m \in Mail, intime \in BOOLEAN : Send(d, m, intime)
  \/ \E m \in Mail : MarkSent(m)
  \/ \E d \in Delivery : MarkSentBlank(d)
  \/ \E gone \in SUBSET Mail : LoseMail(gone)
  \/ \E d \in Delivery, s \in {"retrying", "failed"} : FailAttempt(d, s)
  \/ \E m \in Mail, t \in EventType : Happen(m, t)
  \/ \E r \in Report, heard \in BOOLEAN : Receive(r, heard)

SafeSpec == Init /\ [][Next]_vars
-----------------------------------------------------------------------------
(* Properties *)

\* The client-facing state of an email.
DeriveState(queueStatus, provider) ==
  IF provider \in ProviderStatus
  THEN IF provider = "delivery_delayed" THEN "delayed" ELSE provider
  ELSE IF queueStatus \in {"pending", "processing"} THEN "queued"
  ELSE IF queueStatus \in {"sent", "failed", "retrying", "skipped"} THEN queueStatus
  ELSE "unknown"

\* The statuses recorded for a row, whichever of its emails they are about.
Recorded(d) == {StatusForEvent[r[2]] : r \in {q \in log : owner[q[1]] = d}}

\* A row's status is the gravest of all that was recorded for it: the order in
\* which webhooks arrive, and arrive again, does not matter.
StatusIsGravest ==
  \A d \in Delivery :
    /\ providerStatus[d] \in Recorded(d) \cup {""}
    /\ \A s \in Recorded(d) : Rank(s) <= Rank(providerStatus[d])

\* Alerts about one email get strictly graver.
AlertsRise ==
  \A d \in Delivery : \A i, j \in 1..Len(alerts[d]) :
    i < j => Rank(alerts[d][i]) < Rank(alerts[d][j])

\* The last alert is of the problem the email has now.
ProblemIsAlerted ==
  \A d \in HasActor : providerStatus[d] \in Problem =>
    /\ alerts[d] # <<>>
    /\ alerts[d][Len(alerts[d])] = providerStatus[d]

\* A sender's alerts about one email get strictly graver and end with the
\* problem it has: no webhook, however often delivered, alerts twice, no mild
\* alert follows a grave one, none is lost between the status and the bell.
\* So the code; store.go:53-55 speaks of one alert, on the first problem
\* state, where the code raises another at each rise to a graver one.
AlertsEscalate == AlertsRise /\ ProblemIsAlerted

\* What a client reads for an email is "undelivered" in one of its three
\* forms exactly if such a report was recorded or the queue gave up before
\* any report.
ClientSeesUndelivered ==
  \A d \in Delivery :
    DeriveState(queue[d], providerStatus[d]) \in Undelivered
      <=> \/ Recorded(d) \cap Undelivered # {}
          \/ Recorded(d) = {} /\ queue[d] = "failed"

\* A report about the email a row carries was answered and is not in the log
\* only if the answer came while the id was still on its way to the row: no later
\* delivery of a webhook is dropped as unmatched or as seen before.
MissedOnlyEarly ==
  \A r \in answered \ (log \cup early) :
    r[2] \in Relevant => \A d \in Delivery : emailId[d] # r[1]
=============================================================================
