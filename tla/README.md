# stonesuite-notify in TLA+

This directory specifies the notification service of `src/`: a Go process that
stores notifications, delivers them by email and web push from a queue kept in
Postgres, follows what the email provider reports afterwards, and copies the
files of customers' replies to the backend. The modules are written from the
code; each definition's lines are in `PROJECT.json` under `map`.

    tlasany M.tla                        parse a module
    tlc -config MCQueueSafe.cfg MCDeliveryQueue     check a run
    tlapm DeliveryQueueProofs.tla        check the proofs of a module

## The system

| Part | State | Operations | Meets the others through |
|---|---|---|---|
| Delivery queue `deliveries/` | `notification_deliveries`: status, attempts, `next_attempt_at`, `updated_at`, provider ids | Enqueue, ClaimPending, ClaimDue, MarkSent, MarkSkipped, MarkRetrying | the table, by `FOR UPDATE SKIP LOCKED` |
| Workers `workers/` | per loop: the claimed batch, read once | QueueConsumer, RetryWorker: poll, attempt one row after the other, record | the queue, the channels, the audit trail |
| Channels `channels/` | none | send an email, push to an endpoint | called by the workers; the providers are external |
| Email events `emailevents/`, `controllers/emailevents.go` | `email_events`; `provider_status` of a row | webhook, Apply (one transaction), alert, derive the client's state | find a row by the id MarkSent stored |
| Received replies `inbound/`, `workers/inbound_attachments.go` | `inbound_attachment_jobs` | webhook: forward, enqueue, answer; worker: claim, copy, settle | the backend (external), the jobs table |
| Push subscriptions `pushsubs/`, `controllers/push.go` | `push_subscriptions` by endpoint | subscribe, unsubscribe, prune | read by the push attempt |
| Creating notifications `controllers/notifications.go` | none of its own | one request, many recipients: resolve channels, create, enqueue | preferences, feed, queue, audit |
| Preferences `preferences/` | tenant defaults, user overrides | Resolve, set either level | read by creation |
| Feed `notifications/` | `notifications` and their read marks | page, count, mark one or all read | rows come from creation and from alerts |
| Audit trail `audit/` | `audit_log`; a counter of writes in flight | Record (detached), flush, paged reader | every handler and worker |
| Lifecycle `main.go` | the context the loops share | start, serve, shut down | stops the loops, waits for audit writes |
| Authentication, permissions, webhook signatures | none | pure checks of a request | in front of the handlers |

### What is hard here

* Two loops in each of several instances claim from one table, and a row stuck
  in `processing` is taken from whoever claimed it after five minutes; results
  are written by id alone, so a slow loop can write over another one's row. An
  attempt may be slow without bound: of the calls it makes only the one to
  Resend has a timeout; a push, an SMTP call and the database's have none.
* An attempt is a call to a provider followed by an UPDATE: a crash, a
  shutdown (which cancels the UPDATE's context, and for which `main` waits for
  no loop) or a database error between them loses the result.
* Webhooks arrive repeated, in any order and before the row knows its email's
  id; two deliveries of one webhook may be handled at once.
* A push delivery has one row and many devices. Which were reached is recorded
  in the row's `provider_response`, written once an attempt ends, while devices
  come, go and change hands.
* One request writes many rows in separate statements, any of which may fail
  while the others go on.
* The loops and the webhooks write one table and agree only by the email's id,
  which is stored after the provider has it.
* Audit entries are written by goroutines nobody waits for, and a shutdown
  closes the connection pool under them.

`PROJECT.json` lists each of these as a hazard at its line.

### What makes the parts correct

* Queue: two loops hold a row only where one took it from under another that
  had held it for the stale threshold. Until then every attempt is in the
  `attempts` column once, or was lost with its UPDATE, and the row ends once; a
  message is sent again only for a reason, the audit trail tells only of what
  happened, and a row ends for good unless an attempt hangs for ever.
* Events: the status of an email does not depend on the order of its webhooks;
  the sender is told of each rise in gravity and of nothing twice.
* Replies: an acknowledged mail's files are never forgotten or copied by two
  workers at once; each job counts its attempts and is given up on at its limit.
* Push: the record never claims a device that was not reached; sent means all
  listed devices were reached or are gone; a device is pushed again only for a
  reason.
* Creating: a refusal has written nothing, a success everything that the
  settings allow and no fault has cost; nobody hears on a channel they had
  turned off; the delivery log says what the feed shows; a repeated request
  duplicates only what its caller was never told of.
* Preferences: a lookup never returns a setting that was not in force during it.
* Feed and audit list: who pages to the end sees everything that was there at
  the start.
* Audit trail: the entry of an action that was taken is lost only to a fault or
  to a pool closed too early, never because its request is over.

## Modules

| Module | Models | Composed with |
|---|---|---|
| `DeliveryPromise` | what a client may rely on: a row opens, is perhaps delivered, ends once, or, where loops contest it, for good at last | abstract specification of the queue |
| `DeliveryQueue` | the queue's table and both loops of every instance | refines `DeliveryPromise` |
| `RetrySchedule` | `deliveries.backoff`, `inbound.JobBackoff` | gives the constants `Backoff` their values |
| `EmailEvents` | webhooks, `provider_status`, alerts, the state a client reads | abstract in the queue |
| `Tracking` | the queue and the webhooks on one table | composes `DeliveryQueue` and `EmailEvents`, implements both |
| `InboundJobs` | the inbound webhook, the jobs table, its worker | |
| `PushFanout` | one push delivery, the workers that attempt it and the devices it is for | |
| `Preferences` | defaults, overrides and the two-statement lookup | |
| `CreateNotification` | one creation request after another | extends `Preferences` |
| `Paging` | page sizes, offsets, pages in all, `hasMore` | |
| `Feed` | a table of notifications and a screen that pages through it | extends `Paging` |
| `AuditTrail` | the detached writes, the shutdown that races with them, the paged reader | extends `Paging` |
| `*Proofs` | theorems of the module they are named after | |
| `MC*` | instances for TLC | |

Each module has, under *Slips*, variants of its definitions with a bug each.
No behaviour uses them: put in the place of the real definition they show that
each property can fail (`mutants` in `PROJECT.json` lists which breaks which).

### DeliveryQueue

`status`, `attempts`, `wait` (the time until `next_attempt_at`) and `age` (the
time since `updated_at`) are the columns of `notification_deliveries`. `batch`,
`seen`, `cur` and `result` are a loop's memory: what its last claim returned,
the attempts of those rows as the claim saw them, and the attempt under way.
`mode` is the state of each process. `heldFor`, `tries`, `accepted`, `lost`,
`late`, `audited` and `overtaken` are history; `heldFor` is the time since a
loop's claim, and `overtaken` counts the claims that took a row while a loop
still held it.

| Action | Code |
|---|---|
| `Enqueue` | the INSERT of `PGStore.Enqueue` |
| `Claim`, `ClaimLost` | `pollOnce` of either loop, with `ClaimPending` or `ClaimDue`; the second is a claim whose answer is lost, or a process ending before it has it |
| `Attempt` | `attemptDelivery` up to the provider's answer: accepted, error, accepted too late, or (push) no devices |
| `Settle`, `SettleLost` | `MarkSent`, `MarkSkipped` or `MarkRetrying` with the audit entry; the second when the UPDATE fails |
| `Stop`, `Exit`, `Restart` | SIGTERM and the end of `main`, or a crash; the next start |
| `Tick` | time: `next_attempt_at` and the stale threshold come nearer |

An attempt may take any time: `Tick` is possible whatever the loops are in the
middle of, for only the call to Resend is bounded (`emailTimeout`), while a push
to each device, an SMTP call and the UPDATEs are not. Even with that bound a batch
(`deliveryBatchSize` 20, 30 s each) lasts up to ten minutes, and the stale
threshold is five. So nothing keeps a row from being claimed while a loop still
holds it; the run `queue_double_send` shows what happens then. What the queue
guarantees is therefore stated with `overtaken`: a claim from under a loop costs
at most one attempt and one copy of the message, and makes the row *contested*
in the sense of `DeliveryPromise`; a row that was never overtaken has every
guarantee the claims' locking is meant to give.

`DeliveryPromise` lets a contested row end more than once and be opened again in
between, which is what late UPDATEs by id do to it. It still says that a row ends
as sent only after the provider took its message, that only open rows become
contested, and that every row ends for good (`RowsEnd`).

The list queries and the wording of errors are left out. So is everything an
attempt does to decide its result, which `PushFanout`, `CreateNotification`
(the attachment) and `Tracking` (the id) model where it matters.

### EmailEvents

`emailId`, `providerStatus` and `log` are `provider_email_id`,
`provider_status` and the table `email_events`; `alerts` are the notifications
`raiseAlert` inserts. `Receive(r, heard)` is one whole delivery of a webhook:
the handler, the transaction of `Apply` with the row locked, and the answer,
which may be lost. The queue appears as far as it matters to a webhook, and more
loosely than it is: `Claim` takes open rows, `Send` gives a message to the
provider and keeps its id in `hand` (unless the answer is late or has none),
`MarkSent` stores an id, `MarkSentBlank` stores that there is none, `LoseMail`
is every way in which ids never get to their rows, `FailAttempt` the other ends
of an attempt. Nothing is assumed of how many loops are at work on a row.
A report is known by its email and type: a second event of one type about one
email, which the code would log under its own `svix_id`, could change neither
status nor alerts.
`early` remembers the reports answered while their email's id was in a loop's
hands: the handler finds no row, answers 200, and the provider will not ask
again.

### Tracking

The two modules above on the one table they share. Each action of
`DeliveryQueue` is conjoined with what it does to the email columns:
`TrackedAttempt` receives an id, `TrackedSettle` stores it (`StoreId`), or that
there is none, `TrackedSettleLost` and `TrackedExit` forget it, `Elsewhere` has
nothing to do with emails. A message is named after its row and how many the
provider took for it before, so that a row sent twice has two emails. `Receive`
is conjoined with what a webhook does to the queue: `Apply` sets `updated_at`
when the status moves forward, and with it the age by which a row in
`processing` is judged stuck.

`Queue`, `Owner` and `InFlight` are what a webhook sees of the queue. With them
`Webhooks == INSTANCE EmailEvents WITH ...` reads the composition as a behaviour
of `EmailEvents`, also where two loops send one row and store one id over the
other.

### InboundJobs

`job`, `attempts`, `wait` and `age` are the table; `mail`, `stage` and `wanted`
are the handler's memory between the backend's answer, the INSERT of the jobs
and its own answer; `held`, `count`, `outcome` and `elapsed` the worker's.
`Request` is the webhook (`Forward`, `Reject`, `Enqueue`, `EnqueueFails`,
`Answer`), `Work` the worker (`Copy`, `Settle`, `SettleLost`), both for each
instance, so that two deliveries of one webhook and two workers interleave. The
unit of time is one attempt: `inboundJobTimeout` ends each after two minutes,
the stale threshold of five minutes is two whole units, and a batch is one job,
so this worker is done before its job looks stuck where the queue's loops may
not be. `tries` and `lost` are history of a job, not of a file: a completed job
is deleted, and one that a webhook queues anew starts at zero, as in the table.
The backend and the provider are external: the backend answers with the files it
does not have yet.

### PushFanout

One delivery row, one recipient, and endpoints that are subscribed, taken over
by another user of the same browser, unsubscribed or pruned while attempts are
under way. The row's timers are left out: a row that has not ended may be claimed
at any time, by a second worker too while one is at work on it, as
`DeliveryQueue` shows it may be once that worker's attempt has taken long enough;
`overtaken` counts such claims. `hand` is each worker's memory of its attempt: the
row as its claim returned it, the devices listed and those still to be tried, the
outcomes it will write. An attempt is `Claim`, one of `LoadFails`, `List` (which
passes over the devices the record says were reached) and `MarkSkipped`, then for
each other listed device `Push`, or `Prune` for one that is gone (whose DELETE
may fail), then `Finish` or a loss. `response` is `provider_response`; writing it
replaces what was there, as `MarkRetrying` and `MarkSent` do, by id alone.

### Preferences and CreateNotification

`Preferences` has the two tables' settings by channel and the two statements
of `Resolve` as two actions, with changes between them. `inForce` collects the
settings in force since the first.

`CreateNotification` runs one handler for each request. `Planning` is the first
loop of `Create` (validate and resolve, recipient by recipient), `PlanEnds` the
check that somebody can be reached, then one action for each statement of the
second loop in the code's order: `Insert`, `SaveFile`, `EnqueueInApp`,
`EnqueueEmail`, `EnqueuePush`. Every statement may fail or, for the INSERT,
succeed unheard. The caller may stop waiting (`GiveUp`) and send its request
again while the handler of the first is still at work, until the disconnect is
noticed and its statements are cancelled (`Abandon`). `Mail`
is the email worker, which may take a row as soon as it is there. `excused`
remembers what a fault has cost, `ghosts` the notifications whose INSERT was
not heard of.

`wish.fits` says whether a request decodes and keeps within its limits
(`Malformed` if not): one flag, since all these checks come before the first
recipient and are answered alike.

### Paging, Feed

`Paging` is the arithmetic the list endpoints share. In `Feed` rows have a sort
key, so a row's place in the list, its `Rank`, is how many of the listed rows
are newer; `Create`, `MarkRead` and `MarkAllRead` are the statements, `Open`,
`CountForUser` and `ListForUser` a screen that asks for page after page, each
page one COUNT and one SELECT, until `hasMore` is false. `Asked` is the page
size in the request, which counts only within its limits.

### AuditTrail

An action is a request or a delivery that leaves one entry. `Act` and `ActEnds`
are its statement, after whose failure a request ends without an entry and a
delivery goes on to its own, `Record` starts the goroutine, `Answer` ends the request,
which must not cancel the write; `WriteStarts`, `WriteEnds` and `WriteFails` are
the goroutine's INSERT, from waiting for a connection to commit or error.

`Signal`, `Close` and `Exit` are a shutdown. `main` starts a goroutine that calls
`Shutdown` and then waits for the recorder, but returns itself as soon as
`ListenAndServe` does, which is when `Shutdown` begins, and its deferred
`Close` closes the pool. Closing the pool is external: it refuses statements
that have no connection and waits for those that have one. `Kill` ends the
process anywhere, `Restart` starts the next.

`Open`, `Count` and `List` are an administrator who pages through what was
written. `created_at` may be equal for several entries, and the query has no
second key, so `List` may order them anew in each SELECT.

## The runs

| Run | Instance | Shows |
|---|---|---|
| `queue_safety` | 2 instances (4 loops), a row, 2 attempts, 1 fault of 5 kinds, attempts of any length | although the row is claimed from under loops: attempts and duplicates have a cause, the audit trail tells only of what happened, and the queue implements `DeliveryPromise`, so that a row that was not overtaken counts its attempts and ends once, and every row ends for good unless an attempt hangs for ever |
| `queue_double_send` | 1 instance (2 loops), 2 rows in a batch, attempts of any length, no fault | **violated**: a message is sent twice although `README.md` of `src/` says "multiple instances never double-send" |
| `events_order` | one email, six of the seven known event types and an ignored one, in every order, repeated | status, alerts and the client's view do not depend on the order |
| `tracking` | 1 instance (2 loops), an email row, 3 attempts, 2 messages, 2 faults (crashes, late answers, lost UPDATEs), attempts of any length | a row's history is about one email unless the row was overtaken, no report is dropped once the id is stored, reports reach the log; the composition implements `EmailEvents` |
| `inbound` | 2 instances, a file, 3 attempts, 3 faults | files are neither forgotten nor doubled; jobs count their attempts, are given up on at the limit and end |
| `inbound_truncated_answer` | 2 files, one answer cut short | **violated**: the mail is acknowledged and its files are never queued |
| `push` | 2 workers, 2 endpoints, 2 subscriptions, 2 attempts, 1 fault of 5 kinds | the record is truthful, sent means everyone, repeated pushes have a cause, the delivery ends unless an attempt hangs for ever |
| `push_again` | 1 worker, 2 endpoints, 3 attempts, failing loads only | **violated**: such an attempt erases the record and the next pushes again |
| `create` | 2 requests, which may be handled at once, 5 kinds of request, 3 changes of settings, 1 fault of 8 kinds | success, refusal, opting out, log and feed, attachments |
| `feed` | 5 rows, pages of 2, one row out of reach | who pages to the end has seen everything, and nothing twice, with named exceptions |
| `audit` | 3 actions, pages of 2, shutdowns, 1 fault (database or kill) | entries are lost only for a named reason; who pages to the end has seen everything, and nothing twice, with named exceptions |
| `audit_flush` | 2 actions, no fault | **violated**: a shutdown loses an entry that was on its way although `README.md` of `src/` says it "flushes in-flight entries before exiting" |

The violated runs state what a comment or document of the repository says
and are listed under `findings`, with the line that says it.

### Bounds

* **Queue.** Four loops on one row are enough for a row to be taken from a loop, and
  from the one that took it, and for the first to write its result last; two
  instances let one crash or stop while the other goes on. What `queue_safety`
  shows of a row involves other rows only through the time their attempts take in
  one batch, and `Tick` may let any time pass. Batches of two rows are in
  `queue_double_send`, and batches of any size in the proofs. Two attempts give a
  retry and a last attempt (the code has five, `deliveries/types.go`); `StaleAfter`
  2 separates a claim, a hold and a stale one. `Email` is empty, so that the row is a
  push row, which has one result more than an email (no devices); emails are in
  `tracking`. `FaultBudget` bounds history; the proofs have no bound at all.
* **Events.** Webhooks of different emails touch different rows, so one email
  suffices for order.
* **Tracking.** The two loops of one instance are enough to take the row over from
  each other and store two ids. Two messages of one row are what a retry, or a second
  loop, can mix up; one event type is enough to be missed or misattributed, its rank
  being `events_order`'s subject. Two faults let a recovery fail itself.
* **Replies.** Two instances give two handlers and two workers on one file.
  Jobs of different files do not meet, except in a cut answer (two files).
* **Push.** Two endpoints distinguish reached from not reached, and with two
  subscriptions either both are new or one is inserted anew after its removal. Two
  workers write the row over each other; two attempts are a first and a last one, and
  `push_again` has a third.
* **Creating.** The requests are: a user and someone outside with a file,
  only someone outside, a user without email, a list with an invalid entry
  at its end, and one beyond its limits. Three changes turn a channel off, on and off. Two requests are one
  and its repetition.
* **Feed.** Five rows on pages of two leave a last page that is not full.
* **Audit.** Three entries on pages of two likewise; three are also enough for
  one that is written, one that waits and one whose handler has yet to record.

`CHECK_DEADLOCK FALSE` is set where the system may stop: the events, push and
creation instances once all has happened that may; the feed when all rows are
there and read and the screen has reached its end, and the audit trail when every
action has been taken. The queue, with or without its webhooks, and the jobs
never stop, for time passes.

### Fairness

Safety is checked of `SafeSpec`, without fairness. The liveness runs assume, in
`Spec`:

* *queue*, *tracking*: that both loops poll on a ticker while they are idle (`Claim`), a
  stopping process ends and is started again by the platform (`Exit`, `Restart`),
  and time passes (`Tick`); in *tracking* of the provider also that it delivers a
  report until it has been answered. Of an attempt nothing is assumed, for it may
  hang: `RowsEnd` has the hypothesis `NoLoopHangs`, that each loop is idle again and
  again. Where a call hangs for ever its loop does nothing more, and its rows are left
  to the retry loops that still run;
* *replies*: that the worker polls, that its attempt ends, as its context's timeout
  makes it do, and that an unanswered webhook is delivered again and handled to its
  end (`Request`), as the provider documents and `src/inbound` relies on;
* *push*: that a row which has not ended and which no worker has is claimed; the
  hypothesis of `EventuallyEnds` is `NoAttemptHangs`.

Fairness is weak, and of single actions of single loops but for the claim in *push*,
which whichever worker makes. Nothing is
assumed of faults (they need not happen or stop, but their number is bounded),
of clients or of a send's success.

## The proofs

For every value of the constants (any number of rows, loops, instances,
recipients, requests, attempts and faults):

| Module | Theorem | Under |
|---|---|---|
| `DeliveryQueueProofs` | `TypeCorrect` | the constants' assumptions |
| | `AttemptsAreAccounted` (and bounded), `DuplicatesAreExplained`, `AuditIsTruthful`, `EndedRowsStayEnded` | |
| | `ClaimsAreExclusive`; `QueueKeepsPromise`: the queue implements `DeliveryPromise`, safety part | |
| | `UntakenRowsAreSentOnce` | no fault but lost claims |
| `EmailEventsProofs` | `TypeCorrect`, `StatusIsAlwaysGravest`, `AlertsAreRight`, `ClientsSeeUndelivered`, `ReportsAreKept` | |
| `TrackingProofs` | `QueueKeepsEvents`: the composition implements `EmailEvents` | |
| | `TrackedQueueIsAccounted`, `TrackedHistoryIsRight`: what is proved of the two modules holds of them together | |
| | `TrackedRowsKeepOneEmail`, `TrackedReportsAreKept`, `TrackingTypeCorrect` | |
| | `TrackedClaimsAreExclusive`; `TrackedQueueKeepsPromise`: it implements `DeliveryPromise`, safety part | |
| `InboundJobsProofs` | `TypeCorrect`, `JobsAreExclusive`, `GivenUpJobsStay`, `TriesAreAccounted` | |
| | `NothingIsForgotten` | no answer of the backend is cut short |
| `PushFanoutProofs` | `TypeCorrect`, `RecordsAreTruthful`, `RepushesAreExplained`, `SentMeansAll` | |
| | `StayingDevicesArePushedOnce` | no fault, the device stays its recipient's, the row is not overtaken |
| `CreateNotificationProofs` | `LookupsAreInForce` (of `Preferences`), `CreatingFollowsPreferences`, `TypeCorrect`, `OptOutsAreHonoured`, `LogAgrees`, `RefusalsLeaveNothing`, `EmailsAreWhole`, `NothingIsMissing`, `DuplicatesAreExplained` | |
| `AuditTrailProofs` | `TypeCorrect`, `LossesAreExplained`, `ConnectedEntriesAreFlushed`, `PagesAreExplained` | |
| `FeedProofs` | `TypeCorrect`, `PagesAreExplained` | |

Three of them are the counterparts of violated runs: `UntakenRowsAreSentOnce`,
`StayingDevicesArePushedOnce` and `ConnectedEntriesAreFlushed` say of which
rows, devices and entries the sentence the run refutes is true.

**Queue.** What holds whatever the timing is a matter of budgets. A loop that
holds a row will attempt it whether or not the row is still its own, so the
bound on what has happened is not inductive; the bound on what has happened and
may yet happen is. `Pend` counts the loops that hold a row and have yet to
attempt it. `SendBudget` says that the messages taken and those pending are the
first and those paid for by a lost result, a late answer or a claim from under a
loop, all of them when another attempt is to come. `TryBudget` says the same of
attempts against the column, and against each loop's snapshot of it, because any
of the loops may write its own. `BudgetInv` is the two of every row.

`Calm` adds what holds of a row that was never overtaken: one loop holds it, its
status is `processing`, the loop's snapshot is the row's, so no count is
overwritten by a stale one and an ended row is in nobody's batch. It gives
`EndedRowsStayEnded`, the promise and the audit trail of such a row. Of the
others, `CountsMade` says that no column and no snapshot counts an attempt that
was not made, whoever wrote it; so an entry `delivery.failed`, which a loop
writes by its own snapshot, comes after `MaxAttempts` attempts (`TrailBacked`).

That a row is taken only from a loop that has held it long is not inductive: nothing
in `ClaimExclusive` speaks of a row's age. The strengthening is `HeldLonger`: a
row in a loop's batch is no older than the loop's hold of it, for a claim starts
both, whoever writes the row makes it younger, and `Tick` advances both. So the
age that `ClaimDue` asks for is time the loop has held the row. `SendBudget` with
nothing lost, late or overtaken is `UntakenRowsAreSentOnce`.

**Events.** `Owned` ties each recorded report to the row whose email it is
about; with it `StatusIsGravest` is inductive, for the new status is the greater
of two ranks. `AlertsReached` (no alert is graver than the status) makes a new
alert graver than those before it.

`DropInv` says of each relevant report that was answered, is not in the log and
did not come early that its email is in no loop's hands and on no row: no row
will ever carry it.

**Both.** In `TrackingProofs` a webhook may make a row in `processing` younger.
`BudgetInv` and `Calm` do not mention ages, so they are kept, and `HeldLonger`
only gains by it. `Bridge`
says what the loops know of messages: an id in a loop's hands is of a message the
provider took for the row the loop holds, no two loops have the same one, and a
row that carries an id is sent unless it was overtaken. From the two follows that
each step of the composition is one `EmailEvents` allows. The theorems of `EmailEventsProofs` then hold of the
composition by `INSTANCE`.

**Replies.** Here claims are exclusive, by `HeldFresh`: a job in a worker's hand
is no older than the attempt, which takes at most one unit, and the threshold is
more than one. `TriesAccounted` is inductive with it, for the worker's count is
then the row's. For `NothingForgotten`, `Minds`
follows a handler: the files of its mail are wanted or copied until it has
queued them, and kept (copied, gone or with a job) afterwards; `KeptStays` says
that no step makes a kept file less, because `Honest` results are the only ones
to delete a job. The hypothesis is the one whose absence the run
`inbound_truncated_answer` shows.

**Push.** A budget as the queue's: `Pushing` are the workers whose attempt may
still push a device, and `Counted` says that the pushes made and those pending are
at most one more than what was forgotten of the device (by a crash, a lost UPDATE,
an attempt that fails before listing, or a worker that writes its record over
another's) and the claims from under a worker; and no more than that where neither
the row nor an attempt knows of the device, so that the next attempt's push is paid
for. Nothing in it mentions who owns an endpoint now, so it is kept by anybody's
subscribing or leaving; that ids are never used twice is part of `TypeInv`.
`Truthful` says of each worker that what it has passed over or reached was
pushed, from which follow `ResponseTruthful` and `SentLeavesNone`.

For `StayingDevicesArePushedOnce`, `RowKnows` and `WorkerKnows` say that nothing is
forgotten of a device that stays: whenever the row or the attempt in hand knows of
it, it is the recipient's, so it is listed for each attempt, passed over, and written
again with its outcome; `Alone`, that until the row is overtaken one worker has it,
as it is in the table. The hypothesis about the device is needed even without faults, as
*Observed without a run* says.

**Settings.** A lookup reads the defaults, then the override. `HalfwayWitness`
says that between the two the merge of what is stored *now* has been in force
during the lookup, and so have, channel by channel, the defaults read for
whatever the user still inherits. The second half survives changes because an
override is written by `COALESCE`: no statement turns one back to inherited.

**Creating.** A request's settings are fixed while it plans and used while it
creates. `Progress` says where its handler is, `RowsOfNotes` and `NotesBehind`
what may be written by then (which is why a refusal leaves nothing),
`PlanSeen` that each plan is a result of a lookup, from `LookupsAreInForce` by
`CreatingFollowsPreferences`, `ShownAsPlanned` that the notification in hand is
in the feed exactly if its plan says so.

Three invariants ride on that one. `FileInv`: by the time the email's row is
written, and the worker may take it, the attachment is there or a fault has cost
it. `WorkInv` follows the handler through the statements: each one passed has
left its row or one of the excuses `NothingMissing` names (with `PlanSeen`, a
setting that left a channel out was in force), and no later statement takes one
back (`Grows`). `TurnInv`: finitely many requests have been sent, and all but
the latest of them were given up or failed, so of those whose notification the
service may know of there is at most one. Hence no bound on the repetitions is
assumed for `DuplicatesExplained`.

**Audit.** `FlushInv` says that once the pool is being closed, whatever has no
connection was counted in `unflushed` when it was closed, the entries of handlers
that had yet to record among them. `DownInv` adds that nothing a shutdown found
on its way is still on its way when the process is down: it was written, or it
is one of the excepted.

**Paging.** Neither property is inductive: that all has been seen at the end
follows from what is still to come on each page before. `LeftAhead` says that
a row that was there at first and has not been shown has a rank beyond the pages
that are over, `ShownBehind` that a row that was shown has a rank within them.
In `Feed` a row that arrives only raises ranks, which keeps the first, and one
that is marked read only lowers them, which keeps the second. What breaks one of them
is remembered (an arrival between COUNT and SELECT in `raced`, a row read in
`cleared`, an arrival at any time in `moved`) and is what the property excepts.
`CountKept` says that the total a page was promised is what there is to list,
and `LastPageReachesEnd` that a page without `hasMore` leaves nothing beyond it.

The audit list has no order of its own: each SELECT chooses one among entries of
an instant. The rank of an entry is taken as the number of entries that every
order puts before it. `CutAtRank` says that an order without a tie at a place is
cut there as ranks are (the entries before the place are those of smaller rank),
so a page without a tie at either end lists the entries of its ranks; an entry
written later comes before all of them.

Only model-checked: liveness (`RowsEnd`, `FilesSettle`,
`EventuallyEnds`, `ReportsReachTheLog`), which is beyond this prover. Every other
property of a passing run, invariant or action property, is a theorem. Of
`RetrySchedule`, whose exponent and recursion are beyond it too, the proofs use
nothing: they hold for any `Backoff`.

## Observed without a run

Modelling met these places too, where the code does not do what is written of
it, or less than a reader may expect:

* `Create` says of its two passes that preferences are resolved only after
  validation. They alternate, recipient by recipient, so an invalid entry at
  the end comes after the lookups of all before it. Nothing is written by then,
  which is what `RefusalLeavesNothing` needs.
* A page of the feed is one COUNT and one SELECT outside a transaction, so
  `hasMore` may be stale; the exceptions in `PagesExplained` are that, and for the
  audit list also that entries of one instant have no order.
* The audit list is ordered by `created_at` without a tie-break.
* The record of the devices reached keeps only those the attempt listed. A device
  that was reached, is another user's during one attempt (which some other device
  makes fail) and comes back is pushed again, without any fault. Of devices that
  stay the sentence `push_again` checks is proved.
* The recovery of a row stuck in `processing` counts nothing. `deliveries/store.go:25`
  says it is recovered "as if it were a failed attempt", `workers/retry.go:14` speaks
  of "treating them as a failed attempt", and the reliability design (2026-07-23,
  line 173) of "attempts++, backoff applied". `ClaimDue` leaves `attempts` and
  `next_attempt_at` as they are and the row is attempted at once, so a row may be
  attempted once more than `MaxAttempts` for each result that was lost.
  `AttemptsAccounted` states what the code does; a message whose every attempt ends
  in a crash would be attempted without end.
* The `Store` of `emailevents` says that the alert is raised "on the first problem
  state" (`emailevents/store.go:53`). The code raises one at each rise into a graver
  problem, so a delay that becomes a bounce alerts twice. `AlertsEscalate` states
  what the code does.
* A failed lookup of a recipient's settings counts as all channels on, as a comment
  in `Create`, the service's README and the design's line 170 say ("fail open"); line
  92 of the same design says it "fails closed" for the optional channels.
* `forward.go:62` and a test of it take a body that is not the expected JSON for
  an older backend's answer without files. Of those that is right; the run
  `inbound_truncated_answer` is about an answer that named files and was cut off.
* A push, an SMTP call and the database's calls have no timeout: an endpoint
  that hangs stops its loop for good. The liveness properties say so in their
  hypotheses (*Fairness*).
* A row that has failed, or been sent, may still have its provider status
  changed by later webhooks about its email: intended, and why the client's
  state reads the provider first.

## Not modelled

* Signatures of webhooks and of forwarded mails, JWTs, permissions: pure checks
  in front of a handler. What they refuse has changed nothing.
* The building and parsing of messages, HTML to text, headers, threads: no
  property here tells them apart.
* Postgres, the two email providers, push services and the backend: external,
  modelled by what they may answer.
* Which handler writes which audit entry, and the entries' texts.
* Configuration, migrations, scripts.

## Plan

Done, in this order: queue and promise, its proofs; email events and proofs;
received replies; push; preferences, creation and proofs; feed; audit trail and
shutdown; the queue composed with its webhooks, and proofs; proofs of replies
and push; the rest of creation's properties as theorems; paging, of the feed and of
the audit list; the queue, the composition and the push fan-out with attempts of any
length; the counterparts of the violated runs as theorems.

Next: pure functions against a reference (access rules by role and resource, the
webhook's timestamp window, retry schedules).
