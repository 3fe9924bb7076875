---------------------------- MODULE DeliveryQueue ----------------------------
(***************************************************************************)
(* The work queue in notification_deliveries (src/deliveries) and the two  *)
(* polling loops that drain it (src/workers), running in several instances *)
(* of the service against one database.                                    *)
(*                                                                         *)
(* A database statement is one step.  An attempt is two steps, the call to *)
(* the provider and the UPDATE that records its result, so crashes, lost   *)
(* UPDATEs and the other loops fall between them.                          *)
(*                                                                         *)
(* An attempt may take any time, and may never end: of the calls it makes  *)
(* only the one to Resend has a timeout.  Time passes meanwhile, in units  *)
(* that nothing depends on.  Timers are relative, so runs need no bound on *)
(* the clock: age is the time since updated_at of a row in processing,     *)
(* wait what is left of next_attempt_at.                                   *)
(***************************************************************************)
EXTENDS Naturals, FiniteSets

CONSTANTS
  Delivery,     \* rows, numbered in the order of created_at
  Email,        \* the rows of channel email; the others are channel push
  Instance,     \* running copies of the service
  BatchSize,    \* deliveryBatchSize
  MaxAttempts,  \* deliveries.MaxAttempts
  StaleAfter,   \* staleProcessingThreshold
  Backoff,      \* backoff(n)
  Fault,        \* the kinds of fault that may happen
  FaultBudget   \* bound: how many faults happen in one behaviour

FaultKind == {"crash", "stop", "claim", "mark", "late"}

ASSUME RowAssumption == /\ Delivery \subseteq Nat \ {0}
                        /\ IsFiniteSet(Delivery)
                        /\ Email \subseteq Delivery
ASSUME LimitAssumption == /\ BatchSize \in Nat \ {0}
                          /\ MaxAttempts \in Nat \ {0}
                          /\ StaleAfter \in Nat \ {0}
                          /\ Backoff \in [1..MaxAttempts -> Nat]
ASSUME FaultAssumption == /\ Fault \subseteq FaultKind
                          /\ FaultBudget \in Nat

VARIABLES
  \* the table
  status,     \* column status; "absent" until the row is inserted
  attempts,   \* column attempts
  wait,       \* time until next_attempt_at, 0 once it is due
  age,        \* time since updated_at while the row is in processing
  \* each loop's memory
  batch,      \* claimed rows the loop has not finished
  seen,       \* attempts of those rows as the claim returned it
  cur,        \* the row whose attempt is made and not yet recorded
  result,     \* the result of that attempt
  mode,       \* each instance: up, stopping or down
  \* history
  heldFor,    \* time since the loop claimed its batch, up to StaleAfter
  tries,      \* attempts made
  lost,       \* attempts whose result never reached the row
  late,       \* calls that failed here though the provider took the message
  accepted,   \* times the provider took the message
  overtaken,  \* times the row was claimed from under a loop that still held it
  audited,    \* delivery.sent / delivery.failed audit entries recorded
  faults      \* faults left

table   == <<status, attempts, wait, age>>
hand    == <<batch, seen, cur, result, heldFor>>
history == <<tries, lost, late, accepted, overtaken, audited>>
vars    == <<table, hand, mode, history, faults>>

NoRow == 0

Terminal == {"sent", "failed", "skipped"}
Status   == {"absent", "pending", "processing", "retrying"} \cup Terminal
Result   == {"ok", "error", "late", "nosubs"}
Worker   == Instance \X {"consumer", "retry"}

InHand(d) == \E w \in Worker : cur[w] = d
Held(d)   == \E w \in Worker : d \in batch[w]

Loops(i) == {w \in Worker : w[1] = i}
Up(w)    == mode[w[1]] = "up"
Idle(w)  == batch[w] = {}

TypeOK ==
  /\ status \in [Delivery -> Status]
  /\ attempts \in [Delivery -> 0..MaxAttempts]
  /\ wait \in [Delivery -> Nat]
  /\ age \in [Delivery -> 0..StaleAfter]
  /\ batch \in [Worker -> SUBSET Delivery]
  /\ seen \in [Worker -> [Delivery -> 0..MaxAttempts]]
  /\ cur \in [Worker -> Delivery \cup {NoRow}]
  /\ result \in [Worker -> Result]
  /\ heldFor \in [Worker -> 0..StaleAfter]
  /\ mode \in [Instance -> {"up", "stopping", "down"}]
  /\ tries \in [Delivery -> Nat]
  /\ lost \in [Delivery -> Nat]
  /\ late \in [Delivery -> Nat]
  /\ accepted \in [Delivery -> Nat]
  /\ overtaken \in [Delivery -> Nat]
  /\ audited \in [Delivery -> SUBSET {"sent", "failed"}]
  /\ faults \in 0..FaultBudget

Init ==
  /\ status = [d \in Delivery |-> "absent"]
  /\ attempts = [d \in Delivery |-> 0]
  /\ wait = [d \in Delivery |-> 0]
  /\ age = [d \in Delivery |-> 0]
  /\ batch = [w \in Worker |-> {}]
  /\ seen = [w \in Worker |-> [d \in Delivery |-> 0]]
  /\ cur = [w \in Worker |-> NoRow]
  /\ result = [w \in Worker |-> "ok"]
  /\ heldFor = [w \in Worker |-> 0]
  /\ mode = [i \in Instance |-> "up"]
  /\ tries = [d \in Delivery |-> 0]
  /\ lost = [d \in Delivery |-> 0]
  /\ late = [d \in Delivery |-> 0]
  /\ accepted = [d \in Delivery |-> 0]
  /\ overtaken = [d \in Delivery |-> 0]
  /\ audited = [d \in Delivery |-> {}]
  /\ faults = FaultBudget

Spend(kind) == /\ kind \in Fault
               /\ faults > 0
               /\ faults' = faults - 1
-----------------------------------------------------------------------------
(* Slips: definitions of the next two sections with a plausible bug each.  *)
(* Every property of this module is broken by one of them.                 *)

\* The claim counts the attempt it is about to make.
FlipCounting(rows) ==
  /\ status' = [d \in Delivery |-> IF d \in rows THEN "processing" ELSE status[d]]
  /\ age' = [d \in Delivery |-> IF d \in rows THEN 0 ELSE age[d]]
  /\ attempts' = [d \in Delivery |-> IF d \in rows THEN attempts[d] + 1 ELSE attempts[d]]
  /\ UNCHANGED wait

\* The recovery clause forgets to ask how long a row has been in processing.
DueAtOnce == {d \in Delivery : \/ status[d] = "retrying" /\ wait[d] = 0
                               \/ status[d] = "processing"}

\* The retry query takes up failed rows too.
DueWithFailed == {d \in Delivery :
  \/ status[d] \in {"retrying", "failed"} /\ wait[d] = 0
  \/ status[d] = "processing" /\ age[d] >= StaleAfter}

\* The retry query has no recovery clause.
DueWithoutRecovery == {d \in Delivery : status[d] = "retrying" /\ wait[d] = 0}

\* The UPDATE records the provider's response but not the status.
MarkSentLeavesStatus(d) == UNCHANGED <<status, attempts, wait>>

\* The UPDATE forgets the attempts column.
MarkRetryingUncounted(d, n) ==
  /\ status' = [status EXCEPT ![d] = IF n >= MaxAttempts THEN "failed" ELSE "retrying"]
  /\ wait' = [wait EXCEPT ![d] = Backoff[n]]
  /\ UNCHANGED attempts

\* An email without a recipient is skipped like a push without subscriptions.
AttemptSkipsEmail(w, d, r) ==
  /\ mode[w[1]] # "down"
  /\ d \in batch[w]
  /\ cur[w] = NoRow
  /\ mode[w[1]] = "stopping" => r = "error"
  /\ \/ r # "late" /\ UNCHANGED faults
     \/ r = "late" /\ Spend("late")
  /\ cur' = [cur EXCEPT ![w] = d]
  /\ result' = [result EXCEPT ![w] = r]
  /\ tries' = [tries EXCEPT ![d] = @ + 1]
  /\ accepted' = IF r \in {"ok", "late"} THEN [accepted EXCEPT ![d] = @ + 1]
                                         ELSE accepted
  /\ late' = IF r = "late" THEN [late EXCEPT ![d] = @ + 1] ELSE late
  /\ UNCHANGED <<table, batch, seen, heldFor, mode, lost, overtaken, audited>>

\* The failure is audited one attempt early.
EntryEarly(w) ==
  (IF result[w] = "ok" THEN {"sent"} ELSE {}) \cup
  (IF result[w] \in {"error", "late"} /\ seen[w][cur[w]] + 2 >= MaxAttempts
   THEN {"failed"} ELSE {})
-----------------------------------------------------------------------------
(* The store *)

\* An email or push row is inserted as pending, due at once.
Enqueue(d) ==
  /\ status[d] = "absent"
  /\ \A e \in Delivery : e < d => status[e] # "absent"
  /\ status' = [status EXCEPT ![d] = "pending"]
  /\ UNCHANGED <<attempts, wait, age, hand, mode, history, faults>>

Pending == {d \in Delivery : status[d] = "pending" /\ wait[d] = 0}

Due == {d \in Delivery : \/ status[d] = "retrying" /\ wait[d] = 0
                         \/ status[d] = "processing" /\ age[d] >= StaleAfter}

\* ORDER BY created_at LIMIT BatchSize
Claimable(S, rows) ==
  /\ rows # {}
  /\ rows \subseteq S
  /\ Cardinality(rows) <= BatchSize
  /\ rows = S \/ Cardinality(rows) = BatchSize
  /\ \A d \in rows, e \in S \ rows : d < e

\* The claiming UPDATE: it does not touch attempts.
Flip(rows) ==
  /\ status' = [d \in Delivery |-> IF d \in rows THEN "processing" ELSE status[d]]
  /\ age' = [d \in Delivery |-> IF d \in rows THEN 0 ELSE age[d]]
  /\ UNCHANGED <<attempts, wait>>

Hold(w, rows) ==
  /\ batch' = [batch EXCEPT ![w] = rows]
  /\ seen' = [seen EXCEPT ![w] =
                [d \in Delivery |-> IF d \in rows THEN attempts[d] ELSE 0]]
  /\ heldFor' = [heldFor EXCEPT ![w] = 0]
  /\ UNCHANGED <<cur, result>>

\* The claim does not ask whether another loop still holds the row.
Overtake(rows) ==
  overtaken' = [d \in Delivery |->
                  IF d \in rows /\ Held(d) THEN overtaken[d] + 1 ELSE overtaken[d]]

\* What each loop's poll selects.
Eligible(w) == IF w[2] = "consumer" THEN Pending ELSE Due

Claim(w) ==
  /\ Up(w) /\ Idle(w)
  /\ \E rows \in SUBSET Delivery :
       /\ Claimable(Eligible(w), rows)
       /\ Flip(rows)
       /\ Hold(w, rows)
       /\ Overtake(rows)
  /\ UNCHANGED <<mode, tries, lost, late, accepted, audited, faults>>

\* The claim commits but the loop gets an error instead of the rows.
ClaimLost(w) ==
  /\ Up(w) /\ Idle(w)
  /\ Spend("claim")
  /\ \E rows \in SUBSET Delivery : Claimable(Eligible(w), rows) /\ Flip(rows)
  /\ UNCHANGED <<hand, mode, history>>
-----------------------------------------------------------------------------
(* One attempt *)

\* An attempt in an instance that is shutting down fails on its first read,
\* its context being cancelled.  "late" is a call that fails here, by a timeout
\* or a broken connection, after the provider took the message.
Attempt(w, d, r) ==
  /\ mode[w[1]] # "down"
  /\ d \in batch[w]
  /\ cur[w] = NoRow
  /\ mode[w[1]] = "stopping" => r = "error"
  /\ r = "nosubs" => d \notin Email
  /\ \/ r # "late" /\ UNCHANGED faults
     \/ r = "late" /\ Spend("late")
  /\ cur' = [cur EXCEPT ![w] = d]
  /\ result' = [result EXCEPT ![w] = r]
  /\ tries' = [tries EXCEPT ![d] = @ + 1]
  /\ accepted' = IF r \in {"ok", "late"} THEN [accepted EXCEPT ![d] = @ + 1]
                                         ELSE accepted
  /\ late' = IF r = "late" THEN [late EXCEPT ![d] = @ + 1] ELSE late
  /\ UNCHANGED <<table, batch, seen, heldFor, mode, lost, overtaken, audited>>

\* The loop drops the row in hand and goes on with the rest of its batch.
Release(w) ==
  /\ batch' = [batch EXCEPT ![w] = @ \ {cur[w]}]
  /\ seen' = [seen EXCEPT ![w][cur[w]] = 0]
  /\ cur' = [cur EXCEPT ![w] = NoRow]
  /\ result' = [result EXCEPT ![w] = "ok"]
  /\ heldFor' = [heldFor EXCEPT ![w] = IF batch[w] = {cur[w]} THEN 0 ELSE @]

NextAttempts(w) == seen[w][cur[w]] + 1

RetryStatus(n) == IF n >= MaxAttempts THEN "failed" ELSE "retrying"

\* The three UPDATEs are by id alone: they ask neither for the status nor for
\* who claimed the row.
MarkSent(d) == /\ status' = [status EXCEPT ![d] = "sent"]
               /\ UNCHANGED <<attempts, wait>>

MarkSkipped(d) == /\ status' = [status EXCEPT ![d] = "skipped"]
                  /\ UNCHANGED <<attempts, wait>>

MarkRetrying(d, n) == /\ status' = [status EXCEPT ![d] = RetryStatus(n)]
                      /\ attempts' = [attempts EXCEPT ![d] = n]
                      /\ wait' = [wait EXCEPT ![d] = Backoff[n]]

\* A slip: the call's error is lost on the way and the attempt marked sent.
MarkWithoutError(w) == \/ result[w] = "nosubs" /\ MarkSkipped(cur[w])
                       \/ result[w] # "nosubs" /\ MarkSent(cur[w])

Mark(w) == \/ result[w] = "ok" /\ MarkSent(cur[w])
           \/ result[w] = "nosubs" /\ MarkSkipped(cur[w])
           \/ /\ result[w] \in {"error", "late"}
              /\ MarkRetrying(cur[w], NextAttempts(w))

\* The audit entry an attempt leaves, whether or not its UPDATE succeeded.
Entry(w) ==
  (IF result[w] = "ok" THEN {"sent"} ELSE {}) \cup
  (IF result[w] \in {"error", "late"} /\ NextAttempts(w) >= MaxAttempts
   THEN {"failed"} ELSE {})

Record(w) == audited' = [audited EXCEPT ![cur[w]] = @ \cup Entry(w)]

Settle(w) ==
  /\ Up(w) /\ cur[w] # NoRow
  /\ Mark(w)
  /\ age' = [age EXCEPT ![cur[w]] = 0]
  /\ Record(w)
  /\ Release(w)
  /\ UNCHANGED <<mode, tries, lost, late, accepted, overtaken, faults>>

\* The UPDATE fails, always so once the context is cancelled: the error is
\* only logged and the row stays in processing.
SettleLost(w) ==
  /\ mode[w[1]] # "down" /\ cur[w] # NoRow
  /\ \/ ~Up(w) /\ UNCHANGED faults
     \/ Up(w) /\ Spend("mark")
  /\ lost' = [lost EXCEPT ![cur[w]] = @ + 1]
  /\ Record(w)
  /\ Release(w)
  /\ UNCHANGED <<table, mode, tries, late, accepted, overtaken>>
-----------------------------------------------------------------------------
(* The process and the clock *)

\* SIGTERM cancels the loops' context; the process is still running.
Stop(i) ==
  /\ mode[i] = "up"
  /\ Spend("stop")
  /\ mode' = [mode EXCEPT ![i] = "stopping"]
  /\ UNCHANGED <<table, hand, history>>

\* The process ends and with it everything its loops held in memory: by a
\* crash, or at the end of a shutdown, which waits for no loop.
Exit(i) ==
  /\ \/ mode[i] = "stopping" /\ UNCHANGED faults
     \/ mode[i] = "up" /\ Spend("crash")
  /\ mode' = [mode EXCEPT ![i] = "down"]
  /\ lost' = [d \in Delivery |->
                IF \E w \in Loops(i) : cur[w] = d THEN lost[d] + 1 ELSE lost[d]]
  /\ batch' = [w \in Worker |-> IF w \in Loops(i) THEN {} ELSE batch[w]]
  /\ seen' = [w \in Worker |-> IF w \in Loops(i) THEN [d \in Delivery |-> 0]
                                                ELSE seen[w]]
  /\ cur' = [w \in Worker |-> IF w \in Loops(i) THEN NoRow ELSE cur[w]]
  /\ result' = [w \in Worker |-> IF w \in Loops(i) THEN "ok" ELSE result[w]]
  /\ heldFor' = [w \in Worker |-> IF w \in Loops(i) THEN 0 ELSE heldFor[w]]
  /\ UNCHANGED <<table, tries, late, accepted, overtaken, audited>>

Restart(i) ==
  /\ mode[i] = "down"
  /\ mode' = [mode EXCEPT ![i] = "up"]
  /\ UNCHANGED <<table, hand, history, faults>>

\* Time passes, whatever the loops are in the middle of.
Tick ==
  /\ heldFor' = [w \in Worker |->
                   IF ~Idle(w) /\ heldFor[w] < StaleAfter THEN heldFor[w] + 1
                                                         ELSE heldFor[w]]
  /\ age' = [d \in Delivery |->
               IF status[d] = "processing" /\ age[d] < StaleAfter
               THEN age[d] + 1 ELSE age[d]]
  /\ wait' = [d \in Delivery |-> IF wait[d] > 0 THEN wait[d] - 1 ELSE 0]
  /\ UNCHANGED <<status, attempts, batch, seen, cur, result, mode, history, faults>>

Poll(w) == Claim(w) \/ ClaimLost(w)

Step(w) == \/ \E d \in Delivery, r \in Result : Attempt(w, d, r)
           \/ Settle(w)
           \/ SettleLost(w)

Process(i) == Stop(i) \/ Exit(i) \/ Restart(i)

Next == \/ \E d \in Delivery : Enqueue(d)
        \/ \E w \in Worker : Poll(w) \/ Step(w)
        \/ \E i \in Instance : Process(i)
        \/ Tick

SafeSpec == Init /\ [][Next]_vars

\* Both loops poll on a ticker while they are idle, a stopping process ends
\* and is started again, and time passes.  Nothing is assumed of clients, of
\* faults, of the provider, or of an attempt: one may hang for ever.
Fairness ==
  /\ \A w \in Worker : WF_vars(Claim(w))
  /\ \A i \in Instance : WF_vars(Restart(i)) /\ WF_vars(mode[i] = "stopping" /\ Exit(i))
  /\ WF_vars(Tick)

Spec == SafeSpec /\ Fairness
-----------------------------------------------------------------------------
(* Properties *)

\* Two loops hold the same row only where one of them took it from under the
\* other, which had then held it for StaleAfter at least: what claiming with
\* FOR UPDATE SKIP LOCKED and the stale threshold come to when an attempt may
\* take any time.  (A row taken twice may be held by two newcomers.)
ClaimExclusive ==
  \A v, w \in Worker : v # w => \A d \in batch[v] \cap batch[w] :
    /\ overtaken[d] > 0
    /\ overtaken[d] = 1 => StaleAfter \in {heldFor[v], heldFor[w]}

\* Every attempt made on a row that was never overtaken is in its attempts
\* column, or was lost with its UPDATE, or is the one in hand, or is the one
\* that ended the row.  Taking a stuck row over adds nothing to the column
\* although retry.go:14 speaks of "treating them as a failed attempt": the lost
\* attempt is never counted.
AttemptsCounted ==
  \A d \in Delivery : overtaken[d] = 0 =>
    tries[d] = attempts[d] + lost[d]
                 + (IF status[d] \in {"sent", "skipped"} \/ InHand(d) THEN 1 ELSE 0)

\* A row is attempted at most MaxAttempts times beyond the attempts whose
\* result was lost on the way to the table and the claims that overtook it.
AttemptsBounded ==
  \A d \in Delivery : tries[d] <= MaxAttempts + lost[d] + overtaken[d]

\* The attempts column never forgets an attempt that was recorded, nor counts
\* one twice, whoever claims the row in between; so attempts do not go on for
\* ever.
AttemptsAccounted == AttemptsCounted /\ AttemptsBounded

\* The provider takes a message more than once only if the result of an
\* earlier attempt was lost, its answer came too late, or another loop claimed
\* the row while it was held.
DuplicatesExplained ==
  \A d \in Delivery : accepted[d] <= 1 + lost[d] + late[d] + overtaken[d]

\* An entry is written though the UPDATE it goes with may have failed, and by a
\* loop that may have lost the row.  All the same the audit trail says
\* delivery.sent only of a message the provider took, and delivery.failed only
\* after MaxAttempts attempts; and of a row whose results all reached it and
\* that no claim took from under a loop, only the ending that it has.
AuditTruthful ==
  \A d \in Delivery :
    /\ "sent" \in audited[d] => accepted[d] > 0
    /\ "failed" \in audited[d] => tries[d] >= MaxAttempts
    /\ lost[d] = 0 /\ overtaken[d] = 0 => audited[d] \subseteq {status[d]}

\* A row that ended keeps its status for ever, whatever a restarted or second
\* worker does afterwards, unless two loops held it at once.
TerminalIsFinal ==
  [][\A d \in Delivery : status[d] \in Terminal /\ overtaken[d] = 0
                           => status'[d] = status[d]]_vars

\* README.md:159, "multiple instances never double-send": the provider takes
\* no message twice, in a run where nothing fails.
NeverDoubleSent == \A d \in Delivery : accepted[d] <= 1

\* The queue implements the promise: refinement to DeliveryPromise, a row being
\* contested once a claim took it from under a loop.
Promise == INSTANCE DeliveryPromise WITH
  outcome   <- [d \in Delivery |->
                  IF status[d] \in Terminal \cup {"absent"} THEN status[d] ELSE "open"],
  delivered <- {d \in Delivery : accepted[d] > 0},
  contested <- {d \in Delivery : overtaken[d] > 0}

\* Every step of the queue is one the promise allows: a row ends once and in
\* one way, and stays ended, unless it was taken from under a loop.
KeepsPromise == Promise!SafeSpec

\* No loop is in an attempt for ever: it comes back to its poll again and again.
NoLoopHangs == \A w \in Worker : []<>Idle(w)

\* Unless an attempt hangs for ever, every enqueued row ends and stays ended:
\* neither a crash, a lost result, a claim nobody heard of nor two loops at work
\* on the row leave it open, or reopen it again and again.
RowsEnd == NoLoopHangs => Promise!RowsEnd

=============================================================================
