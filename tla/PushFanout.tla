------------------------------ MODULE PushFanout ------------------------------
(***************************************************************************)
(* One push delivery: the fan-out of a notification to the devices its     *)
(* recipient has subscribed (src/workers/dispatch.go, attemptPush), over   *)
(* as many attempts as it takes, while devices come and go                 *)
(* (src/pushsubs, src/controllers/push.go).                                *)
(*                                                                         *)
(* The row's timers are left out: a row that has not ended may be claimed  *)
(* at any time, from under a worker too, as DeliveryQueue shows it may be  *)
(* once that worker's attempt has taken long enough.  Each worker goes by  *)
(* the row as its claim returned it, and writes by id alone.               *)
(***************************************************************************)
EXTENDS Naturals, FiniteSets

CONSTANTS
  Endpoint,     \* browsers' push endpoints
  Worker,       \* the loops, of all instances
  MaxAttempts,  \* deliveries.MaxAttempts
  MaxId,        \* bound: how many subscriptions are ever inserted
  Fault,        \* the kinds of fault that may happen
  FaultBudget   \* bound: how many faults happen in one behaviour

FaultKind == {"load", "mark", "crash", "unheard", "delete"}

ASSUME FanoutAssumption == /\ IsFiniteSet(Worker)
                           /\ MaxAttempts \in Nat \ {0}
                           /\ MaxId \in Nat
                           /\ Fault \subseteq FaultKind
                           /\ FaultBudget \in Nat

Id == 1..MaxId

VARIABLES
  \* push_subscriptions
  owner,      \* whose the endpoint is: the recipient's, someone else's, none's
  id,         \* the id of the endpoint's row, 0 before its first
  inserted,   \* rows inserted so far
  \* the delivery's row
  status, attempts,
  response,   \* provider_response: the ids it says were sent to
  hand,       \* what each worker has of the delivery, a Hand
  \* history
  pushed,     \* times the push service took the message for an id
  forgotten,  \* times the row lost what it knew, or should know, of an id
  overtaken,  \* times the row was claimed while a worker had it
  faults      \* faults left

subscriptions == <<owner, id, inserted>>
row  == <<status, attempts, response>>
history == <<pushed, forgotten, overtaken>>
vars == <<subscriptions, row, hand, history, faults>>

Terminal == {"sent", "failed", "skipped"}

Hand == [phase    : {"idle", "claimed", "sending"},
         prior    : SUBSET Id,               \* provider_response, as claimed
         seen     : 0..MaxAttempts,          \* attempts, as claimed
         listed   : SUBSET (Endpoint \X Id), \* the subscriptions it is for
         todo     : SUBSET (Endpoint \X Id), \* those still to be tried
         outcomes : SUBSET Id,               \* ids it will write as sent
         allSent  : BOOLEAN,                 \* no endpoint has failed in it
         taken    : SUBSET Id,               \* history: ids it got a message to
         dead     : SUBSET (Endpoint \X Id)] \* history: those found gone

Idle == [phase |-> "idle", prior |-> {}, seen |-> 0, listed |-> {}, todo |-> {},
         outcomes |-> {}, allSent |-> TRUE, taken |-> {}, dead |-> {}]

Answer == {"ok", "error", "unheard"}

Holds(w) == hand[w].phase # "idle"

TypeOK ==
  /\ owner \in [Endpoint -> {"none", "recipient", "other"}]
  /\ id \in [Endpoint -> 0..MaxId]
  /\ inserted \in 0..MaxId
  /\ status \in {"open", "processing"} \cup Terminal
  /\ attempts \in 0..MaxAttempts
  /\ response \subseteq Id
  /\ hand \in [Worker -> Hand]
  /\ pushed \in [Id -> Nat]
  /\ forgotten \in [Id -> Nat]
  /\ overtaken \in Nat
  /\ faults \in 0..FaultBudget

Init ==
  /\ owner = [e \in Endpoint |-> "none"]
  /\ id = [e \in Endpoint |-> 0]
  /\ inserted = 0
  /\ status = "open" /\ attempts = 0 /\ response = {}
  /\ hand = [w \in Worker |-> Idle]
  /\ pushed = [i \in Id |-> 0]
  /\ forgotten = [i \in Id |-> 0]
  /\ overtaken = 0
  /\ faults = FaultBudget

Spend(kind) == /\ kind \in Fault
               /\ faults > 0
               /\ faults' = faults - 1
-----------------------------------------------------------------------------
(* Slips: definitions below with a plausible bug each *)

\* A failed endpoint is written as sent.
KeepsEveryOutcome(w, i, r) == hand[w].outcomes \cup {i}

\* The row's record is not read: every device is pushed on every attempt.
PriorIgnored(w) == {}

\* A failed endpoint does not count against the attempt.
AllSentAnyway(w, r) == TRUE

\* One attempt more than the limit.
GivesUpLate(n) == n > MaxAttempts

\* A failed attempt is not counted.
NextAttemptsStuck(w) == hand[w].seen
-----------------------------------------------------------------------------
(* Devices come and go *)

\* Saving is by endpoint: a known endpoint keeps its row and id, whoever had it.
Save(e, u) ==
  /\ owner[e] # u
  /\ \/ /\ owner[e] = "none" /\ inserted < MaxId
        /\ inserted' = inserted + 1
        /\ id' = [id EXCEPT ![e] = inserted + 1]
     \/ owner[e] # "none" /\ UNCHANGED <<inserted, id>>
  /\ owner' = [owner EXCEPT ![e] = u]
  /\ UNCHANGED <<row, hand, history, faults>>

\* Only the owner's row is deleted.
Deleted(e, u) == IF owner[e] = u THEN [owner EXCEPT ![e] = "none"] ELSE owner

Unsubscribe(e, u) ==
  /\ owner[e] = u
  /\ owner' = Deleted(e, u)
  /\ UNCHANGED <<id, inserted, row, hand, history, faults>>
-----------------------------------------------------------------------------
(* An attempt *)

Claim(w) ==
  /\ status \in {"open", "processing"} /\ ~Holds(w)
  /\ status' = "processing"
  /\ hand' = [hand EXCEPT ![w] =
                [Idle EXCEPT !.phase = "claimed", !.prior = response, !.seen = attempts]]
  /\ overtaken' = IF \E v \in Worker : Holds(v) THEN overtaken + 1 ELSE overtaken
  /\ UNCHANGED <<subscriptions, attempts, response, pushed, forgotten, faults>>

Release(w) == hand' = [hand EXCEPT ![w] = Idle]

\* The row is written with ids as its record of what was sent, forgetting what
\* else it knew and what else was sent in this attempt.
Write(w, ids) ==
  /\ response' = ids
  /\ forgotten' = [i \in Id |-> IF i \in (response \cup hand[w].taken) \ ids
                                THEN forgotten[i] + 1 ELSE forgotten[i]]

NextAttempts(w) == hand[w].seen + 1

GivesUp(n) == n >= MaxAttempts

\* A failed attempt writes the outcomes it is given; loading the notification
\* or listing the devices fails with none.
MarkRetrying(w, ids) ==
  /\ attempts' = NextAttempts(w)
  /\ status' = IF GivesUp(NextAttempts(w)) THEN "failed" ELSE "open"
  /\ Write(w, ids)

LoadFails(w) ==
  /\ hand[w].phase = "claimed"
  /\ Spend("load")
  /\ MarkRetrying(w, {})
  /\ Release(w)
  /\ UNCHANGED <<subscriptions, pushed, overtaken>>

\* The recipient's devices are listed once, at the start of the attempt.
Listed == {<<e, id[e]>> : e \in {x \in Endpoint : owner[x] = "recipient"}}

\* The devices an earlier attempt reached, according to the row as claimed.
Prior(w) == hand[w].prior

\* A device already reached is passed over when its turn comes and its outcome
\* kept.  Which ones are is settled once they are listed: it is done here.
Reached(w) == {s \in Listed : s[2] \in Prior(w)}

List(w) ==
  /\ hand[w].phase = "claimed"
  /\ Listed # {}
  /\ hand' = [hand EXCEPT ![w].phase = "sending",
                          ![w].listed = Listed,
                          ![w].todo = Listed \ Reached(w),
                          ![w].outcomes = {s[2] : s \in Reached(w)}]
  /\ UNCHANGED <<subscriptions, row, history, faults>>

MarkSkipped(w) ==
  /\ hand[w].phase = "claimed"
  /\ Listed = {}
  /\ status' = "skipped"
  /\ Write(w, {})
  /\ Release(w)
  /\ UNCHANGED <<subscriptions, attempts, pushed, overtaken, faults>>

Outcomes(w, i, r) == IF r = "ok" THEN hand[w].outcomes \cup {i} ELSE hand[w].outcomes
AllSent(w, r) == hand[w].allSent /\ r = "ok"

\* The push service takes the message, or fails, or takes it and its answer is
\* lost.
Push(w, s, r) ==
  /\ s \in hand[w].todo
  /\ \/ r # "unheard" /\ UNCHANGED faults
     \/ r = "unheard" /\ Spend("unheard")
  /\ hand' = [hand EXCEPT ![w].todo = @ \ {s},
                          ![w].outcomes = Outcomes(w, s[2], r),
                          ![w].allSent = AllSent(w, r),
                          ![w].taken = IF r = "error" THEN @ ELSE @ \cup {s[2]}]
  /\ pushed' = IF r # "error" THEN [pushed EXCEPT ![s[2]] = @ + 1] ELSE pushed
  /\ UNCHANGED <<subscriptions, row, forgotten, overtaken>>

\* The push service says the device is gone: it counts neither as reached nor as
\* failed, and its row is deleted, unless the DELETE fails, which is only logged.
Prune(w, s) ==
  /\ s \in hand[w].todo
  /\ hand' = [hand EXCEPT ![w].todo = @ \ {s}, ![w].dead = @ \cup {s}]
  /\ \/ owner' = Deleted(s[1], "recipient") /\ UNCHANGED faults
     \/ Spend("delete") /\ UNCHANGED owner
  /\ UNCHANGED <<id, inserted, row, history>>

Finish(w) ==
  /\ hand[w].phase = "sending" /\ hand[w].todo = {}
  /\ \/ hand[w].allSent /\ status' = "sent" /\ Write(w, hand[w].outcomes) /\ UNCHANGED attempts
     \/ ~hand[w].allSent /\ MarkRetrying(w, hand[w].outcomes)
  /\ Release(w)
  /\ UNCHANGED <<subscriptions, pushed, overtaken, faults>>

\* The UPDATE fails, or the process ends: the row stays as it is.
Lose(w) ==
  /\ \/ Holds(w) /\ Spend("crash")
     \/ hand[w].phase = "sending" /\ hand[w].todo = {} /\ Spend("mark")
  /\ forgotten' = [i \in Id |-> IF i \in hand[w].taken THEN forgotten[i] + 1
                                                       ELSE forgotten[i]]
  /\ Release(w)
  /\ UNCHANGED <<subscriptions, row, pushed, overtaken>>

Send(w, s) == \/ \E r \in Answer : Push(w, s, r)
              \/ Prune(w, s)

Attempt(w) == \/ LoadFails(w) \/ List(w) \/ MarkSkipped(w)
              \/ \E s \in Endpoint \X Id : Send(w, s)
              \/ Finish(w) \/ Lose(w)

Next == \/ \E e \in Endpoint, u \in {"recipient", "other"} : Save(e, u) \/ Unsubscribe(e, u)
        \/ \E w \in Worker : Claim(w) \/ Attempt(w)

SafeSpec == Init /\ [][Next]_vars

\* Workers poll: a row that none of them has is claimed.  Nothing is assumed of
\* an attempt, which may hang: a push has no timeout.
Unheld == \A v \in Worker : ~Holds(v)
Spec == SafeSpec /\ WF_vars(Unheld /\ \E w \in Worker : Claim(w))
-----------------------------------------------------------------------------
(* Properties *)

\* What the row, and what each attempt in hand, says was sent was sent: no
\* device is passed over that was never reached, whoever writes the row last.
ResponseTruthful ==
  \A i \in response \cup UNION {hand[w].outcomes : w \in Worker} : pushed[i] > 0

\* A device is pushed again only after the row lost its record of it, or where
\* a second worker claimed the row while one had it.
PushesExplained == \A i \in Id : pushed[i] <= 1 + forgotten[i] + overtaken

\* A row becomes sent only by a worker for which each device it listed has been
\* reached, by it or by another attempt, or is gone.
SentLeavesNone ==
  [][status # "sent" /\ status' = "sent" =>
       \E w \in Worker : /\ hand[w].phase = "sending" /\ hand'[w].phase = "idle"
                         /\ \A s \in hand[w].listed :
                              pushed[s[2]] > 0 \/ s \in hand[w].dead]_vars

\* No worker is in an attempt for ever.
NoAttemptHangs == \A w \in Worker : []<>(~Holds(w))

\* Unless an attempt hangs for ever the delivery ends for good, while devices
\* come and go, and though a late worker may open it again.
EventuallyEnds == NoAttemptHangs => <>[](status \in Terminal)

\* dispatch.go:74, the outcomes are kept "so a retry can skip endpoints that
\* already succeeded instead of re-pushing to every device".
NoRepush == \A i \in Id : pushed[i] <= 1
=============================================================================
