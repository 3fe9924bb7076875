----------------------------- MODULE InboundJobs -----------------------------
(***************************************************************************)
(* The files that come with a customer's reply: the webhook that forwards  *)
(* the reply to the backend and queues the files the backend asks for      *)
(* (src/inbound/inbound.go), the table of jobs (src/inbound/jobs.go) and   *)
(* the worker that copies one file at a time                               *)
(* (src/workers/inbound_attachments.go).                                   *)
(*                                                                         *)
(* The provider delivers a webhook again until it is answered, so two      *)
(* deliveries of one mail may be handled at once; each instance handles at *)
(* most one here.  The backend is external: it asks for the files of a     *)
(* mail it has no copy of, as idempotent forwarding requires.              *)
(*                                                                         *)
(* Time is counted in units of one attempt, which inboundJobTimeout ends   *)
(* after 2 min.  A shutdown is a crash here: it cancels the attempt in     *)
(* hand and the UPDATE after it.                                           *)
(***************************************************************************)
EXTENDS Naturals

CONSTANTS
  Mail,            \* received mails addressed to the reply domain
  File,            \* the files attached to them
  MailOf,          \* the mail a file came with
  Instance,        \* running copies of the service
  MaxJobAttempts,  \* inbound.MaxJobAttempts
  StaleAfter,      \* inboundJobStaleAfter, in units of one attempt
  Backoff,         \* JobBackoff(n), in units of one attempt
  Fault,           \* the kinds of fault that may happen
  FaultBudget,     \* bound: how many faults happen in one behaviour
  NoMail, NoFile

FaultKind == {"crash", "settle", "forward", "cut", "queue", "answer", "upload"}

ASSUME InboundAssumption ==
  /\ MailOf \in [File -> Mail]
  /\ NoMail \notin Mail
  /\ NoFile \notin File
  /\ MaxJobAttempts \in Nat \ {0}
  /\ StaleAfter \in Nat
  /\ StaleAfter > 1
  /\ Backoff \in [1..MaxJobAttempts -> Nat]
  /\ Fault \subseteq FaultKind
  /\ FaultBudget \in Nat

VARIABLES
  \* the table, one row for each file, "none" while there is no row
  job,       \* column status
  attempts,  \* column attempts
  wait,      \* time until next_attempt_at, 0 once it is due
  age,       \* time since updated_at while the row is in processing
  \* each instance's webhook handler
  mail,      \* the mail in hand
  stage,     \* idle, forwarded (answered by the backend) or queued
  wanted,    \* the files the backend's answer asks for
  \* each instance's worker
  held,      \* the file of the job in hand
  count,     \* attempts of that job as the claim returned it
  outcome,   \* how the attempt went, "none" before it is made
  elapsed,   \* time spent on the job in hand
  \* the provider and the backend
  answered,  \* mails whose webhook was answered 200
  dropped,   \* mails answered 200 after an error no retry can fix
  copied,    \* files the backend has a copy of
  gone,      \* files the provider no longer lists, or too large
  \* history
  tries,     \* attempts made for the job, anew with each row
  lost,      \* of those, attempts whose result never reached the row
  faults     \* faults left

table   == <<job, attempts, wait, age>>
handler == <<mail, stage, wanted>>
worker  == <<held, count, outcome, elapsed>>
outside == <<answered, dropped, copied, gone>>
vars    == <<table, handler, worker, outside, tries, lost, faults>>

JobStatus == {"none", "pending", "processing", "failed"}
Attempt   == {"none", "copied", "unheard", "gone", "retryable", "permanent"}

Files(m) == {f \in File : MailOf[f] = m}
Free(i)  == held[i] = NoFile

TypeOK ==
  /\ job \in [File -> JobStatus]
  /\ attempts \in [File -> 0..MaxJobAttempts]
  /\ wait \in [File -> Nat]
  /\ age \in [File -> 0..StaleAfter]
  /\ mail \in [Instance -> Mail \cup {NoMail}]
  /\ stage \in [Instance -> {"idle", "forwarded", "queued"}]
  /\ wanted \in [Instance -> SUBSET File]
  /\ held \in [Instance -> File \cup {NoFile}]
  /\ count \in [Instance -> 0..MaxJobAttempts]
  /\ outcome \in [Instance -> Attempt]
  /\ elapsed \in [Instance -> 0..1]
  /\ answered \subseteq Mail /\ dropped \subseteq answered
  /\ copied \subseteq File /\ gone \subseteq File
  /\ tries \in [File -> Nat]
  /\ lost \in [File -> Nat]
  /\ faults \in 0..FaultBudget

Init ==
  /\ job = [f \in File |-> "none"]
  /\ attempts = [f \in File |-> 0]
  /\ wait = [f \in File |-> 0]
  /\ age = [f \in File |-> 0]
  /\ mail = [i \in Instance |-> NoMail]
  /\ stage = [i \in Instance |-> "idle"]
  /\ wanted = [i \in Instance |-> {}]
  /\ held = [i \in Instance |-> NoFile]
  /\ count = [i \in Instance |-> 0]
  /\ outcome = [i \in Instance |-> "none"]
  /\ elapsed = [i \in Instance |-> 0]
  /\ answered = {} /\ dropped = {}
  /\ copied = {} /\ gone = {}
  /\ tries = [f \in File |-> 0]
  /\ lost = [f \in File |-> 0]
  /\ faults = FaultBudget

Spend(kind) == /\ kind \in Fault
               /\ faults > 0
               /\ faults' = faults - 1
-----------------------------------------------------------------------------
(* Slips: definitions below with a plausible bug each *)

\* The claim forgets to ask how long a job has been in processing.
DueAtOnce == {f \in File : \/ job[f] = "pending" /\ wait[f] = 0
                           \/ job[f] = "processing"}

\* The claim has no recovery clause.
DueWithoutRecovery == {f \in File : job[f] = "pending" /\ wait[f] = 0}

\* A file that could not be copied in all its attempts is deleted.
GivenUpForgotten == "none"

\* The last attempt but one is taken for the last.
GivesUpEarly(n) == n + 1 >= MaxJobAttempts

\* The count is carried on, past the limit.
GivesUpLate(n) == n > MaxJobAttempts

\* ON CONFLICT DO UPDATE: the row starts over.
InsertOver(F) == F
-----------------------------------------------------------------------------
(* The webhook *)

\* The mail is fetched, its files listed and the two forwarded.  The backend
\* answers with the files it still wants; an answer cut short is taken for one
\* that asks for nothing.  An error that a retry could fix is answered 502,
\* and leaves nothing here.
Forward(i, m) ==
  /\ stage[i] = "idle"
  /\ m \notin answered
  /\ mail' = [mail EXCEPT ![i] = m]
  /\ stage' = [stage EXCEPT ![i] = "forwarded"]
  /\ \/ wanted' = [wanted EXCEPT ![i] = Files(m) \ copied] /\ UNCHANGED faults
     \/ wanted' = [wanted EXCEPT ![i] = {}] /\ Spend("cut")
  /\ UNCHANGED <<table, worker, outside, tries, lost>>

\* The handler's memory once its request is over.
Leave(i) == /\ mail' = [mail EXCEPT ![i] = NoMail]
            /\ stage' = [stage EXCEPT ![i] = "idle"]
            /\ wanted' = [wanted EXCEPT ![i] = {}]

\* An error no retry can fix is answered 200: the mail is dropped.
Reject(i, m) ==
  /\ stage[i] = "idle"
  /\ m \notin answered
  /\ Spend("forward")
  /\ answered' = answered \cup {m}
  /\ dropped' = dropped \cup {m}
  /\ UNCHANGED <<table, handler, worker, copied, gone, tries, lost>>

\* ON CONFLICT (email_id, attachment_id) DO NOTHING
Insert(F) == {f \in F : job[f] = "none"}

\* One job for each wanted file that has none; its history starts with it.
Enqueue(i) ==
  LET new == Insert(wanted[i])
  IN /\ stage[i] = "forwarded"
     /\ stage' = [stage EXCEPT ![i] = "queued"]
     /\ job' = [f \in File |-> IF f \in new THEN "pending" ELSE job[f]]
     /\ attempts' = [f \in File |-> IF f \in new THEN 0 ELSE attempts[f]]
     /\ wait' = [f \in File |-> IF f \in new THEN 0 ELSE wait[f]]
     /\ age' = [f \in File |-> IF f \in new THEN 0 ELSE age[f]]
     /\ tries' = [f \in File |-> IF f \in new THEN 0 ELSE tries[f]]
     /\ lost' = [f \in File |-> IF f \in new THEN 0 ELSE lost[f]]
     /\ UNCHANGED <<mail, wanted, worker, outside, faults>>

\* The INSERT fails: answered 502, and the webhook comes again.
EnqueueFails(i) ==
  /\ stage[i] = "forwarded"
  /\ Spend("queue")
  /\ Leave(i)
  /\ UNCHANGED <<table, worker, outside, tries, lost>>

\* The handler answers 200, which may be lost on the way to the provider.
Answer(i) ==
  /\ stage[i] = "queued"
  /\ Leave(i)
  /\ \/ answered' = answered \cup {mail[i]} /\ UNCHANGED faults
     \/ UNCHANGED answered /\ Spend("answer")
  /\ UNCHANGED <<table, worker, dropped, copied, gone, tries, lost>>
-----------------------------------------------------------------------------
(* The worker *)

Due == {f \in File : \/ job[f] = "pending" /\ wait[f] = 0
                     \/ job[f] = "processing" /\ age[f] >= StaleAfter}

\* One due job is claimed; the claiming UPDATE does not touch attempts.
Claim(i) ==
  /\ Free(i)
  /\ \E f \in Due :
       /\ job' = [job EXCEPT ![f] = "processing"]
       /\ age' = [age EXCEPT ![f] = 0]
       /\ held' = [held EXCEPT ![i] = f]
       /\ count' = [count EXCEPT ![i] = attempts[f]]
  /\ UNCHANGED <<attempts, wait, handler, outcome, elapsed, outside, tries, lost, faults>>

\* One attempt: list the files for a fresh link, download, upload.  "unheard"
\* is an upload the backend took and whose answer was lost.
Copy(i, r) ==
  /\ ~Free(i) /\ outcome[i] = "none"
  /\ r # "none"
  /\ r = "gone" => held[i] \in gone
  /\ r \in {"copied", "unheard"} => held[i] \notin gone
  /\ IF r = "unheard" THEN Spend("upload") ELSE UNCHANGED faults
  /\ outcome' = [outcome EXCEPT ![i] = r]
  /\ copied' = IF r \in {"copied", "unheard"} THEN copied \cup {held[i]} ELSE copied
  /\ tries' = [tries EXCEPT ![held[i]] = @ + 1]
  /\ UNCHANGED <<table, handler, held, count, elapsed, answered, dropped, gone, lost>>

\* The worker's memory once the job is settled.
Release(i) == /\ held' = [held EXCEPT ![i] = NoFile]
              /\ count' = [count EXCEPT ![i] = 0]
              /\ outcome' = [outcome EXCEPT ![i] = "none"]
              /\ elapsed' = [elapsed EXCEPT ![i] = 0]

\* DELETE
Complete(f) == /\ job' = [job EXCEPT ![f] = "none"]
               /\ attempts' = [attempts EXCEPT ![f] = 0]
               /\ wait' = [wait EXCEPT ![f] = 0]

\* What a job that is given up becomes: it is kept for whoever looks into it.
GivenUp == "failed"

GivesUp(n) == n >= MaxJobAttempts

\* attempts is what the claim returned, and one more.
RetryCount(i) == count[i] + 1

Retry(f, n) ==
  /\ attempts' = [attempts EXCEPT ![f] = n]
  /\ \/ GivesUp(n) /\ job' = [job EXCEPT ![f] = GivenUp] /\ UNCHANGED wait
     \/ /\ ~GivesUp(n)
        /\ job' = [job EXCEPT ![f] = "pending"]
        /\ wait' = [wait EXCEPT ![f] = Backoff[n]]

\* A permanent error leaves the count as it was.
Fail(f) == /\ job' = [job EXCEPT ![f] = GivenUp]
           /\ UNCHANGED <<attempts, wait>>

Settle(i) ==
  /\ outcome[i] # "none"
  /\ \/ outcome[i] \in {"copied", "gone"} /\ Complete(held[i])
     \/ outcome[i] \in {"retryable", "unheard"} /\ Retry(held[i], RetryCount(i))
     \/ outcome[i] = "permanent" /\ Fail(held[i])
  /\ age' = [age EXCEPT ![held[i]] = 0]
  /\ Release(i)
  /\ UNCHANGED <<handler, outside, tries, lost, faults>>

\* The statement that settles the job fails: the job is left as claimed.
SettleLost(i) ==
  /\ outcome[i] # "none"
  /\ Spend("settle")
  /\ lost' = [lost EXCEPT ![held[i]] = @ + 1]
  /\ Release(i)
  /\ UNCHANGED <<table, handler, outside, tries>>
-----------------------------------------------------------------------------
(* The process, the clock and the provider *)

\* The process ends and is started again: the request and the job in hand are
\* forgotten.
Crash(i) ==
  /\ Spend("crash")
  /\ lost' = [f \in File |-> IF held[i] = f /\ outcome[i] # "none" THEN lost[f] + 1
                                                                   ELSE lost[f]]
  /\ Leave(i)
  /\ Release(i)
  /\ UNCHANGED <<table, outside, tries>>

\* One unit passes, unless a worker has already spent one on its attempt.
Tick ==
  /\ \A i \in Instance : Free(i) \/ elapsed[i] = 0
  /\ elapsed' = [i \in Instance |-> IF Free(i) THEN 0 ELSE 1]
  /\ age' = [f \in File |-> IF job[f] = "processing" /\ age[f] < StaleAfter
                            THEN age[f] + 1 ELSE age[f]]
  /\ wait' = [f \in File |-> IF wait[f] > 0 THEN wait[f] - 1 ELSE 0]
  /\ UNCHANGED <<job, attempts, handler, held, count, outcome, outside, tries, lost, faults>>

\* External: the provider stops listing a file.
Vanish(f) ==
  /\ f \notin gone
  /\ gone' = gone \cup {f}
  /\ UNCHANGED <<table, handler, worker, answered, dropped, copied, tries, lost, faults>>

Request(i) == \/ \E m \in Mail : Forward(i, m) \/ Reject(i, m)
              \/ Enqueue(i)
              \/ EnqueueFails(i)
              \/ Answer(i)

Work(i) == \/ \E r \in Attempt : Copy(i, r)
           \/ Settle(i)
           \/ SettleLost(i)

Next == \/ \E i \in Instance : Request(i) \/ Claim(i) \/ Work(i) \/ Crash(i)
        \/ \E f \in File : Vanish(f)
        \/ Tick

SafeSpec == Init /\ [][Next]_vars

\* The worker polls on a ticker, the provider delivers an unanswered webhook
\* again and the handler goes on with it, and time passes.
Fairness == /\ \A i \in Instance : /\ WF_vars(Request(i))
                                   /\ WF_vars(Claim(i))
                                   /\ WF_vars(Work(i))
            /\ WF_vars(Tick)

Spec == SafeSpec /\ Fairness
-----------------------------------------------------------------------------
(* Properties *)

\* No two workers copy the same file at once.
JobExclusive ==
  \A i, j \in Instance : i # j /\ ~Free(i) => held[i] # held[j]

\* Once a mail is acknowledged, and unless it was dropped, each of its files is
\* copied, or gone at the provider, or has a job: no crash, lost answer or
\* doubled webhook makes the service forget a file the backend waits for.
NothingForgotten ==
  \A f \in File : MailOf[f] \in answered \ dropped =>
    f \in copied \/ f \in gone \/ job[f] # "none"

\* An attempt made for a job and not yet settled.
InHand(f) == \E i \in Instance : held[i] = f /\ outcome[i] # "none"

\* An open job counts every attempt made for it, but the one in hand and those
\* whose result was lost on the way to the row.  One given up on has had
\* MaxJobAttempts beyond those lost, neither more nor fewer, unless the last met
\* a permanent error, which is not counted.  This is so of each job: one that a
\* webhook queues anew after the file's last job was completed starts at zero.
Accounted(f) ==
  /\ job[f] \in {"pending", "processing"} =>
       tries[f] = attempts[f] + lost[f] + (IF InHand(f) THEN 1 ELSE 0)
  /\ job[f] = "failed" =>
       \/ attempts[f] = MaxJobAttempts /\ tries[f] = attempts[f] + lost[f]
       \/ attempts[f] < MaxJobAttempts /\ tries[f] = attempts[f] + lost[f] + 1

TriesAccounted == \A f \in File : Accounted(f)

\* A job given up on stays so: no worker, recovery or webhook delivered again
\* takes it up.
GivenUpStays ==
  [][\A f \in File : job[f] = "failed" => job'[f] = "failed"]_vars

\* Every file of a received mail ends: copied, gone, given up on, or dropped
\* with its mail.
FilesSettle ==
  \A f \in File : <>(\/ f \in copied
                     \/ f \in gone
                     \/ job[f] = "failed"
                     \/ MailOf[f] \in dropped)
=============================================================================
