--------------------------- MODULE InboundJobsProofs ---------------------------
(***************************************************************************)
(* Proofs about InboundJobs, for any mails, files, instances, attempts and *)
(* faults.                                                                 *)
(***************************************************************************)
EXTENDS InboundJobs, TLAPS

Open == {"pending", "processing"}

\* What a handler knows of its request: its mail is there until it is done.
HandlerInv == \A i \in Instance : stage[i] # "idle" => mail[i] \in Mail

\* A job that may be tried again has attempts left, and so has the one in
\* hand as the claim saw it.
AttemptsLeft ==
  /\ \A f \in File : job[f] \in Open => attempts[f] < MaxJobAttempts
  /\ \A i \in Instance : ~Free(i) => count[i] < MaxJobAttempts
  /\ \A i \in Instance : Free(i) => outcome[i] = "none" /\ elapsed[i] = 0

\* TypeOK with what it needs to be inductive.
TypeInv == TypeOK /\ HandlerInv /\ AttemptsLeft

LEMMA TypeInit == Init => TypeInv
<1> SUFFICES ASSUME Init PROVE TypeInv
  OBVIOUS
<1> USE InboundAssumption DEF Init
<1>1. TypeOK
  BY DEF TypeOK, JobStatus, Attempt
<1>2. HandlerInv /\ AttemptsLeft
  BY DEF HandlerInv, AttemptsLeft, Free, Open
<1> QED BY <1>1, <1>2 DEF TypeInv

\* A step of a webhook's handler.
LEMMA TypeRequest ==
  ASSUME TypeInv, NEW i \in Instance, Request(i)
  PROVE  TypeInv'
<1> USE InboundAssumption DEF TypeInv, TypeOK, HandlerInv, AttemptsLeft, Free, Open, table, handler,
        worker, outside, Spend, JobStatus
<1>1. CASE \E m \in Mail : Forward(i, m)
  <2> PICK m \in Mail : Forward(i, m)
    BY <1>1
  <2>1. /\ mail' = [mail EXCEPT ![i] = m]
        /\ stage' = [stage EXCEPT ![i] = "forwarded"]
        /\ UNCHANGED <<table, worker, outside, tries, lost>>
    BY DEF Forward
  <2>2. faults' \in 0..FaultBudget
    BY DEF Forward
  <2>3. \E F \in SUBSET File : wanted' = [wanted EXCEPT ![i] = F]
    <3>1. Files(m) \ copied \in SUBSET File /\ {} \in SUBSET File
      BY DEF Files
    <3> HIDE DEF TypeInv, TypeOK
    <3> QED BY <3>1 DEF Forward
  <2> QED BY <2>1, <2>2, <2>3
<1>2. CASE \E m \in Mail : Reject(i, m)
  BY <1>2 DEF Reject
<1>3. CASE Enqueue(i)
  BY <1>3 DEF Enqueue, Insert
<1>4. CASE EnqueueFails(i)
  BY <1>4 DEF EnqueueFails, Leave
<1>5. CASE Answer(i)
  BY <1>5 DEF Answer, Leave
<1> QED BY <1>1, <1>2, <1>3, <1>4, <1>5 DEF Request

\* A step of a worker.
LEMMA TypeWork ==
  ASSUME TypeInv, NEW i \in Instance, Claim(i) \/ Work(i)
  PROVE  TypeInv'
<1> USE InboundAssumption DEF TypeInv, TypeOK, HandlerInv, AttemptsLeft, Free, Open, table, handler,
        worker, outside, Spend, JobStatus
<1>1. CASE Claim(i)
  <2>1. PICK f \in File : /\ f \in Due
                          /\ job' = [job EXCEPT ![f] = "processing"]
                          /\ age' = [age EXCEPT ![f] = 0]
                          /\ held' = [held EXCEPT ![i] = f]
                          /\ count' = [count EXCEPT ![i] = attempts[f]]
    BY <1>1 DEF Claim, Due
  <2>2. /\ UNCHANGED <<attempts, wait, handler, outcome, elapsed, outside, tries, lost, faults>>
        /\ attempts[f] \in 0..MaxJobAttempts /\ attempts[f] < MaxJobAttempts
    BY <1>1, <2>1 DEF Claim, Due
  <2>5. job' \in [File -> JobStatus]
    BY <2>1
  <2>6. held' \in [Instance -> File \cup {NoFile}]
    BY <2>1
  <2>7. /\ age' = [age EXCEPT ![f] = 0]
        /\ count' = [count EXCEPT ![i] = attempts[f]]
    BY <2>1
  <2>8. /\ age' \in [File -> 0..StaleAfter]
        /\ count' \in [Instance -> 0..MaxJobAttempts]
    BY <2>2, <2>7
  <2>3. TypeOK'
    BY <2>2, <2>5, <2>6, <2>8
  <2>4. HandlerInv' /\ AttemptsLeft'
    BY <1>1, <2>1, <2>2 DEF Claim
  <2> QED BY <2>3, <2>4
<1>2. CASE \E r \in Attempt : Copy(i, r)
  <2> PICK r \in Attempt : Copy(i, r)
    BY <1>2
  <2>1. /\ outcome' = [outcome EXCEPT ![i] = r]
        /\ tries' = [tries EXCEPT ![held[i]] = @ + 1]
        /\ held[i] # NoFile
        /\ UNCHANGED <<table, handler, held, count, elapsed, answered, dropped, gone, lost>>
    BY DEF Copy
  <2>2. copied' \subseteq File /\ faults' \in 0..FaultBudget
    BY DEF Copy
  <2>3. outcome' \in [Instance -> Attempt] /\ tries' \in [File -> Nat]
    BY <2>1
  <2>4. TypeOK'
    BY <2>1, <2>2, <2>3
  <2>5. HandlerInv' /\ AttemptsLeft'
    BY <2>1
  <2> QED BY <2>4, <2>5
<1>3. CASE Settle(i)
  <2>1. held[i] \in File
    BY <1>3 DEF Settle
  <2>2. /\ job' \in [File -> JobStatus]
        /\ attempts' \in [File -> 0..MaxJobAttempts]
        /\ wait' \in [File -> Nat]
        /\ \A f \in File : job'[f] \in Open => attempts'[f] < MaxJobAttempts
    <3>1. CASE outcome[i] \in {"copied", "gone"} /\ Complete(held[i])
      BY <2>1, <3>1 DEF Complete
    <3>2. CASE outcome[i] \in {"retryable", "unheard"} /\ Retry(held[i], RetryCount(i))
      <4> DEFINE n == count[i] + 1
      <4>1. n \in 1..MaxJobAttempts /\ (~(n >= MaxJobAttempts) => n < MaxJobAttempts)
        <5>1. count[i] \in Nat /\ count[i] < MaxJobAttempts
          BY <2>1
        <5> QED BY <5>1
      <4>2. Retry(held[i], n)
        BY <3>2 DEF RetryCount
      <4> HIDE DEF n
      <4>3. attempts' = [attempts EXCEPT ![held[i]] = n]
        BY <4>2 DEF Retry
      <4>4. CASE n >= MaxJobAttempts
        <5>1. job' = [job EXCEPT ![held[i]] = "failed"] /\ wait' = wait
          BY <4>2, <4>4 DEF Retry, GivesUp, GivenUp
        <5> QED BY <2>1, <4>1, <4>3, <5>1
      <4>5. CASE ~(n >= MaxJobAttempts)
        <5>1. /\ job' = [job EXCEPT ![held[i]] = "pending"]
              /\ wait' = [wait EXCEPT ![held[i]] = Backoff[n]]
          BY <4>2, <4>5 DEF Retry, GivesUp, GivenUp
        <5>2. Backoff[n] \in Nat
          BY <4>1
        <5> QED BY <2>1, <4>1, <4>3, <4>5, <5>1, <5>2
      <4> QED BY <4>4, <4>5
    <3>3. CASE outcome[i] = "permanent" /\ Fail(held[i])
      BY <2>1, <3>3 DEF Fail, GivenUp
    <3> QED BY <1>3, <3>1, <3>2, <3>3 DEF Settle
  <2>3. /\ held' = [held EXCEPT ![i] = NoFile]
        /\ count' = [count EXCEPT ![i] = 0]
        /\ outcome' = [outcome EXCEPT ![i] = "none"]
        /\ elapsed' = [elapsed EXCEPT ![i] = 0]
        /\ age' = [age EXCEPT ![held[i]] = 0]
        /\ UNCHANGED <<handler, outside, tries, lost, faults>>
    BY <1>3 DEF Settle, Release
  <2>4. /\ age' \in [File -> 0..StaleAfter]
        /\ held' \in [Instance -> File \cup {NoFile}] /\ count' \in [Instance -> 0..MaxJobAttempts]
        /\ outcome' \in [Instance -> Attempt] /\ elapsed' \in [Instance -> 0..1]
    BY <2>1, <2>3 DEF Attempt
  <2>5. TypeOK'
    BY <2>2, <2>3, <2>4
  <2>6. HandlerInv' /\ AttemptsLeft'
    BY <2>2, <2>3
  <2> QED BY <2>5, <2>6
<1>4. CASE SettleLost(i)
  <2>1. /\ held' = [held EXCEPT ![i] = NoFile]
        /\ count' = [count EXCEPT ![i] = 0]
        /\ outcome' = [outcome EXCEPT ![i] = "none"]
        /\ elapsed' = [elapsed EXCEPT ![i] = 0]
        /\ UNCHANGED <<table, handler, outside, tries>>
    BY <1>4 DEF SettleLost, Release
  <2>2. lost' \in [File -> Nat] /\ faults' \in 0..FaultBudget
    BY <1>4 DEF SettleLost
  <2>3. TypeOK'
    BY <2>1, <2>2 DEF Attempt
  <2>4. HandlerInv' /\ AttemptsLeft'
    BY <2>1
  <2> QED BY <2>3, <2>4
<1> QED BY <1>1, <1>2, <1>3, <1>4 DEF Work

LEMMA TypeStep == TypeInv /\ [Next]_vars => TypeInv'
<1> SUFFICES ASSUME TypeInv, [Next]_vars PROVE TypeInv'
  OBVIOUS
<1> USE InboundAssumption DEF TypeInv, TypeOK, HandlerInv, AttemptsLeft, Free, Open, table, handler,
        worker, outside
<1>1. CASE \E i \in Instance : Request(i)
  BY <1>1, TypeRequest
<1>2. CASE \E i \in Instance : Claim(i) \/ Work(i)
  BY <1>2, TypeWork
<1>3. CASE \E i \in Instance : Crash(i)
  <2> PICK i \in Instance : Crash(i)
    BY <1>3
  <2>1. /\ mail' = [mail EXCEPT ![i] = NoMail]
        /\ stage' = [stage EXCEPT ![i] = "idle"]
        /\ wanted' = [wanted EXCEPT ![i] = {}]
        /\ held' = [held EXCEPT ![i] = NoFile]
        /\ count' = [count EXCEPT ![i] = 0]
        /\ outcome' = [outcome EXCEPT ![i] = "none"]
        /\ elapsed' = [elapsed EXCEPT ![i] = 0]
        /\ UNCHANGED <<table, outside, tries>>
    BY DEF Crash, Leave, Release
  <2>2. lost' \in [File -> Nat] /\ faults' \in 0..FaultBudget
    BY DEF Crash, Spend
  <2>3. TypeOK'
    BY <2>1, <2>2 DEF Attempt
  <2>4. HandlerInv' /\ AttemptsLeft'
    BY <2>1
  <2> QED BY <2>3, <2>4
<1>4. CASE \E f \in File : Vanish(f)
  BY <1>4 DEF Vanish
<1>5. CASE Tick
  <2>1. /\ elapsed' = [i \in Instance |-> IF Free(i) THEN 0 ELSE 1]
        /\ UNCHANGED <<job, attempts, handler, held, count, outcome, outside, tries, lost, faults>>
    BY <1>5 DEF Tick
  <2>2. age' \in [File -> 0..StaleAfter] /\ wait' \in [File -> Nat]
    BY <1>5 DEF Tick
  <2>3. TypeOK'
    BY <2>1, <2>2
  <2>4. HandlerInv' /\ AttemptsLeft'
    BY <2>1
  <2> QED BY <2>3, <2>4
<1>6. CASE UNCHANGED vars
  BY <1>6 DEF vars
<1> QED BY <1>1, <1>2, <1>3, <1>4, <1>5, <1>6 DEF Next

\* The table, the handlers and the workers are well typed in every reachable
\* state; no row counts more attempts than MaxJobAttempts.
THEOREM TypeCorrect == SafeSpec => []TypeOK
<1>1. SafeSpec => []TypeInv
  BY TypeInit, TypeStep, PTL DEF SafeSpec
<1> QED BY <1>1, PTL DEF TypeInv
-----------------------------------------------------------------------------
(* No two workers on one file *)

\* The job in a worker's hands is the table's: still in processing, with the
\* attempts the claim saw, and not yet as old as a job taken for stuck.
HeldFresh ==
  \A i \in Instance : ~Free(i) => /\ job[held[i]] = "processing"
                                  /\ attempts[held[i]] = count[i]
                                  /\ age[held[i]] <= elapsed[i]

HeldInv == TypeInv /\ HeldFresh /\ JobExclusive

\* No job in hand is due for another worker: an attempt takes one unit, and a
\* job is stuck only after more than one.
LEMMA HeldIsNotDue ==
  ASSUME HeldInv, NEW i \in Instance, ~Free(i)
  PROVE  held[i] \in File /\ held[i] \notin Due
<1>1. /\ held[i] \in File /\ job[held[i]] = "processing"
      /\ age[held[i]] <= elapsed[i] /\ elapsed[i] \in 0..1 /\ age[held[i]] \in Nat
  BY InboundAssumption DEF HeldInv, HeldFresh, TypeInv, TypeOK, Free
<1>2. ~(age[held[i]] >= StaleAfter)
  BY <1>1, InboundAssumption
<1> QED BY <1>1, <1>2 DEF Due

LEMMA HeldInit == Init => HeldInv
  BY TypeInit DEF Init, HeldInv, HeldFresh, JobExclusive, Free

LEMMA HeldStep == HeldInv /\ [Next]_vars => HeldInv'
<1> SUFFICES ASSUME HeldInv, [Next]_vars PROVE HeldFresh' /\ JobExclusive'
  BY TypeStep DEF HeldInv
<1>t. TypeInv /\ TypeInv' /\ TypeOK /\ TypeOK'
  BY TypeStep DEF HeldInv, TypeInv
<1>h. HeldFresh /\ JobExclusive
  BY DEF HeldInv
<1> USE InboundAssumption DEF HeldFresh, JobExclusive, Free, table, handler, worker, outside
<1>1. ASSUME NEW i \in Instance, Request(i) PROVE HeldFresh' /\ JobExclusive'
  <2>1. CASE Enqueue(i)
    <3>1. \A j \in Instance : ~Free(j) => held[j] \in File /\ held[j] \notin Insert(wanted[i])
      BY <1>t, <1>h DEF TypeOK, Insert
    <3>2. UNCHANGED worker
      BY <2>1 DEF Enqueue
    <3>3. \A f \in File \ Insert(wanted[i]) :
            job'[f] = job[f] /\ attempts'[f] = attempts[f] /\ age'[f] = age[f]
      BY <2>1, <1>t DEF Enqueue, TypeOK
    <3> QED BY <3>1, <3>2, <3>3, <1>t, <1>h DEF TypeOK
  <2>2. CASE ~Enqueue(i)
    BY <1>1, <1>h, <2>2 DEF Request, Forward, Reject, EnqueueFails, Answer
  <2> QED BY <2>1, <2>2
<1>2. ASSUME NEW i \in Instance, Claim(i) PROVE HeldFresh' /\ JobExclusive'
  <2>1. \A j \in Instance : ~Free(j) => held[j] \in File /\ held[j] \notin Due
    BY HeldIsNotDue
  <2>2. PICK f \in Due : /\ job' = [job EXCEPT ![f] = "processing"]
                         /\ age' = [age EXCEPT ![f] = 0]
                         /\ held' = [held EXCEPT ![i] = f]
                         /\ count' = [count EXCEPT ![i] = attempts[f]]
    BY <1>2 DEF Claim
  <2>3. f \in File /\ Free(i) /\ UNCHANGED <<attempts, elapsed>>
    BY <1>2, <2>2 DEF Claim, Due
  <2>4. /\ held'[i] = f /\ count'[i] = attempts'[f] /\ elapsed'[i] \in 0..1
        /\ job'[f] = "processing" /\ age'[f] = 0
    BY <1>t, <2>2, <2>3 DEF TypeOK
  <2>5. \A j \in Instance \ {i} : ~Free(j)' =>
          /\ ~Free(j) /\ held'[j] = held[j] /\ held[j] # f
          /\ count'[j] = count[j] /\ elapsed'[j] = elapsed[j]
          /\ job'[held[j]] = job[held[j]] /\ age'[held[j]] = age[held[j]]
          /\ attempts'[held[j]] = attempts[held[j]]
    BY <1>t, <2>1, <2>2, <2>3 DEF TypeOK
  <2> QED BY <1>h, <2>4, <2>5
<1>3. ASSUME NEW i \in Instance, Work(i) \/ Crash(i) PROVE HeldFresh' /\ JobExclusive'
  <2>1. CASE \E r \in Attempt : Copy(i, r)
    BY <1>t, <1>h, <2>1 DEF Copy, TypeOK
  <2>2. CASE Settle(i) \/ SettleLost(i) \/ Crash(i)
    <3>1. /\ held' = [held EXCEPT ![i] = NoFile]
          /\ count' = [count EXCEPT ![i] = 0]
          /\ elapsed' = [elapsed EXCEPT ![i] = 0]
      BY <2>2 DEF Settle, SettleLost, Crash, Release
    <3>2. \A f \in File \ {held[i]} :
            job'[f] = job[f] /\ attempts'[f] = attempts[f] /\ age'[f] = age[f]
      <4>1. CASE Settle(i)
        <5>1. /\ \E s \in JobStatus : job' = [job EXCEPT ![held[i]] = s]
              /\ attempts' = attempts \/ \E n : attempts' = [attempts EXCEPT ![held[i]] = n]
              /\ age' = [age EXCEPT ![held[i]] = 0]
          BY <4>1 DEF Settle, Complete, Retry, Fail, GivenUp, JobStatus
        <5> QED BY <1>t, <5>1 DEF TypeOK
      <4>2. CASE SettleLost(i) \/ Crash(i)
        BY <4>2 DEF SettleLost, Crash
      <4> QED BY <2>2, <4>1, <4>2
    <3>3. \A j \in Instance : ~Free(j) /\ j # i => held[j] \in File \ {held[i]}
      BY <1>t, <1>h DEF TypeOK
    <3>4. \A j \in Instance : ~Free(j)' =>
            /\ j # i /\ ~Free(j) /\ held'[j] = held[j]
            /\ count'[j] = count[j] /\ elapsed'[j] = elapsed[j]
      BY <1>t, <3>1 DEF TypeOK
    <3>5. \A j \in Instance : ~Free(j)' =>
            /\ job'[held[j]] = job[held[j]] /\ age'[held[j]] = age[held[j]]
            /\ attempts'[held[j]] = attempts[held[j]]
      BY <3>2, <3>3, <3>4
    <3> QED BY <1>h, <3>4, <3>5
  <2> QED BY <1>3, <2>1, <2>2 DEF Work
<1>4. ASSUME NEW f \in File, Vanish(f) PROVE HeldFresh' /\ JobExclusive'
  BY <1>4, <1>h DEF Vanish
<1>5. CASE Tick
  <2>1. \A j \in Instance : ~Free(j) => elapsed[j] = 0 /\ elapsed'[j] = 1
    BY <1>5, <1>t DEF Tick, TypeOK
  <2>2. \A f \in File : age'[f] <= age[f] + 1
    BY <1>5, <1>t DEF Tick, TypeOK
  <2>3. UNCHANGED <<job, attempts, held, count>>
    BY <1>5 DEF Tick
  <2>4. \A j \in Instance : ~Free(j) => held[j] \in File /\ age[held[j]] = 0
    BY <1>t, <1>h, <2>1 DEF TypeOK
  <2> QED BY <1>h, <2>1, <2>2, <2>3, <2>4
<1>6. CASE UNCHANGED vars
  BY <1>6, <1>h DEF vars
<1> QED BY <1>1, <1>2, <1>3, <1>4, <1>5, <1>6 DEF Next

LEMMA HeldAlways == SafeSpec => []HeldInv
  BY HeldInit, HeldStep, PTL DEF SafeSpec

\* For any number of instances no two workers copy one file at once, although
\* a job left in processing is taken from whoever claimed it.
THEOREM JobsAreExclusive == SafeSpec => []JobExclusive
  BY HeldAlways, PTL DEF HeldInv

\* A job given up on stays so: only rows that are not there are inserted, only
\* jobs that are open are claimed, and only those in processing are settled.
THEOREM GivenUpJobsStay == SafeSpec => GivenUpStays
<1>1. HeldInv /\ [Next]_vars => [\A f \in File : job[f] = "failed" => job'[f] = "failed"]_vars
  <2> SUFFICES ASSUME HeldInv, [Next]_vars, NEW f \in File, job[f] = "failed", ~UNCHANGED vars
               PROVE  job'[f] = "failed"
    OBVIOUS
  <2>t. TypeOK /\ HeldFresh
    BY DEF HeldInv, TypeInv
  <2> USE DEF TypeOK, table
  <2>1. ASSUME NEW i \in Instance, Request(i) PROVE job'[f] = "failed"
    BY <2>1, <2>t DEF Request, Forward, Reject, Enqueue, EnqueueFails, Answer, Insert
  <2>2. ASSUME NEW i \in Instance, Claim(i) PROVE job'[f] = "failed"
    BY <2>2, <2>t DEF Claim, Due
  <2>3. ASSUME NEW i \in Instance, Settle(i) PROVE job'[f] = "failed"
    <3>1. ASSUME held[i] = f PROVE FALSE
      <4>1. job[held[i]] = "processing"
        BY <2>t, <3>1, InboundAssumption DEF HeldFresh, Free
      <4> QED BY <3>1, <4>1
    <3> QED BY <2>3, <2>t, <3>1 DEF Settle, Complete, Retry, Fail
  <2>4. CASE \E i \in Instance : (\E r \in Attempt : Copy(i, r)) \/ SettleLost(i) \/ Crash(i)
    BY <2>4 DEF Copy, SettleLost, Crash
  <2>5. CASE (\E g \in File : Vanish(g)) \/ Tick
    BY <2>5 DEF Vanish, Tick
  <2> QED BY <2>1, <2>2, <2>3, <2>4, <2>5 DEF Next, Work
<1> QED BY <1>1, HeldAlways, PTL DEF SafeSpec, GivenUpStays
-----------------------------------------------------------------------------
(* Every attempt is counted by the row, or lost *)

\* What a step may change of a file's tries, and of their account.
LEMMA TriesStep ==
  ASSUME HeldInv, HeldInv', TriesAccounted, [Next]_vars
  PROVE  TriesAccounted'
<1> SUFFICES ASSUME NEW f \in File PROVE Accounted(f)'
  BY DEF TriesAccounted
<1>t. /\ TypeOK /\ HeldFresh /\ JobExclusive /\ AttemptsLeft
      /\ tries[f] \in Nat /\ lost[f] \in Nat /\ attempts[f] \in Nat /\ MaxJobAttempts \in Nat
      /\ f # NoFile
  <2>1. TypeOK /\ HeldFresh /\ JobExclusive /\ AttemptsLeft
    BY DEF HeldInv, TypeInv
  <2>2. tries[f] \in Nat /\ lost[f] \in Nat /\ attempts[f] \in Nat
    BY <2>1 DEF TypeOK
  <2> QED BY <2>1, <2>2, InboundAssumption
<1>a. /\ job[f] \in Open => tries[f] = attempts[f] + lost[f] + (IF InHand(f) THEN 1 ELSE 0)
      /\ job[f] = "failed" =>
           \/ attempts[f] = MaxJobAttempts /\ tries[f] = attempts[f] + lost[f]
           \/ attempts[f] < MaxJobAttempts /\ tries[f] = attempts[f] + lost[f] + 1
      /\ job[f] \in Open => attempts[f] < MaxJobAttempts
  BY <1>t DEF TriesAccounted, Accounted, AttemptsLeft, Open
<1> USE DEF Accounted, Open
\* Nothing of the file changes.
<1>s. CASE /\ job'[f] = job[f] /\ attempts'[f] = attempts[f]
           /\ tries'[f] = tries[f] /\ lost'[f] = lost[f]
           /\ InHand(f)' <=> InHand(f)
  BY <1>s, <1>a
<1>1. ASSUME NEW i \in Instance, Request(i) PROVE Accounted(f)'
  <2>1. UNCHANGED worker
    BY <1>1 DEF Request, Forward, Reject, Enqueue, EnqueueFails, Answer
  <2>2. InHand(f)' <=> InHand(f)
    BY <2>1 DEF InHand, worker
  <2>3. CASE Enqueue(i) /\ f \in Insert(wanted[i])
    <3>1. job'[f] = "pending" /\ attempts'[f] = 0 /\ tries'[f] = 0 /\ lost'[f] = 0
      BY <2>3 DEF Enqueue
    <3>2. ~InHand(f)
      BY <1>t, <2>3 DEF Insert, HeldFresh, Free, InHand
    <3> QED BY <2>2, <3>1, <3>2
  <2>4. CASE ~(Enqueue(i) /\ f \in Insert(wanted[i]))
    BY <1>1, <1>s, <2>2, <2>4 DEF Request, Forward, Reject, Enqueue, EnqueueFails, Answer, table
  <2> QED BY <2>3, <2>4
<1>2. ASSUME NEW i \in Instance, Claim(i) PROVE Accounted(f)'
  <2>1. PICK g \in Due : job' = [job EXCEPT ![g] = "processing"] /\ held' = [held EXCEPT ![i] = g]
    BY <1>2 DEF Claim
  <2>2. /\ UNCHANGED <<attempts, outcome, tries, lost>>
        /\ outcome[i] = "none" /\ Free(i)
    BY <1>2, <1>t DEF Claim, AttemptsLeft
  <2>3. InHand(f)' <=> InHand(f)
    BY <1>t, <2>1, <2>2 DEF InHand, TypeOK, Free
  <2>4. job'[f] = job[f] \/ (job[f] \in Open /\ job'[f] # "failed")
    <3>1. CASE f = g
      <4>1. job[f] \in Open /\ job'[f] = "processing"
        BY <1>t, <2>1, <3>1 DEF Due, Open, TypeOK
      <4> QED BY <4>1 DEF Open
    <3>2. CASE f # g
      <4>1. job \in [File -> JobStatus]
        BY <1>t DEF TypeOK
      <4>2. job'[f] = job[f]
        BY <2>1, <3>2, <4>1
      <4> QED BY <4>2
    <3> QED BY <3>1, <3>2
  <2> QED BY <1>a, <2>2, <2>3, <2>4
<1>3. ASSUME NEW i \in Instance, Work(i) \/ Crash(i), held[i] # f PROVE Accounted(f)'
  <2>1. /\ job'[f] = job[f] /\ attempts'[f] = attempts[f]
        /\ tries'[f] = tries[f] /\ lost'[f] = lost[f]
    BY <1>3, <1>t DEF Work, Copy, Settle, SettleLost, Crash, Complete, Retry, Fail, table, TypeOK
  <2>2. \A j \in Instance : held'[j] = f <=> held[j] = f
    BY <1>3, <1>t DEF Work, Copy, Settle, SettleLost, Crash, Release, TypeOK
  <2>3. \A j \in Instance : held[j] = f => outcome'[j] = outcome[j]
    BY <1>3, <1>t DEF Work, Copy, Settle, SettleLost, Crash, Release, TypeOK
  <2>4. InHand(f)' <=> InHand(f)
    BY <2>2, <2>3 DEF InHand
  <2> QED BY <1>s, <2>1, <2>4
<1>4. ASSUME NEW i \in Instance, Work(i) \/ Crash(i), held[i] = f PROVE Accounted(f)'
  <2>1. /\ job[f] = "processing" /\ attempts[f] = count[i] /\ (InHand(f) <=> outcome[i] # "none")
    BY <1>4, <1>t DEF HeldFresh, JobExclusive, Free, InHand
  <2>2. CASE \E r \in Attempt : Copy(i, r)
    <3>1. /\ outcome[i] = "none" /\ tries'[f] = tries[f] + 1
          /\ UNCHANGED <<job, attempts, lost, held>>
          /\ outcome'[i] # "none"
      BY <1>t, <1>4, <2>2 DEF Copy, TypeOK, table
    <3>2. InHand(f)'
      BY <1>4, <3>1 DEF InHand
    <3>3. tries[f] = attempts[f] + lost[f]
      BY <1>a, <1>t, <2>1, <3>1 DEF Open
    <3>4. tries'[f] = attempts'[f] + lost'[f] + 1 /\ job'[f] = "processing"
      BY <1>t, <2>1, <3>1, <3>3
    <3> QED BY <3>2, <3>4
  <2>n. ASSUME Release(i) PROVE ~InHand(f)'
    <3>1. held' = [held EXCEPT ![i] = NoFile]
      BY <2>n DEF Release
    <3>2. \A j \in Instance : held'[j] # f
      BY <1>t, <1>4, <3>1 DEF JobExclusive, Free, TypeOK
    <3> QED BY <3>2 DEF InHand
  <2>3. CASE Settle(i)
    <3>1. /\ ~InHand(f)' /\ tries'[f] = tries[f] /\ lost'[f] = lost[f]
          /\ tries[f] = attempts[f] + lost[f] + 1 /\ attempts[f] < MaxJobAttempts
      BY <1>a, <2>1, <2>3, <2>n DEF Settle
    <3>2. CASE Complete(f)
      BY <1>t, <3>1, <3>2 DEF Complete, TypeOK
    <3>3. CASE Fail(f)
      BY <1>t, <3>1, <3>3 DEF Fail, GivenUp, TypeOK
    <3>4. CASE Retry(f, RetryCount(i))
      <4>1. RetryCount(i) = attempts[f] + 1
        BY <2>1 DEF RetryCount
      <4>2. attempts'[f] = attempts[f] + 1
        BY <1>t, <3>4, <4>1 DEF Retry, TypeOK
      <4>3. CASE attempts[f] + 1 >= MaxJobAttempts
        <5>1. job'[f] = "failed"
          BY <1>t, <3>4, <4>1, <4>3 DEF Retry, GivesUp, GivenUp, TypeOK
        <5> QED BY <1>t, <3>1, <4>2, <4>3, <5>1
      <4>4. CASE ~(attempts[f] + 1 >= MaxJobAttempts)
        <5>1. job'[f] = "pending"
          BY <1>t, <3>4, <4>1, <4>4 DEF Retry, GivesUp, TypeOK
        <5> QED BY <1>t, <3>1, <4>2, <5>1
      <4> QED BY <4>3, <4>4
    <3> QED BY <1>4, <2>3, <3>2, <3>3, <3>4 DEF Settle
  <2>4. CASE SettleLost(i)
    <3>1. /\ ~InHand(f)' /\ UNCHANGED <<job, attempts, tries>>
          /\ tries[f] = attempts[f] + lost[f] + 1
      BY <1>a, <2>1, <2>4, <2>n DEF SettleLost, table
    <3>2. lost'[f] = lost[f] + 1
      BY <1>t, <1>4, <2>4 DEF SettleLost, TypeOK
    <3> QED BY <1>t, <2>1, <3>1, <3>2
  <2>5. CASE Crash(i)
    <3>1. /\ lost'[f] = IF outcome[i] # "none" THEN lost[f] + 1 ELSE lost[f]
          /\ UNCHANGED <<job, attempts, tries>>
      BY <1>4, <2>5 DEF Crash, table
    <3>2. tries[f] = attempts[f] + lost[f] + (IF outcome[i] # "none" THEN 1 ELSE 0)
      BY <1>a, <1>t, <2>1 DEF Open
    <3>3. ~InHand(f)'
      BY <2>5, <2>n DEF Crash
    <3>4. tries'[f] = attempts'[f] + lost'[f] /\ job'[f] = "processing"
      BY <1>t, <2>1, <3>1, <3>2
    <3>5. attempts'[f] + lost'[f] \in Nat
      BY <1>t, <3>1
    <3> QED BY <3>3, <3>4, <3>5
  <2> QED BY <1>4, <2>2, <2>3, <2>4, <2>5 DEF Work
<1>5. CASE (\E g \in File : Vanish(g)) \/ Tick \/ UNCHANGED vars
  BY <1>5, <1>s DEF Vanish, Tick, vars, table, worker, InHand
<1> QED BY <1>1, <1>2, <1>3, <1>4, <1>5 DEF Next

\* For any files, instances, attempts and faults, the attempts made for a job are
\* those its row counts, those whose result was lost and the one in hand; a job
\* given up on has had MaxJobAttempts of them beyond those lost, or met an error
\* no retry can fix.
THEOREM TriesAreAccounted == SafeSpec => []TriesAccounted
<1>1. Init => HeldInv /\ TriesAccounted
  BY HeldInit DEF Init, TriesAccounted, Accounted
<1>2. HeldInv /\ TriesAccounted /\ [Next]_vars => (HeldInv /\ TriesAccounted)'
  BY HeldStep, TriesStep
<1> QED BY <1>1, <1>2, PTL DEF SafeSpec
-----------------------------------------------------------------------------
(* No file is forgotten *)

\* A file the service need not, or will, take care of.
Kept(f) == f \in copied \/ f \in gone \/ job[f] # "none"

\* A handler wants the files of its mail that the backend lacks until it has
\* queued them, and knows them kept from then on.
Minds(i) ==
  /\ stage[i] = "forwarded" => \A f \in Files(mail[i]) : f \in wanted[i] \/ f \in copied
  /\ stage[i] = "queued" => \A f \in Files(mail[i]) : Kept(f)

\* A result that ends a job is true of its file.
Honest(i) ==
  /\ outcome[i] = "copied" => held[i] \in copied
  /\ outcome[i] = "gone" => held[i] \in gone

MindInv == (\A i \in Instance : Minds(i) /\ Honest(i)) /\ NothingForgotten

\* What is kept is kept: a job is only deleted once its file is copied or gone.
LEMMA KeptStays ==
  ASSUME TypeInv, MindInv, [Next]_vars, NEW f \in File, Kept(f)
  PROVE  Kept(f)'
<1> USE DEF Kept, TypeInv, TypeOK, table, outside
<1>1. copied \subseteq copied' /\ gone \subseteq gone'
  BY DEF Next, Request, Forward, Reject, Enqueue, EnqueueFails, Answer, Claim, Work, Copy,
         Settle, SettleLost, Crash, Vanish, Tick, vars
<1>2. ASSUME NEW i \in Instance, Request(i) PROVE Kept(f)'
  BY <1>1, <1>2 DEF Request, Forward, Reject, Enqueue, EnqueueFails, Answer
<1>3. ASSUME NEW i \in Instance, Claim(i) PROVE Kept(f)'
  BY <1>1, <1>3 DEF Claim
<1>4. ASSUME NEW i \in Instance, Settle(i) PROVE Kept(f)'
  BY <1>1, <1>4 DEF Settle, Complete, Retry, Fail, GivenUp, MindInv, Honest
<1>5. CASE \/ \E i \in Instance : (\E r \in Attempt : Copy(i, r)) \/ SettleLost(i) \/ Crash(i)
           \/ (\E g \in File : Vanish(g)) \/ Tick \/ UNCHANGED vars
  BY <1>1, <1>5 DEF Copy, SettleLost, Crash, Vanish, Tick, vars
<1> QED BY <1>2, <1>3, <1>4, <1>5 DEF Next, Work

LEMMA MindStep ==
  ASSUME "cut" \notin Fault, TypeInv, MindInv, [Next]_vars
  PROVE  MindInv'
<1>k. \A f \in File : Kept(f) => Kept(f)'
  BY KeptStays
<1>c. copied \subseteq copied' /\ gone \subseteq gone'
  BY DEF Next, Request, Forward, Reject, Enqueue, EnqueueFails, Answer, Claim, Work, Copy,
         Settle, SettleLost, Crash, Vanish, Tick, vars, outside
<1>t. TypeOK /\ HandlerInv /\ AttemptsLeft
  BY DEF TypeInv
<1>m. /\ \A i \in Instance : Minds(i) /\ Honest(i)
      /\ \A f \in File : MailOf[f] \in answered \ dropped => Kept(f)
  BY DEF MindInv, NothingForgotten, Kept
<1>f. \A m : Files(m) \subseteq File
  BY DEF Files
\* A handler, or a worker, that the step leaves alone.
<1>1. ASSUME NEW i \in Instance, mail'[i] = mail[i], stage'[i] = stage[i], wanted'[i] = wanted[i]
      PROVE  Minds(i)'
  BY <1>1, <1>k, <1>c, <1>m, <1>f DEF Minds
<1>2. ASSUME NEW i \in Instance, held'[i] = held[i], outcome'[i] = outcome[i]
      PROVE  Honest(i)'
  BY <1>2, <1>c, <1>m DEF Honest
<1>3. ASSUME NEW i \in Instance, stage'[i] = "idle" PROVE Minds(i)'
  BY <1>3 DEF Minds
<1>4. ASSUME NEW i \in Instance, outcome'[i] = "none" PROVE Honest(i)'
  BY <1>4 DEF Honest
<1>5. ASSUME answered' = answered, dropped' = dropped
      PROVE  \A f \in File : MailOf[f] \in answered' \ dropped' => Kept(f)'
  BY <1>5, <1>k, <1>m
<1> DEFINE Goal == /\ \A i \in Instance : Minds(i)' /\ Honest(i)'
                   /\ \A f \in File : MailOf[f] \in answered' \ dropped' => Kept(f)'
<1>6. ASSUME NEW j \in Instance, NEW m \in Mail, Forward(j, m) PROVE Goal
  <2>1. /\ mail' = [mail EXCEPT ![j] = m]
        /\ stage' = [stage EXCEPT ![j] = "forwarded"]
        /\ wanted' = [wanted EXCEPT ![j] = Files(m) \ copied]
        /\ UNCHANGED <<worker, outside>>
    BY <1>6 DEF Forward, Spend
  <2>2. Minds(j)'
    BY <2>1, <1>t DEF TypeOK, Minds, outside
  <2>3. \A i \in Instance \ {j} : Minds(i)'
    BY <2>1, <1>t, <1>1 DEF TypeOK
  <2> QED BY <2>1, <2>2, <2>3, <1>2, <1>5 DEF worker, outside
<1>7. ASSUME NEW j \in Instance, NEW m \in Mail, Reject(j, m) PROVE Goal
  BY <1>7, <1>1, <1>2, <1>k, <1>m DEF Reject, handler, worker
<1>8. ASSUME NEW j \in Instance, Enqueue(j) PROVE Goal
  <2>1. /\ stage[j] = "forwarded" /\ stage' = [stage EXCEPT ![j] = "queued"]
        /\ UNCHANGED <<mail, wanted, worker, outside>>
    BY <1>8 DEF Enqueue
  <2>2. Minds(j)'
    <3>1. SUFFICES ASSUME NEW f \in Files(mail[j]) PROVE Kept(f)'
      BY <2>1, <1>t DEF Minds, TypeOK
    <3>2. f \in File /\ (f \in wanted[j] \/ f \in copied)
      BY <2>1, <1>m, <1>f DEF Minds
    <3>3. f \in wanted[j] => job'[f] # "none"
      BY <1>8, <3>2 DEF Enqueue, Insert
    <3> QED BY <3>2, <3>3, <1>c DEF Kept
  <2>3. \A i \in Instance \ {j} : Minds(i)'
    BY <2>1, <1>t, <1>1 DEF TypeOK
  <2> QED BY <2>1, <2>2, <2>3, <1>2, <1>5 DEF worker, outside
<1>9. ASSUME NEW j \in Instance, EnqueueFails(j) PROVE Goal
  <2>1. /\ stage' = [stage EXCEPT ![j] = "idle"]
        /\ mail' = [mail EXCEPT ![j] = NoMail]
        /\ wanted' = [wanted EXCEPT ![j] = {}]
        /\ UNCHANGED <<worker, outside>>
    BY <1>9 DEF EnqueueFails, Leave
  <2>2. \A i \in Instance : Minds(i)'
    BY <2>1, <1>t, <1>1, <1>3 DEF TypeOK
  <2> QED BY <2>1, <2>2, <1>2, <1>5 DEF worker, outside
<1>10. ASSUME NEW j \in Instance, Answer(j) PROVE Goal
  <2>1. /\ stage' = [stage EXCEPT ![j] = "idle"]
        /\ mail' = [mail EXCEPT ![j] = NoMail]
        /\ wanted' = [wanted EXCEPT ![j] = {}]
        /\ UNCHANGED <<worker, dropped>> /\ stage[j] = "queued"
        /\ answered' \subseteq answered \cup {mail[j]}
    BY <1>10 DEF Answer, Leave
  <2>2. \A i \in Instance : Minds(i)'
    BY <2>1, <1>t, <1>1, <1>3 DEF TypeOK
  <2>3. ASSUME NEW f \in File, MailOf[f] \in answered' \ dropped' PROVE Kept(f)'
    <3>1. CASE MailOf[f] = mail[j]
      BY <2>1, <3>1, <1>k, <1>m DEF Minds, Files
    <3>2. CASE MailOf[f] # mail[j]
      BY <2>1, <2>3, <3>2, <1>k, <1>m
    <3> QED BY <3>1, <3>2
  <2> QED BY <2>1, <2>2, <2>3, <1>2 DEF worker
<1>11. ASSUME NEW j \in Instance, Claim(j) PROVE Goal
  <2>1. /\ UNCHANGED <<handler, outcome, outside>> /\ outcome[j] = "none"
        /\ \A i \in Instance \ {j} : held'[i] = held[i]
    BY <1>11, <1>t DEF Claim, AttemptsLeft, TypeOK
  <2> QED BY <2>1, <1>1, <1>2, <1>4, <1>5 DEF handler, outside
<1>12. ASSUME NEW j \in Instance, NEW r \in Attempt, Copy(j, r) PROVE Goal
  <2>1. /\ UNCHANGED <<handler, held, answered, dropped>>
        /\ outcome' = [outcome EXCEPT ![j] = r]
        /\ r = "gone" => held[j] \in gone
        /\ r = "copied" => held[j] \in copied'
    BY <1>12 DEF Copy
  <2>2. Honest(j)'
    BY <2>1, <1>t, <1>c DEF Honest, TypeOK
  <2>3. \A i \in Instance \ {j} : Honest(i)'
    BY <2>1, <1>t, <1>2 DEF TypeOK
  <2> QED BY <2>1, <2>2, <2>3, <1>1, <1>5 DEF handler
<1>13. ASSUME NEW j \in Instance, Settle(j) \/ SettleLost(j) PROVE Goal
  <2>1. /\ UNCHANGED <<handler, outside>>
        /\ held' = [held EXCEPT ![j] = NoFile]
        /\ outcome' = [outcome EXCEPT ![j] = "none"]
    BY <1>13 DEF Settle, SettleLost, Release
  <2>2. \A i \in Instance : Honest(i)'
    BY <2>1, <1>t, <1>2, <1>4 DEF TypeOK
  <2> QED BY <2>1, <2>2, <1>1, <1>5 DEF handler, outside
<1>14. ASSUME NEW j \in Instance, Crash(j) PROVE Goal
  <2>1. /\ mail' = [mail EXCEPT ![j] = NoMail]
        /\ stage' = [stage EXCEPT ![j] = "idle"]
        /\ wanted' = [wanted EXCEPT ![j] = {}]
        /\ held' = [held EXCEPT ![j] = NoFile]
        /\ outcome' = [outcome EXCEPT ![j] = "none"]
        /\ UNCHANGED outside
    BY <1>14 DEF Crash, Leave, Release
  <2>2. \A i \in Instance : Minds(i)'
    BY <2>1, <1>t, <1>1, <1>3 DEF TypeOK
  <2>3. \A i \in Instance : Honest(i)'
    BY <2>1, <1>t, <1>2, <1>4 DEF TypeOK
  <2> QED BY <2>1, <2>2, <2>3, <1>5 DEF outside
<1>15. ASSUME (\E f \in File : Vanish(f)) \/ Tick \/ UNCHANGED vars PROVE Goal
  <2>1. UNCHANGED <<handler, held, outcome, answered, dropped>>
    BY <1>15 DEF Vanish, Tick, vars, worker, outside
  <2>2. \A i \in Instance : Minds(i)'
    BY <2>1, <1>1 DEF handler
  <2>3. \A i \in Instance : Honest(i)'
    BY <2>1, <1>2
  <2>4. answered' = answered /\ dropped' = dropped
    BY <2>1
  <2>5. \A f \in File : MailOf[f] \in answered' \ dropped' => Kept(f)'
    BY <2>4, <1>5
  <2> QED BY <2>2, <2>3, <2>5
<1> HIDE DEF Goal
<1>16. Goal
  <2>1. ASSUME NEW i \in Instance, Request(i) PROVE Goal
    BY <2>1, <1>6, <1>7, <1>8, <1>9, <1>10 DEF Request
  <2>2. ASSUME NEW i \in Instance, Work(i) PROVE Goal
    BY <2>2, <1>12, <1>13 DEF Work
  <2>3. CASE Next
    BY <2>1, <2>2, <2>3, <1>11, <1>14, <1>15 DEF Next
  <2> QED BY <2>3, <1>15
<1> QED BY <1>16 DEF Goal, MindInv, NothingForgotten, Kept

\* Unless the backend's answer is cut short, a mail that was acknowledged and
\* not dropped has each of its files copied, gone or queued: no crash, lost
\* answer or webhook delivered twice makes the service forget one.
THEOREM NothingIsForgotten ==
  ASSUME "cut" \notin Fault
  PROVE  SafeSpec => []NothingForgotten
<1>1. Init => TypeInv /\ MindInv
  <2> SUFFICES ASSUME Init PROVE MindInv
    BY TypeInit
  <2> QED BY DEF Init, MindInv, Minds, Honest, NothingForgotten
<1>2. TypeInv /\ MindInv /\ [Next]_vars => (TypeInv /\ MindInv)'
  BY TypeStep, MindStep
<1>3. TypeInv /\ MindInv => NothingForgotten
  BY DEF MindInv
<1> QED BY <1>1, <1>2, <1>3, PTL DEF SafeSpec
================================================================================
