------------------------- MODULE DeliveryQueueProofs -------------------------
(***************************************************************************)
(* Proofs about DeliveryQueue, for every value of its constants: any       *)
(* finite table, any number of instances, any batch size, attempt limit    *)
(* and schedule of waits, any kinds and any number of faults.              *)
(*                                                                         *)
(* Nothing is assumed of the timing: an attempt may take any time, and a   *)
(* loop may claim a row that another one still holds, as it does in the    *)
(* service when a slow attempt or batch outlasts the stale threshold.      *)
(***************************************************************************)
EXTENDS DeliveryQueue, FiniteSetTheorems, TLAPS

LEMMA Limits ==
  /\ BatchSize \in Nat /\ MaxAttempts \in Nat /\ StaleAfter \in Nat
  /\ BatchSize > 0 /\ MaxAttempts > 0 /\ StaleAfter > 0
  BY LimitAssumption DEF LimitAssumption

LEMMA Rows == NoRow \notin Delivery /\ IsFiniteSet(Delivery)
  BY RowAssumption DEF RowAssumption, NoRow

LEMMA Waits == \A n \in 1..MaxAttempts : Backoff[n] \in Nat
  BY LimitAssumption DEF LimitAssumption

LEMMA Budget == FaultBudget \in Nat
  BY FaultAssumption DEF FaultAssumption

USE Limits, Rows, Budget

-----------------------------------------------------------------------------
(* Types *)

\* What TypeOK rests on: a loop records only a row of its batch, and a row
\* that has not ended has an attempt left, in the table and in a snapshot.
AttemptLeft ==
  /\ \A w \in Worker : cur[w] # NoRow => cur[w] \in batch[w]
  /\ \A d \in Delivery : status[d] \notin Terminal => attempts[d] < MaxAttempts
  /\ \A w \in Worker : \A d \in batch[w] : seen[w][d] < MaxAttempts

TypeInv == TypeOK /\ AttemptLeft

LEMMA SpendBudget ==
  ASSUME TypeOK, NEW kind, Spend(kind) PROVE faults' \in 0..FaultBudget
  BY DEF Spend, TypeOK

LEMMA RecordTyped ==
  ASSUME TypeOK, NEW w \in Worker, cur[w] \in Delivery, Record(w)
  PROVE  audited' \in [Delivery -> SUBSET {"sent", "failed"}]
  <1>1. Entry(w) \in SUBSET {"sent", "failed"}
    BY DEF Entry
  <1> QED BY <1>1 DEF Record, TypeOK

\* A claim takes only rows that have not ended.
LEMMA ClaimTakesOpenRows ==
  ASSUME TypeOK, NEW w \in Worker, NEW rows, Claimable(Eligible(w), rows)
  PROVE  /\ rows \subseteq Delivery
         /\ rows # {}
         /\ Cardinality(rows) <= BatchSize
         /\ \A d \in rows :
              \/ status[d] \in {"pending", "retrying"}
              \/ status[d] = "processing" /\ age[d] >= StaleAfter
  BY DEF Claimable, Eligible, Pending, Due

LEMMA TypeInit == Init => TypeInv
  BY DEF Init, TypeInv, TypeOK, AttemptLeft, Status, Result, NoRow, Terminal

LEMMA TypeStep == TypeInv /\ [Next]_vars => TypeInv'
<1> SUFFICES ASSUME TypeInv, [Next]_vars PROVE TypeInv'
  OBVIOUS
<1> USE DEF TypeInv
<1>1. ASSUME NEW d \in Delivery, Enqueue(d) PROVE TypeInv'
  BY <1>1 DEF Enqueue, TypeOK, AttemptLeft, Status, Terminal, hand, history
<1>2. ASSUME NEW w \in Worker, Claim(w) PROVE TypeInv'
  <2> PICK rows \in SUBSET Delivery :
         Claimable(Eligible(w), rows) /\ Flip(rows) /\ Hold(w, rows) /\ Overtake(rows)
    BY <1>2 DEF Claim
  <2>1. /\ \A d \in rows : status[d] \notin Terminal
        /\ Idle(w)
        /\ UNCHANGED <<mode, tries, lost, late, accepted, audited, faults>>
    BY <1>2, ClaimTakesOpenRows DEF Terminal, Claim
  <2>2. TypeOK'
    <3>1. overtaken' \in [Delivery -> Nat]
      BY DEF Overtake, TypeOK
    <3> QED BY <2>1, <3>1 DEF Flip, Hold, TypeOK, Status
  <2>3. AttemptLeft'
    BY <2>1 DEF Flip, Hold, Idle, TypeOK, AttemptLeft, Terminal
  <2> QED BY <2>2, <2>3
<1>3. ASSUME NEW w \in Worker, ClaimLost(w) PROVE TypeInv'
  <2> PICK rows \in SUBSET Delivery : Claimable(Eligible(w), rows) /\ Flip(rows)
    BY <1>3 DEF ClaimLost
  <2>1. /\ \A d \in rows : status[d] \notin Terminal
        /\ faults' \in 0..FaultBudget
        /\ UNCHANGED <<hand, mode, history>>
    BY <1>3, ClaimTakesOpenRows, SpendBudget DEF Terminal, ClaimLost
  <2>2. TypeOK'
    BY <2>1 DEF Flip, TypeOK, Status, hand, history
  <2>3. AttemptLeft'
    BY <2>1 DEF Flip, TypeOK, AttemptLeft, Terminal, hand
  <2> QED BY <2>2, <2>3
<1>4. ASSUME NEW w \in Worker, NEW d \in Delivery, NEW r \in Result, Attempt(w, d, r)
      PROVE TypeInv'
  <2>1. faults' \in 0..FaultBudget
    BY <1>4, SpendBudget DEF Attempt, TypeOK
  <2>2. /\ cur' \in [Worker -> Delivery \cup {NoRow}]
        /\ result' \in [Worker -> Result]
        /\ tries' \in [Delivery -> Nat]
    BY <1>4 DEF Attempt, TypeOK
  <2>3. accepted' \in [Delivery -> Nat]
    BY <1>4 DEF Attempt, TypeOK
  <2>4. late' \in [Delivery -> Nat]
    BY <1>4 DEF Attempt, TypeOK
  <2>5. TypeOK'
    BY <1>4, <2>1, <2>2, <2>3, <2>4 DEF Attempt, TypeOK, table
  <2>6. AttemptLeft'
    BY <1>4 DEF Attempt, TypeOK, AttemptLeft, table
  <2> QED BY <2>5, <2>6
<1>5. ASSUME NEW w \in Worker, Settle(w) PROVE TypeInv'
  <2>1. /\ cur[w] \in Delivery
        /\ cur[w] \in batch[w]
        /\ NextAttempts(w) \in 1..MaxAttempts
    <3>1. cur[w] \in Delivery
      BY <1>5 DEF Settle, TypeOK
    <3>2. cur[w] \in batch[w]
      BY <1>5 DEF Settle, AttemptLeft
    <3>3. seen[w] \in [Delivery -> 0..MaxAttempts]
      BY DEF TypeOK
    <3>4. seen[w][cur[w]] < MaxAttempts
      BY <3>2 DEF AttemptLeft
    <3>5. seen[w][cur[w]] \in 0..MaxAttempts
      BY <3>1, <3>3
    <3>6. \A n \in 0..MaxAttempts : n < MaxAttempts => n + 1 \in 1..MaxAttempts
      OBVIOUS
    <3> QED BY <3>1, <3>2, <3>4, <3>5, <3>6 DEF NextAttempts
  <2>2. /\ status' \in [Delivery -> Status]
        /\ attempts' \in [Delivery -> 0..MaxAttempts]
        /\ wait' \in [Delivery -> Nat]
        /\ \A d \in Delivery : status'[d] \notin Terminal => attempts'[d] < MaxAttempts
    <3>1. CASE MarkSent(cur[w])
      BY <2>1, <3>1 DEF MarkSent, TypeOK, AttemptLeft, Status, Terminal
    <3>2. CASE MarkSkipped(cur[w])
      BY <2>1, <3>2 DEF MarkSkipped, TypeOK, AttemptLeft, Status, Terminal
    <3>3. CASE MarkRetrying(cur[w], NextAttempts(w))
      BY <2>1, <3>3, Waits DEF MarkRetrying, RetryStatus, TypeOK, AttemptLeft, Status, Terminal
    <3> QED BY <1>5, <3>1, <3>2, <3>3 DEF Settle, Mark
  <2>3. /\ age' \in [Delivery -> 0..StaleAfter]
        /\ audited' \in [Delivery -> SUBSET {"sent", "failed"}]
        /\ UNCHANGED <<mode, tries, lost, late, accepted, overtaken, faults>>
    <3>1. age' \in [Delivery -> 0..StaleAfter]
      BY <1>5, <2>1 DEF Settle, TypeOK
    <3>2. audited' \in [Delivery -> SUBSET {"sent", "failed"}]
      BY <1>5, <2>1, RecordTyped DEF Settle
    <3> QED BY <1>5, <3>1, <3>2 DEF Settle
  <2>4. Release(w)
    BY <1>5 DEF Settle
  <2>5. TypeOK'
    BY <2>1, <2>2, <2>3, <2>4 DEF Release, TypeOK, Result
  <2>6. AttemptLeft'
    BY <2>1, <2>2, <2>4 DEF Release, TypeOK, AttemptLeft
  <2> QED BY <2>5, <2>6
<1>6. ASSUME NEW w \in Worker, SettleLost(w) PROVE TypeInv'
  <2>1. /\ cur[w] \in Delivery
        /\ cur[w] \in batch[w]
    BY <1>6 DEF SettleLost, TypeOK, AttemptLeft
  <2>2. /\ faults' \in 0..FaultBudget
        /\ audited' \in [Delivery -> SUBSET {"sent", "failed"}]
        /\ lost' \in [Delivery -> Nat]
        /\ UNCHANGED <<table, mode, tries, late, accepted, overtaken>>
        /\ Release(w)
    <3>1. faults' \in 0..FaultBudget
      BY <1>6, SpendBudget DEF SettleLost, TypeOK
    <3>2. audited' \in [Delivery -> SUBSET {"sent", "failed"}]
      BY <1>6, <2>1, RecordTyped DEF SettleLost
    <3>3. lost' \in [Delivery -> Nat]
      BY <1>6, <2>1 DEF SettleLost, TypeOK
    <3> QED BY <1>6, <3>1, <3>2, <3>3 DEF SettleLost
  <2>3. TypeOK'
    BY <2>1, <2>2 DEF Release, TypeOK, Result, table
  <2>4. AttemptLeft'
    BY <2>1, <2>2 DEF Release, TypeOK, AttemptLeft, table
  <2> QED BY <2>3, <2>4
<1>7. ASSUME NEW i \in Instance, Process(i) PROVE TypeInv'
  <2>1. CASE Stop(i)
    <3>1. faults' \in 0..FaultBudget
      BY <2>1, SpendBudget DEF Stop
    <3>2. TypeOK'
      BY <2>1, <3>1 DEF Stop, TypeOK, table, hand, history
    <3>3. AttemptLeft'
      BY <2>1 DEF Stop, AttemptLeft, table, hand
    <3> QED BY <3>2, <3>3
  <2>2. CASE Exit(i)
    <3>1. faults' \in 0..FaultBudget
      BY <2>2, SpendBudget DEF Exit, TypeOK
    <3>2. lost' \in [Delivery -> Nat]
      BY <2>2 DEF Exit, TypeOK
    <3>3. /\ batch' \in [Worker -> SUBSET Delivery]
          /\ cur' \in [Worker -> Delivery \cup {NoRow}]
      BY <2>2 DEF Exit, TypeOK
    <3>4. seen' \in [Worker -> [Delivery -> 0..MaxAttempts]]
      BY <2>2 DEF Exit, TypeOK
    <3>5. /\ result' \in [Worker -> Result]
          /\ heldFor' \in [Worker -> 0..StaleAfter]
          /\ mode' \in [Instance -> {"up", "stopping", "down"}]
      BY <2>2 DEF Exit, TypeOK, Result
    <3>6. TypeOK'
      BY <2>2, <3>1, <3>2, <3>3, <3>4, <3>5 DEF Exit, TypeOK, table
    <3>7. AttemptLeft'
      BY <2>2 DEF Exit, TypeOK, AttemptLeft, table
    <3> QED BY <3>6, <3>7
  <2>3. CASE Restart(i)
    BY <2>3 DEF Restart, TypeOK, AttemptLeft, table, hand, history
  <2> QED BY <1>7, <2>1, <2>2, <2>3 DEF Process
<1>8. CASE Tick
  <2>1. TypeOK'
    <3>1. heldFor' \in [Worker -> 0..StaleAfter]
      BY <1>8 DEF Tick, TypeOK
    <3>2. age' \in [Delivery -> 0..StaleAfter]
      BY <1>8 DEF Tick, TypeOK
    <3>3. wait' \in [Delivery -> Nat]
      BY <1>8 DEF Tick, TypeOK
    <3> QED BY <1>8, <3>1, <3>2, <3>3 DEF Tick, TypeOK, history
  <2>2. AttemptLeft'
    BY <1>8 DEF Tick, AttemptLeft
  <2> QED BY <2>1, <2>2
<1>9. CASE UNCHANGED vars
  BY <1>9 DEF vars, table, hand, history, TypeOK, AttemptLeft
<1> QED
  BY <1>1, <1>2, <1>3, <1>4, <1>5, <1>6, <1>7, <1>8, <1>9 DEF Next, Poll, Step

\* Every reachable state of the queue is well typed, whatever the timing and
\* the faults.
THEOREM TypeCorrect == SafeSpec => []TypeOK
<1>1. Init => TypeInv
  BY TypeInit
<1>2. TypeInv /\ [Next]_vars => TypeInv'
  BY TypeStep
<1>3. TypeInv => TypeOK
  BY DEF TypeInv
<1> QED BY <1>1, <1>2, <1>3, PTL DEF SafeSpec
-----------------------------------------------------------------------------
(* Budgets: what a loop may still do to the rows it holds, whoever else     *)
(* holds them                                                               *)

\* The loops that hold a row and have yet to attempt it.
Waiting(d) == {w \in Worker : d \in batch[w] /\ cur[w] # d}
Pend(d)    == Cardinality(Waiting(d))

\* Another attempt is to come without another claim from under a loop.
Unsure(d) == \/ \E w \in Worker : cur[w] = d /\ result[w] # "ok"
             \/ ~Held(d) /\ status[d] \notin Terminal

\* Each message the provider takes, or may yet take for a loop that holds the
\* row, is the first or is paid for by a lost result, a late answer or a claim
\* from under a loop; all are paid for when another attempt is to come.
SendBudget(d) ==
  /\ accepted[d] + Pend(d) <= 1 + lost[d] + late[d] + overtaken[d]
  /\ Unsure(d) => accepted[d] + Pend(d) <= lost[d] + late[d] + overtaken[d]

\* Each attempt, made or to come, is in the attempts column, or will be when a
\* loop writes what it saw plus one, or is paid for as above.
TryBudget(d) ==
  /\ tries[d] + Pend(d) <= MaxAttempts + lost[d] + overtaken[d]
  /\ \A w \in Worker : d \in batch[w] =>
       tries[d] + Pend(d) <= seen[w][d] + 1 + lost[d] + overtaken[d]
  /\ tries[d] + Pend(d) <= attempts[d] + 1 + lost[d] + overtaken[d]
  /\ ~Held(d) /\ status[d] \notin {"sent", "skipped"} =>
       tries[d] + Pend(d) <= attempts[d] + lost[d] + overtaken[d]

Budgeted(d) == IsFiniteSet(Waiting(d)) /\ SendBudget(d) /\ TryBudget(d)

BudgetInv == TypeInv /\ \A d \in Delivery : Budgeted(d)

LEMMA Counts ==
  ASSUME BudgetInv, NEW d \in Delivery
  PROVE  /\ IsFiniteSet(Waiting(d)) /\ Pend(d) \in Nat
         /\ accepted[d] \in Nat /\ lost[d] \in Nat /\ late[d] \in Nat
         /\ overtaken[d] \in Nat /\ tries[d] \in Nat /\ attempts[d] \in Nat
         /\ \A w \in Worker : seen[w][d] \in Nat
<1>1. IsFiniteSet(Waiting(d)) /\ Pend(d) \in Nat
  BY FS_CardinalityType DEF BudgetInv, Budgeted, Pend
<1> QED BY <1>1 DEF BudgetInv, TypeInv, TypeOK

\* A step that leaves hands and history alone, and neither ends a row nor
\* opens one that had ended.
LEMMA BudgetQuiet ==
  ASSUME BudgetInv, TypeInv', NEW d \in Delivery,
         UNCHANGED <<attempts, batch, seen, cur, result, history>>,
         status'[d] = status[d] \/ {status[d], status'[d]} \cap Terminal = {}
  PROVE  Budgeted(d)'
<1>1. /\ Waiting(d)' = Waiting(d) /\ Held(d)' = Held(d)
      /\ UNCHANGED <<tries, lost, late, accepted, overtaken>>
  BY DEF Waiting, Held, history
<1>2. Unsure(d)' => Unsure(d)
  BY <1>1 DEF Unsure
<1>3. status'[d] \notin {"sent", "skipped"} => status[d] \notin {"sent", "skipped"}
  BY DEF Terminal
<1> QED BY <1>1, <1>2, <1>3 DEF BudgetInv, Budgeted, SendBudget, TryBudget, Pend

LEMMA BudgetClaim ==
  ASSUME BudgetInv, TypeInv', NEW w \in Worker, Claim(w), NEW d \in Delivery
  PROVE  Budgeted(d)'
<1> PICK rows \in SUBSET Delivery :
      Claimable(Eligible(w), rows) /\ Flip(rows) /\ Hold(w, rows) /\ Overtake(rows)
  BY DEF Claim
<1>1. /\ batch[w] = {} /\ cur[w] = NoRow
      /\ UNCHANGED <<attempts, cur, result, tries, lost, late, accepted>>
  BY DEF Claim, Hold, Flip, Idle, BudgetInv, TypeInv, AttemptLeft
<1>2. /\ batch' = [batch EXCEPT ![w] = rows]
      /\ \A v \in Worker \ {w} : seen'[v] = seen[v]
      /\ d \in rows => seen'[w][d] = attempts[d]
      /\ status'[d] = IF d \in rows THEN "processing" ELSE status[d]
      /\ overtaken'[d] = IF d \in rows /\ Held(d) THEN overtaken[d] + 1 ELSE overtaken[d]
  BY DEF Hold, Flip, Overtake, BudgetInv, TypeInv, TypeOK
<1>3. /\ \A v \in Worker \ {w} : batch'[v] = batch[v]
      /\ batch'[w] = rows
  BY <1>2 DEF BudgetInv, TypeInv, TypeOK
<1>4. \A v \in Worker : cur[v] = d => d \in batch[v]
  BY Rows DEF BudgetInv, TypeInv, AttemptLeft
<1>5. d \in rows => status[d] \notin Terminal
  BY ClaimTakesOpenRows DEF BudgetInv, TypeInv, Terminal
<1>6. CASE d \notin rows
  <2>1. /\ Waiting(d)' = Waiting(d) /\ Held(d)' = Held(d)
        /\ status'[d] = status[d] /\ overtaken'[d] = overtaken[d]
    BY <1>1, <1>2, <1>3, <1>6 DEF Waiting, Held
  <2>2. Unsure(d)' => Unsure(d)
    BY <1>1, <2>1 DEF Unsure
  <2>3. \A v \in Worker : d \in batch'[v] => d \in batch[v] /\ seen'[v][d] = seen[v][d]
    BY <1>2, <1>3, <1>6
  <2>4. SendBudget(d)'
    BY <1>1, <2>1, <2>2 DEF BudgetInv, Budgeted, SendBudget, Pend
  <2>5. TryBudget(d)'
    BY <1>1, <2>1, <2>3 DEF BudgetInv, Budgeted, TryBudget, Pend
  <2> QED BY <2>1, <2>4, <2>5 DEF BudgetInv, Budgeted
<1>7. CASE d \in rows
  <2>1. /\ Waiting(d)' = Waiting(d) \cup {w} /\ w \notin Waiting(d)
        /\ Held(d)'
    BY <1>1, <1>3, <1>7, Rows DEF Waiting, Held
  <2>2. /\ IsFiniteSet(Waiting(d)') /\ Pend(d)' = Pend(d) + 1
    BY <2>1, Counts, FS_AddElement DEF Pend
  <2>3. CASE Held(d)
    <3>1. Unsure(d)' => Unsure(d)
      BY <1>1, <2>1 DEF Unsure
    <3>2. overtaken'[d] = overtaken[d] + 1
      BY <1>2, <1>7, <2>3
    <3>3. SendBudget(d)'
      BY <1>1, <2>2, <3>1, <3>2, Counts DEF BudgetInv, Budgeted, SendBudget
    <3>4. \A v \in Worker : d \in batch'[v] =>
            tries[d] + Pend(d) <= seen'[v][d] + 1 + lost[d] + overtaken[d]
      <4> SUFFICES ASSUME NEW v \in Worker, d \in batch'[v]
                   PROVE  tries[d] + Pend(d) <= seen'[v][d] + 1 + lost[d] + overtaken[d]
        OBVIOUS
      <4>1. CASE v = w
        BY <1>2, <1>7, <4>1 DEF BudgetInv, Budgeted, TryBudget
      <4>2. CASE v # w
        BY <1>2, <1>3, <4>2 DEF BudgetInv, Budgeted, TryBudget
      <4> QED BY <4>1, <4>2
    <3>5. \A v \in Worker : seen'[v][d] \in Nat
      BY DEF TypeInv, TypeOK
    <3>6. TryBudget(d)'
      BY <1>1, <2>1, <2>2, <3>2, <3>4, <3>5, Counts DEF BudgetInv, Budgeted, TryBudget
    <3> QED BY <2>2, <3>3, <3>6 DEF Budgeted
  <2>4. CASE ~Held(d)
    <3>1. Unsure(d) /\ ~Unsure(d)'
      BY <1>1, <1>4, <1>5, <1>7, <2>1, <2>4 DEF Unsure, Held
    <3>2. overtaken'[d] = overtaken[d]
      BY <1>2, <2>4
    <3>3. SendBudget(d)'
      BY <1>1, <2>2, <3>1, <3>2, Counts DEF BudgetInv, Budgeted, SendBudget
    <3>4. \A v \in Worker : d \in batch'[v] => seen'[v][d] = attempts[d]
      BY <1>2, <1>3, <1>7, <2>4 DEF Held
    <3>5. tries[d] + Pend(d) <= attempts[d] + lost[d] + overtaken[d]
      BY <1>5, <1>7, <2>4 DEF BudgetInv, Budgeted, TryBudget, Terminal
    <3>6. attempts[d] < MaxAttempts
      BY <1>5, <1>7 DEF BudgetInv, TypeInv, AttemptLeft
    <3>7. TryBudget(d)'
      BY <1>1, <2>1, <2>2, <3>2, <3>4, <3>5, <3>6, Counts DEF TryBudget
    <3> QED BY <2>2, <3>3, <3>7 DEF Budgeted
  <2> QED BY <2>3, <2>4
<1> QED BY <1>6, <1>7

LEMMA BudgetAttempt ==
  ASSUME BudgetInv, TypeInv', NEW w \in Worker, NEW c \in Delivery, NEW r \in Result,
         Attempt(w, c, r), NEW d \in Delivery
  PROVE  Budgeted(d)'
<1>1. /\ c \in batch[w] /\ cur[w] = NoRow
      /\ UNCHANGED <<status, attempts, batch, seen, lost, overtaken>>
      /\ cur'[w] = c /\ result'[w] = r
      /\ \A v \in Worker \ {w} : cur'[v] = cur[v] /\ result'[v] = result[v]
      /\ tries' = [tries EXCEPT ![c] = @ + 1]
      /\ accepted' = IF r \in {"ok", "late"} THEN [accepted EXCEPT ![c] = @ + 1] ELSE accepted
      /\ late' = IF r = "late" THEN [late EXCEPT ![c] = @ + 1] ELSE late
  BY DEF Attempt, table, BudgetInv, TypeInv, TypeOK
<1>2. Held(d)' = Held(d)
  BY <1>1 DEF Held
<1>3. CASE d # c
  <2>1. Waiting(d)' = Waiting(d)
    BY <1>1, <1>3, Rows DEF Waiting
  <2>2. Unsure(d)' => Unsure(d)
    BY <1>1, <1>2, <1>3 DEF Unsure
  <2>3. tries'[d] = tries[d] /\ accepted'[d] = accepted[d] /\ late'[d] = late[d]
    BY <1>1, <1>3 DEF BudgetInv, TypeInv, TypeOK
  <2> QED BY <1>1, <1>2, <2>1, <2>2, <2>3
          DEF BudgetInv, Budgeted, SendBudget, TryBudget, Pend
<1>4. CASE d = c
  <2>1. Waiting(d)' = Waiting(d) \ {w} /\ w \in Waiting(d)
    BY <1>1, <1>4, Rows DEF Waiting
  <2>2. /\ IsFiniteSet(Waiting(d)') /\ Pend(d)' = Pend(d) - 1
        /\ Pend(d)' \in Nat
    BY <2>1, Counts, FS_RemoveElement, FS_CardinalityType DEF Pend
  <2>3. tries'[d] = tries[d] + 1
    BY <1>1, <1>4 DEF BudgetInv, TypeInv, TypeOK
  <2>4. TryBudget(d)'
    BY <1>1, <1>2, <2>2, <2>3, Counts DEF BudgetInv, Budgeted, TryBudget
  <2>5. accepted'[d] = IF r \in {"ok", "late"} THEN accepted[d] + 1 ELSE accepted[d]
    BY <1>1, <1>4 DEF BudgetInv, TypeInv, TypeOK
  <2>6. late'[d] = IF r = "late" THEN late[d] + 1 ELSE late[d]
    BY <1>1, <1>4 DEF BudgetInv, TypeInv, TypeOK
  <2>7. r = "ok" => (Unsure(d)' => Unsure(d))
    BY <1>1, <1>2 DEF Unsure
  <2>8. SendBudget(d)'
    <3>1. /\ accepted[d] + Pend(d) <= 1 + lost[d] + late[d] + overtaken[d]
          /\ Unsure(d) => accepted[d] + Pend(d) <= lost[d] + late[d] + overtaken[d]
      BY DEF BudgetInv, Budgeted, SendBudget
    <3>2. CASE r = "ok"
      BY <1>1, <2>2, <2>5, <2>6, <2>7, <3>1, <3>2, Counts DEF SendBudget
    <3>3. CASE r # "ok"
      <4>1. accepted'[d] + Pend(d)' <= lost[d] + late'[d] + overtaken[d]
        BY <2>2, <2>5, <2>6, <3>1, <3>3, Counts
      <4>2. /\ accepted'[d] \in Nat /\ late'[d] \in Nat
        BY DEF TypeInv, TypeOK
      <4> QED BY <1>1, <2>2, <4>1, <4>2, Counts DEF SendBudget
    <3> QED BY <3>2, <3>3
  <2> QED BY <2>2, <2>4, <2>8 DEF Budgeted
<1> QED BY <1>3, <1>4

\* What both ends of an attempt do to the hands: the loop lets go of a row
\* that it no longer waits to attempt.
LEMMA LetGo ==
  ASSUME TypeInv, NEW w \in Worker, NEW c \in Delivery, cur[w] = c, Release(w)
  PROVE  /\ c \in batch[w]
         /\ cur' = [cur EXCEPT ![w] = NoRow]
         /\ result' = [result EXCEPT ![w] = "ok"]
         /\ batch' = [batch EXCEPT ![w] = @ \ {c}]
         /\ \A d \in Delivery : Waiting(d)' = Waiting(d)
         /\ \A d \in Delivery : \A v \in Worker :
              d \in batch'[v] => d \in batch[v] /\ seen'[v][d] = seen[v][d]
         /\ \A d \in Delivery \ {c} : /\ Held(d)' = Held(d)
                                      /\ InHand(d)' = InHand(d)
                                      /\ Unsure(d)' /\ status'[d] = status[d] => Unsure(d)
<1>1. /\ cur' = [cur EXCEPT ![w] = NoRow]
      /\ result' = [result EXCEPT ![w] = "ok"]
      /\ batch' = [batch EXCEPT ![w] = @ \ {c}]
      /\ seen' = [seen EXCEPT ![w][c] = 0]
  BY DEF Release
<1>2. c \in batch[w]
  BY Rows DEF TypeInv, AttemptLeft
<1>3. \A v \in Worker : batch'[v] = (IF v = w THEN batch[v] \ {c} ELSE batch[v])
  BY <1>1 DEF TypeInv, TypeOK
<1>4. \A v \in Worker : cur'[v] = (IF v = w THEN NoRow ELSE cur[v])
  BY <1>1 DEF TypeInv, TypeOK
<1>5. \A v \in Worker : result'[v] = (IF v = w THEN "ok" ELSE result[v])
  BY <1>1 DEF TypeInv, TypeOK
<1>6. \A v \in Worker, d \in Delivery :
        seen'[v][d] = (IF v = w /\ d = c THEN 0 ELSE seen[v][d])
  BY <1>1 DEF TypeInv, TypeOK
<1>7. \A d \in Delivery : Waiting(d)' = Waiting(d)
  BY <1>3, <1>4, Rows DEF Waiting
<1>8. \A d \in Delivery : \A v \in Worker :
        d \in batch'[v] => d \in batch[v] /\ seen'[v][d] = seen[v][d]
  BY <1>3, <1>6
<1>9. \A d \in Delivery \ {c} : Held(d)' = Held(d)
  BY <1>3 DEF Held
<1>10. \A d \in Delivery \ {c} : InHand(d)' = InHand(d)
  BY <1>4, Rows DEF InHand
<1>11. \A d \in Delivery \ {c} : Unsure(d)' /\ status'[d] = status[d] => Unsure(d)
  BY <1>4, <1>5, <1>9, Rows DEF Unsure
<1> QED BY <1>1, <1>2, <1>7, <1>8, <1>9, <1>10, <1>11

LEMMA BudgetSettle ==
  ASSUME BudgetInv, TypeInv', NEW w \in Worker, Settle(w), NEW d \in Delivery
  PROVE  Budgeted(d)'
<1> PICK c \in Delivery : c = cur[w]
  BY DEF Settle, BudgetInv, TypeInv, TypeOK
<1>1. /\ Mark(w) /\ Release(w)
      /\ UNCHANGED <<tries, lost, late, accepted, overtaken>>
  BY DEF Settle
<1>2. /\ c \in batch[w]
      /\ Waiting(d)' = Waiting(d)
      /\ \A v \in Worker : d \in batch'[v] => d \in batch[v] /\ seen'[v][d] = seen[v][d]
      /\ d # c => Held(d)' = Held(d) /\ (Unsure(d)' /\ status'[d] = status[d] => Unsure(d))
      /\ cur' = [cur EXCEPT ![w] = NoRow] /\ result' = [result EXCEPT ![w] = "ok"]
  BY <1>1, LetGo DEF BudgetInv
<1>3. /\ IsFiniteSet(Waiting(d)') /\ Pend(d)' = Pend(d)
  BY <1>2, Counts DEF Pend
<1>4. \A v \in Worker : d \in batch'[v] =>
        tries[d] + Pend(d) <= seen'[v][d] + 1 + lost[d] + overtaken[d]
  BY <1>2 DEF BudgetInv, Budgeted, TryBudget
<1>5. CASE d # c
  <2>1. status'[d] = status[d] /\ attempts'[d] = attempts[d]
    BY <1>1, <1>5 DEF Mark, MarkSent, MarkSkipped, MarkRetrying, BudgetInv, TypeInv, TypeOK
  <2>2. SendBudget(d)'
    BY <1>1, <1>2, <1>3, <1>5, <2>1 DEF BudgetInv, Budgeted, SendBudget
  <2>3. TryBudget(d)'
    BY <1>1, <1>2, <1>3, <1>4, <1>5, <2>1 DEF BudgetInv, Budgeted, TryBudget
  <2> QED BY <1>3, <2>2, <2>3 DEF Budgeted
<1>6. CASE d = c
  <2>1. \/ /\ result[w] \in {"ok", "nosubs"}
           /\ status'[d] \in {"sent", "skipped"}
           /\ attempts'[d] = attempts[d]
        \/ /\ result[w] # "ok"
           /\ attempts'[d] = seen[w][d] + 1
    BY <1>1, <1>6 DEF Mark, MarkSent, MarkSkipped, MarkRetrying, NextAttempts,
                      BudgetInv, TypeInv, TypeOK
  <2>2. Unsure(d)' => Unsure(d)
    <3>1. CASE \E v \in Worker : cur'[v] = d /\ result'[v] # "ok"
      <4> PICK v \in Worker : cur'[v] = d /\ result'[v] # "ok"
        BY <3>1
      <4>1. cur[v] = d /\ result[v] # "ok"
        BY <1>2 DEF BudgetInv, TypeInv, TypeOK
      <4> QED BY <4>1 DEF Unsure
    <3>2. CASE status'[d] \notin Terminal
      BY <1>6, <2>1, <3>2 DEF Unsure, Terminal
    <3> QED BY <3>1, <3>2 DEF Unsure
  <2>3. SendBudget(d)'
    BY <1>1, <1>3, <2>2 DEF BudgetInv, Budgeted, SendBudget
  <2>4. tries[d] + Pend(d) <= seen[w][d] + 1 + lost[d] + overtaken[d]
    BY <1>2, <1>6 DEF BudgetInv, Budgeted, TryBudget
  <2>5. /\ tries[d] + Pend(d) <= attempts'[d] + 1 + lost[d] + overtaken[d]
        /\ status'[d] \notin {"sent", "skipped"} =>
             tries[d] + Pend(d) <= attempts'[d] + lost[d] + overtaken[d]
    <3>1. CASE status'[d] \in {"sent", "skipped"} /\ attempts'[d] = attempts[d]
      BY <3>1 DEF BudgetInv, Budgeted, TryBudget
    <3>2. CASE attempts'[d] = seen[w][d] + 1
      <4>1. seen[w][d] \in Nat
        BY Counts
      <4> QED BY <2>4, <3>2, <4>1, Counts
    <3> QED BY <2>1, <3>1, <3>2
  <2>6. TryBudget(d)'
    BY <1>1, <1>3, <1>4, <2>5 DEF BudgetInv, Budgeted, TryBudget
  <2> QED BY <1>3, <2>3, <2>6 DEF Budgeted
<1> QED BY <1>5, <1>6

LEMMA BudgetSettleLost ==
  ASSUME BudgetInv, TypeInv', NEW w \in Worker, SettleLost(w), NEW d \in Delivery
  PROVE  Budgeted(d)'
<1> PICK c \in Delivery : c = cur[w]
  BY DEF SettleLost, BudgetInv, TypeInv, TypeOK
<1>1. /\ Release(w) /\ UNCHANGED <<status, attempts, tries, late, accepted, overtaken>>
      /\ lost'[d] = IF d = c THEN lost[d] + 1 ELSE lost[d]
  BY DEF SettleLost, table, BudgetInv, TypeInv, TypeOK
<1>2. /\ Waiting(d)' = Waiting(d)
      /\ \A v \in Worker : d \in batch'[v] => d \in batch[v] /\ seen'[v][d] = seen[v][d]
      /\ d # c => Held(d)' = Held(d) /\ (Unsure(d)' /\ status'[d] = status[d] => Unsure(d))
  BY <1>1, LetGo DEF BudgetInv
<1>3. /\ IsFiniteSet(Waiting(d)') /\ Pend(d)' = Pend(d)
  BY <1>2, Counts DEF Pend
<1>4. \A v \in Worker : d \in batch'[v] =>
        tries[d] + Pend(d) <= seen'[v][d] + 1 + lost[d] + overtaken[d]
  BY <1>2 DEF BudgetInv, Budgeted, TryBudget
<1>5. CASE d # c
  <2>1. SendBudget(d)'
    BY <1>1, <1>2, <1>3, <1>5 DEF BudgetInv, Budgeted, SendBudget
  <2>2. TryBudget(d)'
    BY <1>1, <1>2, <1>3, <1>4, <1>5 DEF BudgetInv, Budgeted, TryBudget
  <2> QED BY <1>3, <2>1, <2>2 DEF Budgeted
<1>6. CASE d = c
  <2>1. lost'[d] = lost[d] + 1
    BY <1>1, <1>6
  <2>2. SendBudget(d)'
    BY <1>1, <1>3, <2>1, Counts DEF BudgetInv, Budgeted, SendBudget
  <2>3. \A v \in Worker : seen'[v][d] \in Nat
    BY DEF TypeInv, TypeOK
  <2>4. TryBudget(d)'
    BY <1>1, <1>3, <1>4, <2>1, <2>3, Counts DEF BudgetInv, Budgeted, TryBudget
  <2> QED BY <1>3, <2>2, <2>4 DEF Budgeted
<1> QED BY <1>5, <1>6

\* A process that ends drops the rows its loops hold: one that was in hand is
\* paid for as lost, one that was waited for is attempted once less.
LEMMA BudgetExit ==
  ASSUME BudgetInv, TypeInv', NEW i \in Instance, Exit(i), NEW d \in Delivery
  PROVE  Budgeted(d)'
<1> DEFINE Mine == \E w \in Loops(i) : cur[w] = d
<1>1. /\ UNCHANGED <<status, attempts, tries, late, accepted, overtaken>>
      /\ lost'[d] = IF Mine THEN lost[d] + 1 ELSE lost[d]
      /\ \A w \in Loops(i) : batch'[w] = {} /\ cur'[w] = NoRow
      /\ \A w \in Worker \ Loops(i) :
           /\ batch'[w] = batch[w] /\ cur'[w] = cur[w] /\ result'[w] = result[w]
           /\ seen'[w] = seen[w]
      /\ Loops(i) \subseteq Worker
  BY DEF Exit, table, Loops
<1>2. /\ Waiting(d)' = Waiting(d) \ Loops(i)
      /\ Held(d)' => Held(d)
  BY <1>1, Rows DEF Waiting, Held
<1>3. /\ IsFiniteSet(Waiting(d)') /\ Pend(d)' \in Nat
      /\ Pend(d)' <= Pend(d)
      /\ Waiting(d)' # Waiting(d) => Pend(d)' < Pend(d)
  <2>1. Waiting(d)' \subseteq Waiting(d)
    BY <1>2
  <2> QED BY <2>1, Counts, FS_Subset, FS_CardinalityType DEF Pend
<1>4. /\ lost'[d] \in Nat /\ lost'[d] >= lost[d]
      /\ Mine => lost'[d] = lost[d] + 1
  BY <1>1, Counts
<1>5. \A w \in Worker : d \in batch'[w] => d \in batch[w] /\ seen'[w][d] = seen[w][d]
  BY <1>1
<1>6. Held(d) /\ ~Held(d)' => Mine \/ Waiting(d)' # Waiting(d)
  <2> SUFFICES ASSUME Held(d), ~Held(d)' PROVE Mine \/ Waiting(d)' # Waiting(d)
    OBVIOUS
  <2> PICK w \in Worker : d \in batch[w]
    BY DEF Held
  <2>1. w \in Loops(i)
    BY <1>1 DEF Held
  <2>2. cur[w] # d => w \in Waiting(d) /\ w \notin Waiting(d)'
    BY <1>2, <2>1 DEF Waiting
  <2> QED BY <2>1, <2>2
<1>7. SendBudget(d)'
  <2>1. CASE Mine \/ Waiting(d)' # Waiting(d)
    BY <1>1, <1>3, <1>4, <2>1, Counts DEF BudgetInv, Budgeted, SendBudget
  <2>2. CASE ~(Mine \/ Waiting(d)' # Waiting(d))
    <3>1. Held(d) => Held(d)'
      BY <1>6, <2>2
    <3>2. Unsure(d)' => Unsure(d)
      BY <1>1, <1>2, <3>1, Rows DEF Unsure
    <3> QED BY <1>1, <1>3, <1>4, <3>2, Counts DEF BudgetInv, Budgeted, SendBudget
  <2> QED BY <2>1, <2>2
<1>8. TryBudget(d)'
  <2>1. /\ tries[d] + Pend(d)' <= MaxAttempts + lost'[d] + overtaken[d]
        /\ tries[d] + Pend(d)' <= attempts[d] + 1 + lost'[d] + overtaken[d]
    BY <1>3, <1>4, Counts DEF BudgetInv, Budgeted, TryBudget
  <2>2. ASSUME NEW w \in Worker, d \in batch'[w]
        PROVE  tries[d] + Pend(d)' <= seen'[w][d] + 1 + lost'[d] + overtaken[d]
    BY <1>3, <1>4, <1>5, <2>2, Counts DEF BudgetInv, Budgeted, TryBudget
  <2>3. ASSUME ~Held(d)', status[d] \notin {"sent", "skipped"}
        PROVE  tries[d] + Pend(d)' <= attempts[d] + lost'[d] + overtaken[d]
    <3>1. CASE Held(d)
      BY <1>3, <1>4, <1>6, <2>3, <3>1, Counts DEF BudgetInv, Budgeted, TryBudget
    <3>2. CASE ~Held(d)
      BY <1>3, <1>4, <2>3, <3>2, Counts DEF BudgetInv, Budgeted, TryBudget
    <3> QED BY <3>1, <3>2
  <2> QED BY <1>1, <2>1, <2>2, <2>3 DEF TryBudget
<1> QED BY <1>3, <1>7, <1>8 DEF Budgeted

LEMMA BudgetStep ==
  ASSUME BudgetInv, [Next]_vars
  PROVE  BudgetInv'
<1>1. TypeInv'
  BY TypeStep DEF BudgetInv
<1> SUFFICES ASSUME NEW d \in Delivery PROVE Budgeted(d)'
  BY <1>1 DEF BudgetInv
<1>2. ASSUME NEW e \in Delivery, Enqueue(e) PROVE Budgeted(d)'
  <2>1. UNCHANGED <<attempts, batch, seen, cur, result, history>>
    BY <1>2 DEF Enqueue, hand
  <2>2. status'[d] = status[d] \/ {status[d], status'[d]} \cap Terminal = {}
    BY <1>2 DEF Enqueue, Terminal, BudgetInv, TypeInv, TypeOK
  <2> QED BY <1>1, <2>1, <2>2, BudgetQuiet
<1>3. ASSUME NEW w \in Worker, ClaimLost(w) PROVE Budgeted(d)'
  <2> PICK rows \in SUBSET Delivery : Claimable(Eligible(w), rows) /\ Flip(rows)
    BY <1>3 DEF ClaimLost
  <2>1. UNCHANGED <<attempts, batch, seen, cur, result, history>>
    BY <1>3 DEF ClaimLost, hand, Flip
  <2>2. status'[d] = status[d] \/ {status[d], status'[d]} \cap Terminal = {}
    BY ClaimTakesOpenRows DEF Flip, Terminal, BudgetInv, TypeInv
  <2> QED BY <1>1, <2>1, <2>2, BudgetQuiet
<1>4. ASSUME NEW w \in Worker, Claim(w) PROVE Budgeted(d)'
  BY <1>1, <1>4, BudgetClaim
<1>5. ASSUME NEW w \in Worker, Step(w) PROVE Budgeted(d)'
  BY <1>1, <1>5, BudgetAttempt, BudgetSettle, BudgetSettleLost DEF Step
<1>6. ASSUME NEW i \in Instance, Exit(i) PROVE Budgeted(d)'
  BY <1>1, <1>6, BudgetExit
<1>7. ASSUME UNCHANGED <<status, attempts, batch, seen, cur, result, history>>
      PROVE  Budgeted(d)'
  BY <1>1, <1>7, BudgetQuiet
<1>8. ASSUME NEW i \in Instance, Stop(i) \/ Restart(i) PROVE Budgeted(d)'
  BY <1>7, <1>8 DEF Stop, Restart, table, hand
<1>9. CASE Tick \/ UNCHANGED vars
  BY <1>7, <1>9 DEF Tick, vars, table, hand
<1> QED
  BY <1>2, <1>3, <1>4, <1>5, <1>6, <1>8, <1>9 DEF Next, Poll, Process

LEMMA BudgetInit == Init => BudgetInv
<1> SUFFICES ASSUME Init, NEW d \in Delivery PROVE Budgeted(d)
  BY TypeInit DEF BudgetInv
<1>1. Waiting(d) = {}
  BY DEF Init, Waiting
<1>2. IsFiniteSet(Waiting(d)) /\ Pend(d) = 0
  BY <1>1, FS_EmptySet DEF Pend
<1>3. \A w \in Worker : cur[w] # d
  BY Rows DEF Init
<1> QED BY <1>2, <1>3 DEF Init, Budgeted, SendBudget, TryBudget, Unsure, Terminal, Held

LEMMA BudgetInvariant == SafeSpec => []BudgetInv
<1>1. BudgetInv /\ [Next]_vars => BudgetInv'
  BY BudgetStep
<1> QED BY <1>1, BudgetInit, PTL DEF SafeSpec

-----------------------------------------------------------------------------
(* Rows that were never claimed from under a loop *)

\* One loop at most holds the row, which is as that loop claimed it.
HeldAlone(d) ==
  \A w \in Worker : d \in batch[w] =>
    /\ status[d] = "processing"
    /\ seen[w][d] = attempts[d]
    /\ \A v \in Worker \ {w} : d \notin batch[v]

Counted(d) ==
  tries[d] = attempts[d] + lost[d]
               + (IF status[d] \in {"sent", "skipped"} \/ InHand(d) THEN 1 ELSE 0)

Truthful(d) == lost[d] = 0 => audited[d] \subseteq {status[d]}

Calm(d) == overtaken[d] = 0 => HeldAlone(d) /\ Counted(d) /\ Truthful(d)

\* A loop that is about to record success has had its message accepted.
OkIsAccepted ==
  \A w \in Worker, d \in Delivery : cur[w] = d /\ result[w] = "ok" => accepted[d] > 0

\* No column and no loop's snapshot counts an attempt that was not made.
CountsMade ==
  \A d \in Delivery :
    /\ attempts[d] <= tries[d]
    /\ \A w \in Worker : /\ seen[w][d] <= tries[d]
                         /\ cur[w] = d => seen[w][d] < tries[d]

\* No entry tells of a sending or of attempts that were not.
TrailBacked ==
  \A d \in Delivery : /\ "sent" \in audited[d] => accepted[d] > 0
                      /\ "failed" \in audited[d] => tries[d] >= MaxAttempts

QueueInv == /\ BudgetInv /\ OkIsAccepted /\ CountsMade /\ TrailBacked
            /\ \A d \in Delivery : Calm(d)

LEMMA QueueTyped == QueueInv => TypeInv
  BY DEF QueueInv, BudgetInv

\* A step that leaves hands and history alone and neither ends a row nor
\* changes one that is held or has ended.
LEMMA CalmQuiet ==
  ASSUME QueueInv, NEW d \in Delivery, UNCHANGED <<attempts, batch, seen, cur, history>>,
         \/ status'[d] = status[d]
         \/ {status[d], status'[d]} \cap Terminal = {} /\ ~Held(d)
         \/ {status[d], status'[d]} \cap Terminal = {} /\ status'[d] = "processing"
  PROVE  Calm(d)'
<1>1. InHand(d)' = InHand(d)
      /\ UNCHANGED <<tries, lost, overtaken, audited>>
  BY DEF InHand, history
<1> SUFFICES ASSUME overtaken[d] = 0 PROVE HeldAlone(d)' /\ Counted(d)' /\ Truthful(d)'
  BY <1>1 DEF Calm
<1>2. HeldAlone(d) /\ Counted(d) /\ Truthful(d)
  BY DEF QueueInv, Calm
<1>3. HeldAlone(d)'
  BY <1>2 DEF HeldAlone, Held
<1>4. Counted(d)'
  BY <1>1, <1>2 DEF Counted, Terminal
<1>5. Truthful(d)'
  <2>1. audited[d] \subseteq {"sent", "failed"}
    BY QueueTyped DEF TypeInv, TypeOK
  <2> QED BY <1>1, <1>2, <2>1 DEF Truthful, Terminal
<1> QED BY <1>3, <1>4, <1>5

LEMMA CalmClaim ==
  ASSUME QueueInv, NEW w \in Worker, Claim(w), NEW d \in Delivery
  PROVE  Calm(d)'
<1> PICK rows \in SUBSET Delivery :
      Claimable(Eligible(w), rows) /\ Flip(rows) /\ Hold(w, rows) /\ Overtake(rows)
  BY DEF Claim
<1>1. /\ batch[w] = {}
      /\ UNCHANGED <<attempts, cur, tries, lost, audited>>
      /\ batch' = [batch EXCEPT ![w] = rows]
      /\ seen'[w] = [e \in Delivery |-> IF e \in rows THEN attempts[e] ELSE 0]
      /\ \A v \in Worker \ {w} : seen'[v] = seen[v] /\ batch'[v] = batch[v]
      /\ batch'[w] = rows
      /\ status'[d] = IF d \in rows THEN "processing" ELSE status[d]
      /\ overtaken'[d] = IF d \in rows /\ Held(d) THEN overtaken[d] + 1 ELSE overtaken[d]
  BY QueueTyped DEF Claim, Idle, Hold, Flip, Overtake, TypeInv, TypeOK
<1>2. overtaken[d] \in Nat
  BY QueueTyped DEF TypeInv, TypeOK
<1> SUFFICES ASSUME overtaken'[d] = 0 PROVE HeldAlone(d)' /\ Counted(d)' /\ Truthful(d)'
  BY DEF Calm
<1>3. overtaken[d] = 0 /\ (d \in rows => ~Held(d))
  BY <1>1, <1>2
<1>4. HeldAlone(d) /\ Counted(d) /\ Truthful(d)
  BY <1>3 DEF QueueInv, Calm
<1>5. d \in rows => status[d] \notin Terminal
  BY ClaimTakesOpenRows, QueueTyped DEF TypeInv, Terminal
<1>6. InHand(d)' = InHand(d)
  BY <1>1 DEF InHand
<1>7. HeldAlone(d)'
  <2>1. CASE d \in rows
    BY <1>1, <1>3, <2>1 DEF HeldAlone, Held
  <2>2. CASE d \notin rows
    BY <1>1, <1>4, <2>2 DEF HeldAlone
  <2> QED BY <2>1, <2>2
<1>8. Counted(d)'
  BY <1>1, <1>4, <1>5, <1>6 DEF Counted, Terminal
<1>9. Truthful(d)'
  <2>1. audited[d] \subseteq {"sent", "failed"}
    BY QueueTyped DEF TypeInv, TypeOK
  <2> QED BY <1>1, <1>4, <1>5, <2>1 DEF Truthful, Terminal
<1> QED BY <1>7, <1>8, <1>9

LEMMA CalmAttempt ==
  ASSUME QueueInv, NEW w \in Worker, NEW c \in Delivery, NEW r \in Result,
         Attempt(w, c, r), NEW d \in Delivery
  PROVE  Calm(d)'
<1>1. /\ c \in batch[w] /\ cur[w] = NoRow /\ cur' = [cur EXCEPT ![w] = c]
      /\ UNCHANGED <<status, attempts, batch, seen, lost, overtaken, audited>>
      /\ tries'[d] = IF d = c THEN tries[d] + 1 ELSE tries[d]
  BY QueueTyped DEF Attempt, table, TypeInv, TypeOK
<1> SUFFICES ASSUME overtaken[d] = 0 PROVE HeldAlone(d)' /\ Counted(d)' /\ Truthful(d)'
  BY <1>1 DEF Calm
<1>2. HeldAlone(d) /\ Counted(d) /\ Truthful(d)
  BY DEF QueueInv, Calm
<1>3. HeldAlone(d)' /\ Truthful(d)'
  BY <1>1, <1>2 DEF HeldAlone, Truthful
<1>4. Counted(d)'
  <2>1. CASE d = c
    <3>1. status[d] = "processing" /\ ~InHand(d)
      BY <1>1, <1>2, <2>1, QueueTyped, Rows DEF HeldAlone, InHand, TypeInv, AttemptLeft
    <3>2. InHand(d)'
      BY <1>1, <2>1, QueueTyped DEF InHand, TypeInv, TypeOK
    <3>3. attempts[d] \in Nat /\ lost[d] \in Nat
      BY QueueTyped DEF TypeInv, TypeOK
    <3> QED BY <1>1, <1>2, <2>1, <3>1, <3>2, <3>3 DEF Counted
  <2>2. CASE d # c
    <3>1. InHand(d)' = InHand(d)
      BY <1>1, <2>2, QueueTyped, Rows DEF InHand, TypeInv, TypeOK
    <3> QED BY <1>1, <1>2, <2>2, <3>1 DEF Counted
  <2> QED BY <2>1, <2>2
<1> QED BY <1>3, <1>4

\* Both ends of an attempt: the row leaves its loop's hand, every other row
\* stays where it was.
LEMMA CalmLetGo ==
  ASSUME QueueInv, NEW w \in Worker, NEW c \in Delivery, cur[w] = c, Release(w),
         NEW d \in Delivery, overtaken[d] = 0,
         d # c => status'[d] = status[d] /\ attempts'[d] = attempts[d]
  PROVE  /\ HeldAlone(d) /\ Counted(d) /\ Truthful(d)
         /\ HeldAlone(d)'
         /\ d # c => InHand(d)' = InHand(d)
         /\ d = c => /\ InHand(d) /\ ~InHand(d)' /\ d \in batch[w]
                     /\ status[d] = "processing" /\ NextAttempts(w) = attempts[d] + 1
<1>1. HeldAlone(d) /\ Counted(d) /\ Truthful(d)
  BY DEF QueueInv, Calm
<1>2. /\ c \in batch[w]
      /\ cur' = [cur EXCEPT ![w] = NoRow]
      /\ batch' = [batch EXCEPT ![w] = @ \ {c}]
      /\ \A v \in Worker : d \in batch'[v] => d \in batch[v] /\ seen'[v][d] = seen[v][d]
      /\ d # c => InHand(d)' = InHand(d)
  BY LetGo, QueueTyped
<1>3. CASE d = c
  <2>1. \A v \in Worker \ {w} : d \notin batch[v] /\ cur[v] # d
    BY <1>1, <1>2, <1>3, QueueTyped, Rows DEF HeldAlone, TypeInv, AttemptLeft
  <2>2. \A v \in Worker : d \notin batch'[v] /\ cur'[v] # d
    BY <1>2, <1>3, <2>1, QueueTyped, Rows DEF TypeInv, TypeOK
  <2>3. status[d] = "processing" /\ NextAttempts(w) = attempts[d] + 1
    BY <1>1, <1>2, <1>3 DEF HeldAlone, NextAttempts
  <2> QED BY <1>1, <1>2, <1>3, <2>2, <2>3 DEF HeldAlone, InHand
<1>4. CASE d # c
  <2>1. HeldAlone(d)'
    BY <1>1, <1>2, <1>4 DEF HeldAlone
  <2> QED BY <1>1, <1>2, <1>4, <2>1
<1> QED BY <1>3, <1>4

LEMMA CalmSettle ==
  ASSUME QueueInv, NEW w \in Worker, Settle(w), NEW d \in Delivery
  PROVE  Calm(d)'
<1> PICK c \in Delivery : c = cur[w]
  BY QueueTyped DEF Settle, TypeInv, TypeOK
<1>1. /\ Mark(w) /\ Record(w) /\ Release(w)
      /\ UNCHANGED <<tries, lost, overtaken>>
  BY DEF Settle
<1>2. d # c => status'[d] = status[d] /\ attempts'[d] = attempts[d]
  BY <1>1, QueueTyped DEF Mark, MarkSent, MarkSkipped, MarkRetrying, TypeInv, TypeOK
<1> SUFFICES ASSUME overtaken[d] = 0 PROVE HeldAlone(d)' /\ Counted(d)' /\ Truthful(d)'
  BY <1>1 DEF Calm
<1>3. /\ HeldAlone(d) /\ Counted(d) /\ Truthful(d)
      /\ HeldAlone(d)'
      /\ d # c => InHand(d)' = InHand(d)
      /\ d = c => /\ InHand(d) /\ ~InHand(d)' /\ d \in batch[w]
                  /\ status[d] = "processing" /\ NextAttempts(w) = attempts[d] + 1
  BY <1>1, <1>2, CalmLetGo
<1>4. audited'[d] = IF d = c THEN audited[d] \cup Entry(w) ELSE audited[d]
  BY <1>1, QueueTyped DEF Record, TypeInv, TypeOK
<1>5. CASE d # c
  BY <1>1, <1>2, <1>3, <1>4, <1>5 DEF Counted, Truthful
<1>6. CASE d = c
  <2>1. \/ result[w] = "ok" /\ status'[d] = "sent" /\ attempts'[d] = attempts[d]
        \/ result[w] = "nosubs" /\ status'[d] = "skipped" /\ attempts'[d] = attempts[d]
        \/ /\ result[w] \in {"error", "late"}
           /\ status'[d] = RetryStatus(NextAttempts(w))
           /\ attempts'[d] = attempts[d] + 1
    BY <1>1, <1>3, <1>6, QueueTyped DEF Mark, MarkSent, MarkSkipped, MarkRetrying,
                                        TypeInv, TypeOK
  <2>2. RetryStatus(NextAttempts(w)) \in {"failed", "retrying"}
    BY DEF RetryStatus
  <2>3. Counted(d)'
    <3>1. tries[d] = attempts[d] + lost[d] + 1
      BY <1>3, <1>6 DEF Counted
    <3>2. attempts[d] \in Nat /\ lost[d] \in Nat
      BY QueueTyped DEF TypeInv, TypeOK
    <3> QED BY <1>1, <1>3, <1>6, <2>1, <2>2, <3>1, <3>2 DEF Counted
  <2>4. Truthful(d)'
    <3>1. audited[d] \subseteq {"sent", "failed"}
      BY QueueTyped DEF TypeInv, TypeOK
    <3>2. lost[d] = 0 => audited[d] = {}
      BY <1>3, <1>6, <3>1 DEF Truthful
    <3>3. Entry(w) \subseteq {status'[d]}
      BY <2>1 DEF Entry, RetryStatus
    <3> QED BY <1>1, <1>4, <1>6, <3>2, <3>3 DEF Truthful
  <2> QED BY <1>3, <2>3, <2>4
<1> QED BY <1>5, <1>6

LEMMA CalmSettleLost ==
  ASSUME QueueInv, NEW w \in Worker, SettleLost(w), NEW d \in Delivery
  PROVE  Calm(d)'
<1> PICK c \in Delivery : c = cur[w]
  BY QueueTyped DEF SettleLost, TypeInv, TypeOK
<1>1. /\ Record(w) /\ Release(w)
      /\ UNCHANGED <<status, attempts, tries, overtaken>>
      /\ lost'[d] = IF d = c THEN lost[d] + 1 ELSE lost[d]
  BY QueueTyped DEF SettleLost, table, TypeInv, TypeOK
<1> SUFFICES ASSUME overtaken[d] = 0 PROVE HeldAlone(d)' /\ Counted(d)' /\ Truthful(d)'
  BY <1>1 DEF Calm
<1>2. /\ HeldAlone(d) /\ Counted(d) /\ Truthful(d)
      /\ HeldAlone(d)'
      /\ d # c => InHand(d)' = InHand(d)
      /\ d = c => InHand(d) /\ ~InHand(d)' /\ status[d] = "processing"
  BY <1>1, CalmLetGo
<1>3. attempts[d] \in Nat /\ lost[d] \in Nat
  BY QueueTyped DEF TypeInv, TypeOK
<1>4. Counted(d)'
  BY <1>1, <1>2, <1>3 DEF Counted
<1>5. Truthful(d)'
  <2>1. CASE d = c
    BY <1>1, <1>3, <2>1 DEF Truthful
  <2>2. CASE d # c
    BY <1>1, <1>2, <2>2, QueueTyped DEF Record, Truthful, TypeInv, TypeOK
  <2> QED BY <2>1, <2>2
<1> QED BY <1>2, <1>4, <1>5

LEMMA CalmExit ==
  ASSUME QueueInv, NEW i \in Instance, Exit(i), NEW d \in Delivery
  PROVE  Calm(d)'
<1> DEFINE Mine == \E w \in Loops(i) : cur[w] = d
<1>1. /\ UNCHANGED <<status, attempts, tries, overtaken, audited>>
      /\ lost'[d] = IF Mine THEN lost[d] + 1 ELSE lost[d]
      /\ \A w \in Loops(i) : batch'[w] = {} /\ cur'[w] = NoRow
      /\ \A w \in Worker \ Loops(i) :
           batch'[w] = batch[w] /\ cur'[w] = cur[w] /\ seen'[w] = seen[w]
      /\ Loops(i) \subseteq Worker
  BY DEF Exit, table, Loops
<1> SUFFICES ASSUME overtaken[d] = 0 PROVE HeldAlone(d)' /\ Counted(d)' /\ Truthful(d)'
  BY <1>1 DEF Calm
<1>2. HeldAlone(d) /\ Counted(d) /\ Truthful(d)
  BY DEF QueueInv, Calm
<1>3. HeldAlone(d)'
  BY <1>1, <1>2 DEF HeldAlone
<1>4. attempts[d] \in Nat /\ lost[d] \in Nat
  BY QueueTyped DEF TypeInv, TypeOK
<1>5. CASE Mine
  <2> PICK w \in Loops(i) : cur[w] = d
    BY <1>5
  <2>1. w \in Worker /\ d \in batch[w]
    BY <1>1, Rows, QueueTyped DEF TypeInv, AttemptLeft
  <2>2. \A v \in Worker \ {w} : cur[v] # d
    BY <1>2, <2>1, Rows, QueueTyped DEF HeldAlone, TypeInv, AttemptLeft
  <2>3. InHand(d) /\ ~InHand(d)'
    BY <1>1, <2>1, <2>2, Rows DEF InHand
  <2>4. status[d] = "processing"
    BY <1>2, <2>1 DEF HeldAlone
  <2> QED BY <1>1, <1>2, <1>3, <1>4, <1>5, <2>3, <2>4 DEF Counted, Truthful
<1>6. CASE ~Mine
  <2>1. InHand(d)' = InHand(d)
    BY <1>1, <1>6, Rows DEF InHand
  <2> QED BY <1>1, <1>2, <1>3, <1>6, <2>1 DEF Counted, Truthful
<1> QED BY <1>5, <1>6

LEMMA OkIsAcceptedStep ==
  ASSUME QueueInv, [Next]_vars
  PROVE  OkIsAccepted'
<1>1. \A d \in Delivery : accepted[d] \in Nat /\ accepted'[d] \in Nat
  BY TypeStep, QueueTyped DEF TypeInv, TypeOK
<1>2. ASSUME NEW w \in Worker, NEW c \in Delivery, NEW r \in Result, Attempt(w, c, r)
      PROVE  OkIsAccepted'
  <2>1. /\ cur'[w] = c /\ result'[w] = r
        /\ \A v \in Worker \ {w} : cur'[v] = cur[v] /\ result'[v] = result[v]
        /\ \A d \in Delivery : accepted'[d] >= accepted[d]
        /\ r = "ok" => accepted'[c] = accepted[c] + 1
    BY <1>1, <1>2, QueueTyped DEF Attempt, TypeInv, TypeOK
  <2> SUFFICES ASSUME NEW v \in Worker, NEW d \in Delivery, cur'[v] = d, result'[v] = "ok"
               PROVE  accepted'[d] > 0
    BY DEF OkIsAccepted
  <2>2. CASE v = w
    BY <1>1, <2>1, <2>2
  <2>3. CASE v # w
    <3>1. accepted[d] > 0
      BY <2>1, <2>3 DEF QueueInv, OkIsAccepted
    <3> QED BY <1>1, <2>1, <3>1
  <2> QED BY <2>2, <2>3
<1>3. ASSUME NEW w \in Worker, Settle(w) \/ SettleLost(w) PROVE OkIsAccepted'
  <2>1. /\ UNCHANGED accepted
        /\ cur' = [cur EXCEPT ![w] = NoRow] /\ result' = [result EXCEPT ![w] = "ok"]
    BY <1>3 DEF Settle, SettleLost, Release
  <2> QED BY <2>1, Rows, QueueTyped DEF QueueInv, OkIsAccepted, TypeInv, TypeOK
<1>4. ASSUME NEW i \in Instance, Exit(i) PROVE OkIsAccepted'
  BY <1>4, Rows DEF Exit, QueueInv, OkIsAccepted
<1>5. ASSUME UNCHANGED <<cur, result, accepted>> PROVE OkIsAccepted'
  BY <1>5 DEF QueueInv, OkIsAccepted
<1>6. ASSUME NEW d \in Delivery, Enqueue(d) PROVE OkIsAccepted'
  BY <1>5, <1>6 DEF Enqueue, hand, history
<1>7. ASSUME NEW w \in Worker, Poll(w) PROVE OkIsAccepted'
  BY <1>5, <1>7 DEF Poll, Claim, ClaimLost, Hold, hand, history
<1>8. ASSUME NEW i \in Instance, Stop(i) \/ Restart(i) PROVE OkIsAccepted'
  BY <1>5, <1>8 DEF Stop, Restart, hand, history
<1>9. CASE Tick \/ UNCHANGED vars
  BY <1>5, <1>9 DEF Tick, vars, hand, history
<1> QED
  BY <1>2, <1>3, <1>4, <1>6, <1>7, <1>8, <1>9 DEF Next, Step, Process

LEMMA CountsMadeStep ==
  ASSUME QueueInv, [Next]_vars
  PROVE  CountsMade'
<1> USE DEF QueueInv
<1>1. /\ \A d \in Delivery : attempts[d] \in Nat /\ tries[d] \in Nat
      /\ \A w \in Worker, d \in Delivery : seen[w][d] \in Nat
  BY QueueTyped DEF TypeInv, TypeOK
<1>2. ASSUME UNCHANGED <<attempts, tries, cur, seen>> PROVE CountsMade'
  BY <1>2 DEF CountsMade
<1>3. ASSUME NEW w \in Worker, Claim(w) PROVE CountsMade'
  <2> PICK rows \in SUBSET Delivery : Flip(rows) /\ Hold(w, rows)
    BY <1>3 DEF Claim
  <2>1. /\ UNCHANGED <<attempts, cur, tries>> /\ cur[w] = NoRow
        /\ \A d \in Delivery : seen'[w][d] = IF d \in rows THEN attempts[d] ELSE 0
        /\ \A v \in Worker \ {w} : seen'[v] = seen[v]
    BY <1>3, QueueTyped DEF Claim, Idle, Flip, Hold, TypeInv, TypeOK, AttemptLeft
  <2> SUFFICES ASSUME NEW d \in Delivery, NEW v \in Worker
               PROVE  seen'[v][d] <= tries[d] /\ (cur[v] = d => seen'[v][d] < tries[d])
    BY <2>1 DEF CountsMade
  <2> QED BY <1>1, <2>1, Rows DEF CountsMade
<1>4. ASSUME NEW w \in Worker, NEW c \in Delivery, NEW r \in Result, Attempt(w, c, r)
      PROVE  CountsMade'
  <2>1. /\ UNCHANGED <<attempts, seen>> /\ cur' = [cur EXCEPT ![w] = c]
        /\ \A d \in Delivery : tries'[d] = IF d = c THEN tries[d] + 1 ELSE tries[d]
    BY <1>4, QueueTyped DEF Attempt, table, TypeInv, TypeOK
  <2> SUFFICES ASSUME NEW d \in Delivery
               PROVE  /\ attempts[d] <= tries'[d]
                      /\ \A v \in Worker : /\ seen[v][d] <= tries'[d]
                                           /\ cur'[v] = d => seen[v][d] < tries'[d]
    BY <2>1 DEF CountsMade
  <2>2. attempts[d] <= tries[d] /\ \A v \in Worker : seen[v][d] <= tries[d]
    BY DEF CountsMade
  <2>3. CASE d = c
    BY <1>1, <2>1, <2>2, <2>3
  <2>4. CASE d # c
    <3>1. \A v \in Worker : cur'[v] = d => cur[v] = d
      BY <2>1, <2>4, QueueTyped DEF TypeInv, TypeOK
    <3> QED BY <2>1, <2>2, <2>4, <3>1 DEF CountsMade
  <2> QED BY <2>3, <2>4
<1>5. ASSUME NEW w \in Worker, NEW c \in Delivery, c = cur[w], Release(w), UNCHANGED tries,
             \A d \in Delivery : attempts'[d] <= tries[d]
      PROVE  CountsMade'
  <2>1. /\ cur' = [cur EXCEPT ![w] = NoRow]
        /\ \A d \in Delivery : \A v \in Worker : seen'[v][d] \in {0, seen[v][d]}
    BY <1>5, QueueTyped DEF Release, TypeInv, TypeOK
  <2> SUFFICES ASSUME NEW d \in Delivery, NEW v \in Worker
               PROVE  seen'[v][d] <= tries[d] /\ (cur'[v] = d => seen'[v][d] < tries[d])
    BY <1>5 DEF CountsMade
  <2>2. cur'[v] = d => cur[v] = d
    BY <2>1, Rows, QueueTyped DEF TypeInv, TypeOK
  <2> QED BY <1>1, <2>1, <2>2 DEF CountsMade
<1>6. ASSUME NEW w \in Worker, Settle(w) PROVE CountsMade'
  <2> PICK c \in Delivery : c = cur[w]
    BY <1>6, QueueTyped DEF Settle, TypeInv, TypeOK
  <2>1. Mark(w) /\ Release(w) /\ UNCHANGED tries
    BY <1>6 DEF Settle
  <2>2. seen[w][c] < tries[c]
    BY DEF CountsMade
  <2>3. \A d \in Delivery : \/ attempts'[d] = attempts[d]
                            \/ d = c /\ attempts'[d] = seen[w][c] + 1
    <3>1. UNCHANGED attempts \/ attempts' = [attempts EXCEPT ![c] = seen[w][c] + 1]
      BY <2>1 DEF Mark, MarkSent, MarkSkipped, MarkRetrying, NextAttempts
    <3> QED BY <3>1, QueueTyped DEF TypeInv, TypeOK
  <2>4. \A d \in Delivery : attempts'[d] <= tries[d]
    BY <1>1, <2>2, <2>3 DEF CountsMade
  <2> QED BY <1>5, <2>1, <2>4
<1>7. ASSUME NEW w \in Worker, SettleLost(w) PROVE CountsMade'
  <2>1. /\ cur[w] \in Delivery /\ Release(w) /\ UNCHANGED <<tries, attempts>>
    BY <1>7, QueueTyped DEF SettleLost, table, TypeInv, TypeOK
  <2> QED BY <1>5, <2>1 DEF CountsMade
<1>8. ASSUME NEW i \in Instance, Exit(i) PROVE CountsMade'
  <2>1. /\ UNCHANGED <<attempts, tries>>
        /\ \A v \in Worker : \/ cur'[v] = cur[v] /\ seen'[v] = seen[v]
                             \/ cur'[v] = NoRow /\ \A d \in Delivery : seen'[v][d] = 0
    <3>1. /\ UNCHANGED <<attempts, tries>>
          /\ \A v \in Worker : v \in Loops(i) =>
               cur'[v] = NoRow /\ \A d \in Delivery : seen'[v][d] = 0
      BY <1>8 DEF Exit, table
    <3>2. \A v \in Worker : v \notin Loops(i) => cur'[v] = cur[v] /\ seen'[v] = seen[v]
      BY <1>8 DEF Exit
    <3> QED BY <3>1, <3>2
  <2> SUFFICES ASSUME NEW d \in Delivery, NEW v \in Worker
               PROVE  seen'[v][d] <= tries[d] /\ (cur'[v] = d => seen'[v][d] < tries[d])
    BY <2>1 DEF CountsMade
  <2> QED BY <1>1, <2>1, Rows DEF CountsMade
<1>9. ASSUME NEW d \in Delivery, Enqueue(d) PROVE CountsMade'
  BY <1>2, <1>9 DEF Enqueue, hand, history
<1>10. ASSUME NEW w \in Worker, ClaimLost(w) PROVE CountsMade'
  BY <1>2, <1>10 DEF ClaimLost, Flip, hand, history
<1>11. ASSUME NEW i \in Instance, Stop(i) \/ Restart(i) PROVE CountsMade'
  BY <1>2, <1>11 DEF Stop, Restart, table, hand, history
<1>12. CASE Tick \/ UNCHANGED vars
  BY <1>2, <1>12 DEF Tick, vars, table, hand, history
<1> QED
  BY <1>3, <1>4, <1>6, <1>7, <1>8, <1>9, <1>10, <1>11, <1>12 DEF Next, Poll, Step, Process

LEMMA TrailBackedStep ==
  ASSUME QueueInv, [Next]_vars
  PROVE  TrailBacked'
<1> USE DEF QueueInv
<1>1. \A d \in Delivery : /\ tries[d] \in Nat /\ accepted[d] \in Nat
                          /\ \A w \in Worker : seen[w][d] \in Nat
  BY QueueTyped DEF TypeInv, TypeOK
<1>2. ASSUME UNCHANGED <<audited, accepted, tries>> PROVE TrailBacked'
  BY <1>2 DEF TrailBacked
<1>3. ASSUME NEW w \in Worker, NEW c \in Delivery, c = cur[w], Record(w),
             UNCHANGED <<accepted, tries>>
      PROVE  TrailBacked'
  <2>1. \A d \in Delivery : audited'[d] = IF d = c THEN audited[d] \cup Entry(w) ELSE audited[d]
    BY <1>3, QueueTyped DEF Record, TypeInv, TypeOK
  <2>2. "sent" \in Entry(w) => accepted[c] > 0
    BY <1>3 DEF Entry, OkIsAccepted
  <2>3. "failed" \in Entry(w) => tries[c] >= MaxAttempts
    <3>1. seen[w][c] < tries[c]
      BY <1>3 DEF CountsMade
    <3> QED BY <1>1, <1>3, <3>1 DEF Entry, NextAttempts
  <2> QED BY <1>3, <2>1, <2>2, <2>3 DEF TrailBacked
<1>4. ASSUME NEW w \in Worker, NEW c \in Delivery, NEW r \in Result, Attempt(w, c, r)
      PROVE  TrailBacked'
  <2>1. /\ UNCHANGED audited
        /\ \A d \in Delivery : /\ accepted'[d] \in {accepted[d], accepted[d] + 1}
                               /\ tries'[d] \in {tries[d], tries[d] + 1}
    BY <1>4, QueueTyped DEF Attempt, TypeInv, TypeOK
  <2> QED BY <1>1, <2>1 DEF TrailBacked
<1>5. ASSUME NEW w \in Worker, Settle(w) \/ SettleLost(w) PROVE TrailBacked'
  <2>1. cur[w] \in Delivery /\ Record(w) /\ UNCHANGED <<accepted, tries>>
    BY <1>5, QueueTyped DEF Settle, SettleLost, TypeInv, TypeOK
  <2> QED BY <1>3, <2>1
<1>6. ASSUME NEW i \in Instance, Process(i) PROVE TrailBacked'
  BY <1>2, <1>6 DEF Process, Stop, Exit, Restart, history
<1>7. ASSUME NEW w \in Worker, Poll(w) PROVE TrailBacked'
  BY <1>2, <1>7 DEF Poll, Claim, ClaimLost, history
<1>8. ASSUME NEW d \in Delivery, Enqueue(d) PROVE TrailBacked'
  BY <1>2, <1>8 DEF Enqueue, history
<1>9. CASE Tick \/ UNCHANGED vars
  BY <1>2, <1>9 DEF Tick, vars, history
<1> QED BY <1>4, <1>5, <1>6, <1>7, <1>8, <1>9 DEF Next, Step

LEMMA CalmStep ==
  ASSUME QueueInv, [Next]_vars, NEW d \in Delivery
  PROVE  Calm(d)'
<1>1. ASSUME NEW e \in Delivery, Enqueue(e) PROVE Calm(d)'
  <2>1. UNCHANGED <<attempts, batch, seen, cur, history>>
    BY <1>1 DEF Enqueue, hand
  <2>2. CASE d # e
    BY <1>1, <2>1, <2>2, CalmQuiet, QueueTyped DEF Enqueue, TypeInv, TypeOK
  <2>3. CASE d = e
    <3>1. status[d] = "absent" /\ status'[d] = "pending"
      BY <1>1, <2>3, QueueTyped DEF Enqueue, TypeInv, TypeOK
    <3>2. CASE overtaken[d] = 0
      <4>1. ~Held(d)
        BY <3>1, <3>2 DEF QueueInv, Calm, HeldAlone, Held
      <4> QED BY <2>1, <3>1, <4>1, CalmQuiet DEF Terminal
    <3>3. CASE overtaken[d] # 0
      BY <2>1, <3>3 DEF Calm, history
    <3> QED BY <3>2, <3>3
  <2> QED BY <2>2, <2>3
<1>2. ASSUME NEW w \in Worker, ClaimLost(w) PROVE Calm(d)'
  <2> PICK rows \in SUBSET Delivery : Claimable(Eligible(w), rows) /\ Flip(rows)
    BY <1>2 DEF ClaimLost
  <2>1. UNCHANGED <<attempts, batch, seen, cur, history>>
    BY <1>2 DEF ClaimLost, hand, Flip
  <2>2. \/ status'[d] = status[d]
        \/ {status[d], status'[d]} \cap Terminal = {} /\ status'[d] = "processing"
    BY ClaimTakesOpenRows, QueueTyped DEF Flip, Terminal, TypeInv
  <2> QED BY <2>1, <2>2, CalmQuiet
<1>3. ASSUME NEW w \in Worker, Claim(w) PROVE Calm(d)'
  BY <1>3, CalmClaim
<1>4. ASSUME NEW w \in Worker, Step(w) PROVE Calm(d)'
  BY <1>4, CalmAttempt, CalmSettle, CalmSettleLost DEF Step
<1>5. ASSUME NEW i \in Instance, Exit(i) PROVE Calm(d)'
  BY <1>5, CalmExit
<1>6. ASSUME UNCHANGED <<status, attempts, batch, seen, cur, history>> PROVE Calm(d)'
  BY <1>6, CalmQuiet
<1>7. ASSUME NEW i \in Instance, Stop(i) \/ Restart(i) PROVE Calm(d)'
  BY <1>6, <1>7 DEF Stop, Restart, table, hand
<1>8. CASE Tick \/ UNCHANGED vars
  BY <1>6, <1>8 DEF Tick, vars, table, hand
<1> QED
  BY <1>1, <1>2, <1>3, <1>4, <1>5, <1>7, <1>8 DEF Next, Poll, Process

LEMMA OvertakenStays ==
  ASSUME TypeInv, [Next]_vars, NEW d \in Delivery, overtaken'[d] = 0
  PROVE  overtaken[d] = 0
<1>1. ASSUME NEW w \in Worker, Claim(w) PROVE overtaken[d] = 0
  <2>1. overtaken'[d] \in {overtaken[d], overtaken[d] + 1} /\ overtaken[d] \in Nat
    BY <1>1 DEF Claim, Overtake, TypeInv, TypeOK
  <2> QED BY <2>1
<1>2. (\E w \in Worker : Claim(w)) \/ UNCHANGED overtaken
  BY DEF Next, Enqueue, Poll, ClaimLost, Step, Attempt, Settle, SettleLost,
         Process, Stop, Exit, Restart, Tick, history, vars
<1> QED BY <1>1, <1>2

LEMMA QueueInit == Init => QueueInv
<1> SUFFICES ASSUME Init PROVE QueueInv
  OBVIOUS
<1>1. \A w \in Worker : cur[w] = NoRow /\ batch[w] = {}
  BY DEF Init
<1>2. OkIsAccepted /\ \A d \in Delivery : ~InHand(d) /\ HeldAlone(d)
  BY <1>1, Rows DEF OkIsAccepted, InHand, HeldAlone
<1>3. \A d \in Delivery : Calm(d)
  BY <1>2 DEF Init, Calm, Counted, Truthful
<1>4. CountsMade /\ TrailBacked
  BY <1>1, Rows DEF Init, CountsMade, TrailBacked
<1> QED BY <1>2, <1>3, <1>4, BudgetInit DEF QueueInv

LEMMA QueueStep == QueueInv /\ [Next]_vars => QueueInv'
<1> SUFFICES ASSUME QueueInv, [Next]_vars PROVE QueueInv'
  OBVIOUS
<1>1. BudgetInv'
  BY BudgetStep DEF QueueInv
<1> QED BY <1>1, OkIsAcceptedStep, CountsMadeStep, TrailBackedStep, CalmStep DEF QueueInv

\* Nothing here depends on updated_at, which others may set.
LEMMA QueueTouched ==
  ASSUME QueueInv, TypeInv', UNCHANGED <<status, attempts, hand, history>>
  PROVE  QueueInv'
<1>1. UNCHANGED <<batch, seen, cur, result, accepted>>
  BY DEF hand, history
<1>2. \A d \in Delivery : Budgeted(d)'
  BY <1>1, BudgetQuiet DEF QueueInv
<1>3. \A d \in Delivery : Calm(d)'
  BY <1>1, CalmQuiet
<1>4. OkIsAccepted'
  BY <1>1 DEF QueueInv, OkIsAccepted
<1>5. CountsMade' /\ TrailBacked'
  BY <1>1 DEF QueueInv, CountsMade, TrailBacked, history
<1> QED BY <1>2, <1>3, <1>4, <1>5 DEF QueueInv, BudgetInv

LEMMA QueueInvariant == SafeSpec => []QueueInv
  BY QueueInit, QueueStep, PTL DEF SafeSpec

\* What QueueInv says of the runs' invariants.
LEMMA QueueProperties ==
  QueueInv => DuplicatesExplained /\ AttemptsAccounted /\ AuditTruthful
<1> SUFFICES ASSUME QueueInv, NEW d \in Delivery
             PROVE  /\ accepted[d] <= 1 + lost[d] + late[d] + overtaken[d]
                    /\ tries[d] <= MaxAttempts + lost[d] + overtaken[d]
                    /\ overtaken[d] = 0 => Counted(d) /\ Truthful(d)
  BY DEF QueueInv, TrailBacked, DuplicatesExplained, AttemptsAccounted, AttemptsCounted,
         AttemptsBounded, AuditTruthful, Counted, Truthful
<1>1. overtaken[d] = 0 => Counted(d) /\ Truthful(d)
  BY DEF QueueInv, Calm
<1>2. BudgetInv
  BY DEF QueueInv
<1>3. /\ accepted[d] + Pend(d) <= 1 + lost[d] + late[d] + overtaken[d]
      /\ tries[d] + Pend(d) <= MaxAttempts + lost[d] + overtaken[d]
  BY <1>2 DEF BudgetInv, Budgeted, SendBudget, TryBudget
<1> QED BY <1>1, <1>2, <1>3, Counts

\* Whatever the timing, the provider takes a message again only after a lost
\* result, a late answer or a claim from under the loop that held the row.
THEOREM DuplicatesAreExplained == SafeSpec => []DuplicatesExplained
  BY QueueInvariant, QueueProperties, PTL

\* Whatever the timing, the attempts of a row exceed MaxAttempts by no more
\* than the results that were lost and the claims that overtook it; and the
\* attempts column accounts for every attempt on a row that was not overtaken.
THEOREM AttemptsAreAccounted == SafeSpec => []AttemptsAccounted
  BY QueueInvariant, QueueProperties, PTL

\* The audit trail tells of no sending the provider knows nothing of and of no
\* failure before MaxAttempts attempts, whatever was lost or overtaken; and of
\* no ending that the row did not have, unless a result was lost or the row
\* overtaken.
THEOREM AuditIsTruthful == SafeSpec => []AuditTruthful
  BY QueueInvariant, QueueProperties, PTL
-----------------------------------------------------------------------------
(* Endings *)

Taken(rows) == \A d \in Delivery :
  IF d \in rows THEN status[d] \in {"pending", "retrying", "processing"}
                    /\ status'[d] = "processing"
               ELSE status'[d] = status[d]

LEMMA PollTakes ==
  ASSUME TypeInv, NEW w \in Worker, Poll(w)
  PROVE  (\E rows \in SUBSET Delivery : Taken(rows)) /\ UNCHANGED accepted
<1>1. PICK rows \in SUBSET Delivery : Claimable(Eligible(w), rows) /\ Flip(rows)
  BY DEF Poll, Claim, ClaimLost
<1>2. Taken(rows)
  BY <1>1, ClaimTakesOpenRows DEF Taken, Flip, TypeInv
<1>3. UNCHANGED accepted
  BY DEF Poll, Claim, ClaimLost, history
<1> QED BY <1>2, <1>3

\* Recording a result changes the status of no row but the one in hand, and
\* to be sent a row must have been accepted.
LEMMA SettleEnds ==
  ASSUME QueueInv, NEW w \in Worker, Settle(w)
  PROVE  /\ cur[w] \in Delivery /\ cur[w] \in batch[w]
         /\ \E o \in Terminal \cup {"retrying"} :
              /\ status' = [status EXCEPT ![cur[w]] = o]
              /\ o = "sent" => accepted[cur[w]] > 0
         /\ UNCHANGED accepted
<1> PICK c \in Delivery : c = cur[w]
  BY QueueTyped DEF Settle, TypeInv, TypeOK
<1>1. c \in batch[w]
  BY Rows, QueueTyped DEF TypeInv, AttemptLeft
<1>3. result[w] = "ok" => accepted[c] > 0
  BY DEF QueueInv, OkIsAccepted
<1>4. \E o \in Terminal \cup {"retrying"} :
        /\ status' = [status EXCEPT ![c] = o]
        /\ o = "sent" => accepted[c] > 0
  <2>1. CASE result[w] = "ok" /\ MarkSent(c)
    BY <1>3, <2>1 DEF MarkSent, Terminal
  <2>2. CASE MarkSkipped(c)
    BY <2>2 DEF MarkSkipped, Terminal
  <2>3. CASE MarkRetrying(c, NextAttempts(w))
    <3>1. RetryStatus(NextAttempts(w)) \in {"failed", "retrying"}
      BY DEF RetryStatus
    <3> QED BY <2>3, <3>1 DEF MarkRetrying, Terminal
  <2> QED BY <2>1, <2>2, <2>3 DEF Settle, Mark
<1>5. UNCHANGED accepted
  BY DEF Settle
<1> QED BY <1>1, <1>4, <1>5

LEMMA EndedStep ==
  ASSUME QueueInv, [Next]_vars, NEW d \in Delivery, status[d] \in Terminal, overtaken[d] = 0
  PROVE  status'[d] = status[d]
<1>1. status \in [Delivery -> Status]
  BY QueueTyped DEF TypeInv, TypeOK
<1>2. ASSUME NEW e \in Delivery, Enqueue(e) PROVE status'[d] = status[d]
  BY <1>1, <1>2 DEF Enqueue, Terminal
<1>3. ASSUME NEW w \in Worker, Poll(w) PROVE status'[d] = status[d]
  BY <1>3, PollTakes, QueueTyped DEF Taken, Terminal
<1>4. ASSUME NEW w \in Worker, Step(w) PROVE status'[d] = status[d]
  <2>1. CASE Settle(w)
    <3>1. d \notin batch[w]
      BY DEF QueueInv, Calm, HeldAlone, Terminal
    <3> QED BY <1>1, <2>1, <3>1, SettleEnds
  <2>2. CASE ~Settle(w)
    BY <1>4, <2>2 DEF Step, Attempt, SettleLost, table
  <2> QED BY <2>1, <2>2
<1>5. ASSUME NEW i \in Instance, Process(i) PROVE status'[d] = status[d]
  BY <1>5 DEF Process, Stop, Exit, Restart, table
<1>6. CASE Tick
  BY <1>6 DEF Tick
<1>7. CASE UNCHANGED vars
  BY <1>7 DEF vars, table
<1> QED BY <1>2, <1>3, <1>4, <1>5, <1>6, <1>7 DEF Next

\* An ended row that no claim overtook keeps its status: no late worker,
\* recovery or retry reopens it.
THEOREM EndedRowsStayEnded == SafeSpec => TerminalIsFinal
<1>1. QueueInv /\ [Next]_vars
        => [\A d \in Delivery : status[d] \in Terminal /\ overtaken[d] = 0
                                  => status'[d] = status[d]]_vars
  BY EndedStep
<1> QED BY <1>1, QueueInvariant, PTL DEF SafeSpec, TerminalIsFinal
-----------------------------------------------------------------------------
(* Two loops on one row *)

\* A row is in processing for no longer than any loop has held it: whoever
\* claims it, or touches it in between, makes it younger.
HeldLonger == \A w \in Worker : \A d \in batch[w] : age[d] <= heldFor[w]

ExclusiveInv == QueueInv /\ HeldLonger /\ ClaimExclusive

\* A claim from under a loop, the first for its row, is from one that has held
\* the row for StaleAfter.
LEMMA TakenWhenStale ==
  ASSUME QueueInv, HeldLonger, NEW w \in Worker, NEW rows, Claimable(Eligible(w), rows),
         NEW d \in rows, overtaken[d] = 0, NEW v \in Worker, d \in batch[v]
  PROVE  heldFor[v] = StaleAfter
<1>1. d \in Delivery /\ TypeInv
  BY QueueTyped, ClaimTakesOpenRows DEF TypeInv
<1>2. status[d] = "processing"
  BY <1>1 DEF QueueInv, Calm, HeldAlone
<1>3. age[d] >= StaleAfter
  BY <1>1, <1>2, ClaimTakesOpenRows DEF TypeInv
<1>4. age[d] <= heldFor[v]
  BY DEF HeldLonger
<1>5. heldFor[v] \in 0..StaleAfter /\ age[d] \in 0..StaleAfter
  BY <1>1 DEF TypeInv, TypeOK
<1> QED BY <1>3, <1>4, <1>5

LEMMA ExclusiveClaim ==
  ASSUME ExclusiveInv, NEW w \in Worker, Claim(w)
  PROVE  HeldLonger' /\ ClaimExclusive'
<1> PICK rows \in SUBSET Delivery :
      Claimable(Eligible(w), rows) /\ Flip(rows) /\ Hold(w, rows) /\ Overtake(rows)
  BY DEF Claim
<1>0. TypeInv
  BY QueueTyped DEF ExclusiveInv
<1>1. /\ batch[w] = {}
      /\ batch'[w] = rows /\ heldFor'[w] = 0
      /\ \A v \in Worker \ {w} : batch'[v] = batch[v] /\ heldFor'[v] = heldFor[v]
      /\ \A d \in Delivery : age'[d] = IF d \in rows THEN 0 ELSE age[d]
      /\ \A d \in Delivery : overtaken'[d] =
           IF d \in rows /\ Held(d) THEN overtaken[d] + 1 ELSE overtaken[d]
  BY <1>0 DEF Claim, Idle, Hold, Flip, Overtake, TypeInv, TypeOK
<1>2. \A v \in Worker : batch'[v] \subseteq Delivery /\ batch[v] \subseteq Delivery
  BY <1>0, <1>1 DEF TypeInv, TypeOK
<1>3. HeldLonger'
  <2> SUFFICES ASSUME NEW v \in Worker, NEW d \in batch'[v] PROVE age'[d] <= heldFor'[v]
    BY DEF HeldLonger
  <2>1. CASE d \in rows
    <3>1. age'[d] = 0
      BY <1>1, <1>2, <2>1
    <3>2. heldFor[v] \in Nat
      BY <1>0 DEF TypeInv, TypeOK
    <3>3. heldFor'[v] = 0 \/ heldFor'[v] = heldFor[v]
      BY <1>1
    <3> QED BY <3>1, <3>2, <3>3
  <2>2. CASE d \notin rows
    BY <1>1, <1>2, <2>2 DEF ExclusiveInv, HeldLonger
  <2> QED BY <2>1, <2>2
<1>4. ClaimExclusive'
  <2> SUFFICES ASSUME NEW u \in Worker, NEW v \in Worker, u # v,
                      NEW d \in batch'[u] \cap batch'[v]
               PROVE  /\ overtaken'[d] > 0
                      /\ overtaken'[d] = 1 => StaleAfter \in {heldFor'[u], heldFor'[v]}
    BY DEF ClaimExclusive
  <2>0. d \in Delivery /\ overtaken[d] \in Nat
    BY <1>0, <1>2 DEF TypeInv, TypeOK
  <2>1. ASSUME NEW x \in Worker, x # w, d \in batch'[x], d \in rows
        PROVE  /\ overtaken'[d] > 0
               /\ overtaken'[d] = 1 => StaleAfter = heldFor'[x]
    <3>1. d \in batch[x] /\ heldFor'[x] = heldFor[x] /\ Held(d)
      BY <1>1, <2>1 DEF Held
    <3>2. overtaken'[d] = overtaken[d] + 1
      BY <1>1, <2>0, <2>1, <3>1
    <3>3. overtaken[d] = 0 => heldFor[x] = StaleAfter
      BY <2>1, <3>1, TakenWhenStale DEF ExclusiveInv
    <3> QED BY <2>0, <3>1, <3>2, <3>3
  <2>2. CASE d \in rows
    BY <2>1, <2>2
  <2>3. CASE d \notin rows
    <3>1. u # w /\ v # w
      BY <1>1, <2>3
    <3>2. d \in batch[u] \cap batch[v] /\ overtaken'[d] = overtaken[d]
      BY <1>1, <2>0, <2>3, <3>1
    <3> QED BY <1>1, <3>1, <3>2 DEF ExclusiveInv, ClaimExclusive
  <2> QED BY <2>2, <2>3
<1> QED BY <1>3, <1>4

\* A step that hands no row to a loop and shortens no time a row is held.
LEMMA ExclusiveQuiet ==
  ASSUME ExclusiveInv, TypeInv', UNCHANGED overtaken,
         \A w \in Worker : batch'[w] \subseteq batch[w],
         \A w \in Worker : batch'[w] # {} => heldFor'[w] >= heldFor[w],
         \A w \in Worker : \A d \in batch'[w] : age'[d] <= heldFor'[w]
  PROVE  HeldLonger' /\ ClaimExclusive'
<1>1. \A w \in Worker : /\ heldFor[w] \in 0..StaleAfter
                        /\ heldFor'[w] \in 0..StaleAfter
  BY QueueTyped DEF ExclusiveInv, TypeInv, TypeOK
<1>2. \A w \in Worker : batch'[w] # {} /\ heldFor[w] = StaleAfter => heldFor'[w] = StaleAfter
  BY <1>1
<1>3. ClaimExclusive'
  BY <1>2 DEF ExclusiveInv, ClaimExclusive
<1> QED BY <1>3 DEF HeldLonger

LEMMA ExclusiveStep == ASSUME ExclusiveInv, [Next]_vars PROVE ExclusiveInv'
<1>0. QueueInv /\ QueueInv' /\ TypeInv /\ TypeInv'
  BY QueueStep, QueueTyped, TypeStep DEF ExclusiveInv
<1> SUFFICES HeldLonger' /\ ClaimExclusive'
  BY <1>0 DEF ExclusiveInv
<1>1. \A w \in Worker : \A d \in batch[w] : /\ d \in Delivery
                                          /\ age[d] \in Nat /\ heldFor[w] \in Nat
                                          /\ age[d] <= heldFor[w]
  BY <1>0 DEF ExclusiveInv, HeldLonger, TypeInv, TypeOK
<1>2. ASSUME UNCHANGED <<batch, heldFor, overtaken>>,
             \A d \in Delivery : age'[d] \in {0, age[d]}
      PROVE  HeldLonger' /\ ClaimExclusive'
  <2>1. \A w \in Worker : \A d \in batch'[w] : age'[d] <= heldFor'[w]
    BY <1>1, <1>2
  <2>2. \A w \in Worker : heldFor'[w] >= heldFor[w]
    BY <1>0, <1>2 DEF TypeInv, TypeOK
  <2> QED BY <1>0, <1>2, <2>1, <2>2, ExclusiveQuiet
<1>3. ASSUME NEW d \in Delivery, Enqueue(d) PROVE HeldLonger' /\ ClaimExclusive'
  BY <1>2, <1>3 DEF Enqueue, hand, history
<1>4. ASSUME NEW w \in Worker, Claim(w) PROVE HeldLonger' /\ ClaimExclusive'
  BY <1>4, ExclusiveClaim
<1>5. ASSUME NEW w \in Worker, ClaimLost(w) PROVE HeldLonger' /\ ClaimExclusive'
  BY <1>2, <1>5 DEF ClaimLost, Flip, hand, history
<1>6. ASSUME NEW w \in Worker, Step(w) PROVE HeldLonger' /\ ClaimExclusive'
  <2>1. ASSUME NEW d \in Delivery, NEW r \in Result, Attempt(w, d, r)
        PROVE  HeldLonger' /\ ClaimExclusive'
    BY <1>2, <2>1 DEF Attempt, table
  <2>2. CASE Settle(w) \/ SettleLost(w)
    <3>1. Release(w) /\ overtaken' = overtaken
      BY <2>2 DEF Settle, SettleLost
    <3>2. \A d \in Delivery : age'[d] \in {0, age[d]}
      BY <1>0, <2>2 DEF Settle, SettleLost, table, TypeInv, TypeOK
    <3>3. \A v \in Worker :
            /\ batch'[v] = IF v = w THEN batch[w] \ {cur[w]} ELSE batch[v]
            /\ heldFor'[v] = IF v = w /\ batch[w] = {cur[w]} THEN 0 ELSE heldFor[v]
      BY <1>0, <3>1 DEF Release, TypeInv, TypeOK
    <3>4. \A v \in Worker : batch'[v] \subseteq batch[v]
      BY <3>3
    <3>5. \A v \in Worker : batch'[v] # {} => heldFor'[v] = heldFor[v]
      BY <3>3
    <3>6. \A v \in Worker : heldFor[v] \in Nat
      BY <1>0 DEF TypeInv, TypeOK
    <3>7. \A v \in Worker : \A d \in batch'[v] : age'[d] <= heldFor'[v]
      BY <1>1, <3>2, <3>4, <3>5
    <3>8. \A v \in Worker : batch'[v] # {} => heldFor'[v] >= heldFor[v]
      BY <3>5, <3>6
    <3> QED BY <1>0, <3>1, <3>4, <3>7, <3>8, ExclusiveQuiet
  <2> QED BY <1>6, <2>1, <2>2 DEF Step
<1>7. ASSUME NEW i \in Instance, Process(i) PROVE HeldLonger' /\ ClaimExclusive'
  <2>1. CASE Exit(i)
    <3>1. /\ UNCHANGED <<age, overtaken>>
          /\ \A w \in Worker : \/ batch'[w] = {}
                               \/ batch'[w] = batch[w] /\ heldFor'[w] = heldFor[w]
      BY <2>1 DEF Exit, table
    <3>2. \A w \in Worker : heldFor[w] \in Nat
      BY <1>0 DEF TypeInv, TypeOK
    <3>3. \A w \in Worker : batch'[w] # {} => heldFor'[w] >= heldFor[w]
      BY <3>1, <3>2
    <3>4. \A w \in Worker : \A d \in batch'[w] : age'[d] <= heldFor'[w]
      BY <1>1, <3>1
    <3> QED BY <1>0, <3>1, <3>3, <3>4, ExclusiveQuiet
  <2>2. CASE Stop(i) \/ Restart(i)
    BY <1>2, <2>2 DEF Stop, Restart, table, hand, history
  <2> QED BY <1>7, <2>1, <2>2 DEF Process
<1>8. CASE Tick
  <2>1. UNCHANGED <<batch, overtaken>>
    BY <1>8 DEF Tick, history
  <2>2. \A w \in Worker : heldFor'[w] >= heldFor[w]
    BY <1>0, <1>8 DEF Tick, TypeInv, TypeOK
  <2>3. \A w \in Worker : \A d \in batch[w] : age'[d] <= heldFor'[w]
    <3> SUFFICES ASSUME NEW w \in Worker, NEW d \in batch[w] PROVE age'[d] <= heldFor'[w]
      OBVIOUS
    <3>1. d \in Delivery /\ ~Idle(w)
      BY <1>1 DEF Idle
    <3>2. heldFor'[w] = IF heldFor[w] < StaleAfter THEN heldFor[w] + 1 ELSE heldFor[w]
      <4>1. heldFor'[w] = IF ~Idle(w) /\ heldFor[w] < StaleAfter THEN heldFor[w] + 1
                                                                 ELSE heldFor[w]
        BY <1>8 DEF Tick
      <4> QED BY <3>1, <4>1
    <3>4. age'[d] = age[d] \/ (age[d] < StaleAfter /\ age'[d] = age[d] + 1)
      BY <1>8, <3>1 DEF Tick
    <3>3. age[d] \in 0..StaleAfter /\ heldFor[w] \in 0..StaleAfter /\ age[d] <= heldFor[w]
      BY <1>0, <1>1, <3>1 DEF TypeInv, TypeOK
    <3> QED BY <3>2, <3>3, <3>4
  <2> QED BY <1>0, <2>1, <2>2, <2>3, ExclusiveQuiet
<1>9. CASE UNCHANGED vars
  BY <1>2, <1>9 DEF vars, table, hand, history
<1> QED BY <1>3, <1>4, <1>5, <1>6, <1>7, <1>8, <1>9 DEF Next, Poll

\* Two loops hold the same row only where one took it from under the other,
\* and not before the other had held it for StaleAfter, whatever the attempts
\* take and whatever crashes, restarts and lost UPDATEs happen.
THEOREM ClaimsAreExclusive == SafeSpec => []ClaimExclusive
<1>1. Init => ExclusiveInv
  BY QueueInit DEF ExclusiveInv, Init, HeldLonger, ClaimExclusive
<1>2. ExclusiveInv /\ [Next]_vars => ExclusiveInv'
  BY ExclusiveStep
<1>3. ExclusiveInv => ClaimExclusive
  BY DEF ExclusiveInv
<1> QED BY <1>1, <1>2, <1>3, PTL DEF SafeSpec
-----------------------------------------------------------------------------
(* The promise *)

\* The promise's variables, as the instance substitutes them.
OutcomeOf   == [d \in Delivery |->
                  IF status[d] \in Terminal \cup {"absent"} THEN status[d] ELSE "open"]
DeliveredOf == {d \in Delivery : accepted[d] > 0}
ContestedOf == {d \in Delivery : overtaken[d] > 0}

\* A row that a loop holds is open, unless it is contested.
LEMMA HeldIsOpen ==
  ASSUME QueueInv, NEW w \in Worker, NEW d \in batch[w]
  PROVE  d \in Delivery /\ (OutcomeOf[d] = "open" \/ d \in ContestedOf)
<1>1. d \in Delivery /\ overtaken[d] \in Nat
  BY QueueTyped DEF TypeInv, TypeOK
<1>2. overtaken[d] = 0 => status[d] = "processing"
  BY <1>1 DEF QueueInv, Calm, HeldAlone
<1> QED BY <1>1, <1>2 DEF OutcomeOf, ContestedOf, Terminal

LEMMA PromiseClaim ==
  ASSUME QueueInv, NEW w \in Worker, Claim(w)
  PROVE  \E rows \in SUBSET Delivery : Promise!Contest(rows)
<1> PICK rows \in SUBSET Delivery :
      Claimable(Eligible(w), rows) /\ Flip(rows) /\ Hold(w, rows) /\ Overtake(rows)
  BY DEF Claim
<1> DEFINE taken == {d \in rows : Held(d)}
<1>1. /\ \A d \in rows : status[d] \in {"pending", "retrying", "processing"}
      /\ \A d \in Delivery : status'[d] = IF d \in rows THEN "processing" ELSE status[d]
  BY ClaimTakesOpenRows, QueueTyped DEF Flip, TypeInv
<1>2. OutcomeOf' = OutcomeOf /\ \A d \in rows : OutcomeOf[d] = "open"
  BY <1>1 DEF OutcomeOf, Terminal
<1>3. DeliveredOf' = DeliveredOf
  BY DEF Claim, DeliveredOf
<1>4. ContestedOf' = ContestedOf \cup taken
  <2>1. \A d \in Delivery : overtaken[d] \in Nat
    BY QueueTyped DEF TypeInv, TypeOK
  <2>2. \A d \in Delivery :
          overtaken'[d] = IF d \in taken THEN overtaken[d] + 1 ELSE overtaken[d]
    BY DEF Overtake
  <2> QED BY <2>1, <2>2 DEF ContestedOf
<1>5. taken \in SUBSET Delivery
  OBVIOUS
<1>6. Promise!Contest(taken)
  BY <1>2, <1>3, <1>4 DEF Promise!Contest, OutcomeOf, DeliveredOf, ContestedOf
<1> HIDE DEF taken
<1> QED BY <1>5, <1>6 DEF Promise!Contest

LEMMA PromiseStep ==
  ASSUME QueueInv, [Next]_vars
  PROVE  [Promise!Next]_(Promise!vars)
<1> USE DEF Promise!vars
<1>0. /\ status \in [Delivery -> Status]
      /\ accepted \in [Delivery -> Nat]
  BY QueueTyped DEF TypeInv, TypeOK
<1>1. ASSUME NEW d \in Delivery, Enqueue(d) PROVE Promise!Open(d)
  <2>1. status[d] = "absent" /\ status' = [status EXCEPT ![d] = "pending"]
    BY <1>1 DEF Enqueue
  <2>2. OutcomeOf[d] = "absent" /\ OutcomeOf' = [OutcomeOf EXCEPT ![d] = "open"]
    BY <1>0, <2>1 DEF OutcomeOf, Terminal
  <2>3. UNCHANGED <<DeliveredOf, ContestedOf>>
    BY <1>1 DEF Enqueue, history, DeliveredOf, ContestedOf
  <2> QED BY <2>2, <2>3 DEF Promise!Open, OutcomeOf, DeliveredOf, ContestedOf
<1>2. ASSUME NEW w \in Worker, ClaimLost(w)
      PROVE  UNCHANGED <<OutcomeOf, DeliveredOf, ContestedOf>>
  <2>1. Poll(w) /\ UNCHANGED <<accepted, overtaken>>
    BY <1>2 DEF Poll, ClaimLost, history
  <2> QED BY <2>1, PollTakes, QueueTyped
          DEF Taken, Terminal, OutcomeOf, DeliveredOf, ContestedOf
<1>3. ASSUME NEW w \in Worker, NEW d \in Delivery, NEW r \in Result, Attempt(w, d, r)
      PROVE  Promise!Deliver(d) \/ UNCHANGED <<OutcomeOf, DeliveredOf, ContestedOf>>
  <2>1. UNCHANGED <<OutcomeOf, ContestedOf>>
    BY <1>3 DEF Attempt, table, OutcomeOf, ContestedOf
  <2>2. CASE r \in {"ok", "late"}
    <3>1. accepted' = [accepted EXCEPT ![d] = @ + 1]
      BY <1>3, <2>2 DEF Attempt
    <3>2. DeliveredOf' = DeliveredOf \cup {d}
      BY <1>0, <3>1 DEF DeliveredOf
    <3>3. OutcomeOf[d] = "open" \/ d \in ContestedOf
      BY <1>3, HeldIsOpen DEF Attempt
    <3> QED BY <2>1, <3>2, <3>3 DEF Promise!Deliver, OutcomeOf, DeliveredOf, ContestedOf
  <2>3. CASE r \notin {"ok", "late"}
    BY <1>3, <2>1, <2>3 DEF Attempt, DeliveredOf
  <2> QED BY <2>2, <2>3
<1>4. ASSUME NEW w \in Worker, Settle(w)
      PROVE  \/ \E d \in Delivery : \/ \E o \in Promise!Ending : Promise!Close(d, o)
                                    \/ Promise!Reopen(d)
             \/ UNCHANGED <<OutcomeOf, DeliveredOf, ContestedOf>>
  <2>1. PICK c \in Delivery :
          /\ c \in batch[w]
          /\ \E o \in Terminal \cup {"retrying"} :
               /\ status' = [status EXCEPT ![c] = o]
               /\ o = "sent" => accepted[c] > 0
          /\ UNCHANGED accepted
    BY <1>4, SettleEnds
  <2>2. PICK o \in Terminal \cup {"retrying"} :
          status' = [status EXCEPT ![c] = o] /\ (o = "sent" => accepted[c] > 0)
    BY <2>1
  <2>3. UNCHANGED <<DeliveredOf, ContestedOf>>
    BY <1>4, <2>1 DEF Settle, DeliveredOf, ContestedOf
  <2>4. OutcomeOf[c] = "open" \/ c \in ContestedOf
    BY <2>1, HeldIsOpen
  <2>5. CASE o = "retrying"
    <3>1. OutcomeOf' = [OutcomeOf EXCEPT ![c] = "open"]
      BY <1>0, <2>2, <2>5 DEF OutcomeOf, Terminal
    <3>2. CASE OutcomeOf[c] = "open"
      BY <2>3, <3>1, <3>2 DEF OutcomeOf
    <3>3. CASE c \in ContestedOf
      BY <2>3, <3>1, <3>3 DEF Promise!Reopen, OutcomeOf, DeliveredOf, ContestedOf
    <3> QED BY <2>4, <3>2, <3>3
  <2>6. CASE o \in Terminal
    <3>1. OutcomeOf' = [OutcomeOf EXCEPT ![c] = o]
      BY <1>0, <2>2, <2>6 DEF OutcomeOf, Terminal
    <3>2. o = "sent" => c \in DeliveredOf
      BY <2>2 DEF DeliveredOf
    <3>3. Promise!Close(c, o)
      BY <2>3, <2>4, <3>1, <3>2 DEF Promise!Close, OutcomeOf, DeliveredOf, ContestedOf
    <3> QED BY <2>6, <3>3 DEF Promise!Ending, Terminal
  <2> QED BY <2>5, <2>6
<1>5. ASSUME NEW w \in Worker, SettleLost(w)
      PROVE  UNCHANGED <<OutcomeOf, DeliveredOf, ContestedOf>>
  BY <1>5 DEF SettleLost, table, OutcomeOf, DeliveredOf, ContestedOf
<1>6. ASSUME NEW i \in Instance, Process(i)
      PROVE  UNCHANGED <<OutcomeOf, DeliveredOf, ContestedOf>>
  BY <1>6 DEF Process, Stop, Exit, Restart, table, history, OutcomeOf, DeliveredOf, ContestedOf
<1>7. CASE Tick
  BY <1>7 DEF Tick, history, OutcomeOf, DeliveredOf, ContestedOf
<1>8. CASE UNCHANGED vars
  BY <1>8 DEF vars, table, history, OutcomeOf, DeliveredOf, ContestedOf
<1>9. UNCHANGED <<OutcomeOf, DeliveredOf, ContestedOf>> => UNCHANGED Promise!vars
  BY DEF OutcomeOf, DeliveredOf, ContestedOf
<1>10. ASSUME NEW w \in Worker, Claim(w)
       PROVE  \E rows \in SUBSET Delivery : Promise!Contest(rows)
  BY <1>10, PromiseClaim
<1> QED
  BY <1>1, <1>2, <1>3, <1>4, <1>5, <1>6, <1>7, <1>8, <1>9, <1>10
     DEF Next, Poll, Step, Promise!Next

\* The queue implements the promise, whatever the timing and the faults: its
\* initial state is the promise's, and every step of it is a step of the promise
\* or changes nothing the promise sees.
THEOREM QueueKeepsPromise == SafeSpec => KeepsPromise
<1>1. Init => Promise!Init
  BY DEF Init, Promise!Init
<1>2. QueueInv /\ [Next]_vars => [Promise!Next]_(Promise!vars)
  BY PromiseStep
<1> QED
  BY <1>1, <1>2, QueueInvariant, PTL DEF SafeSpec, KeepsPromise, Promise!SafeSpec
-----------------------------------------------------------------------------
(* Double sends *)

\* No process stops, no UPDATE fails and no answer comes too late; a claim may
\* still lose its rows.
Undisturbed == Fault \subseteq {"claim"}

NothingLost ==
  /\ \A i \in Instance : mode[i] = "up"
  /\ \A d \in Delivery : lost[d] = 0 /\ late[d] = 0

LEMMA NothingLostStep ==
  ASSUME Undisturbed, TypeInv, NothingLost, [Next]_vars PROVE NothingLost'
<1> USE DEF NothingLost, Undisturbed, Spend
<1>1. ASSUME NEW d \in Delivery, Enqueue(d) PROVE NothingLost'
  BY <1>1 DEF Enqueue, history
<1>2. ASSUME NEW w \in Worker, Poll(w) PROVE NothingLost'
  BY <1>2 DEF Poll, Claim, ClaimLost, history
<1>3. ASSUME NEW w \in Worker, NEW d \in Delivery, NEW r \in Result, Attempt(w, d, r)
      PROVE  NothingLost'
  BY <1>3 DEF Attempt
<1>4. ASSUME NEW w \in Worker, Settle(w) PROVE NothingLost'
  BY <1>4 DEF Settle
<1>5. ASSUME NEW w \in Worker, SettleLost(w) PROVE FALSE
  BY <1>5 DEF SettleLost, Up, Worker
<1>6. ASSUME NEW i \in Instance, Process(i) PROVE FALSE
  BY <1>6 DEF Process, Stop, Exit, Restart
<1>7. CASE Tick \/ UNCHANGED vars
  BY <1>7 DEF Tick, vars, history
<1> QED BY <1>1, <1>2, <1>3, <1>4, <1>5, <1>6, <1>7 DEF Next, Step

\* README.md:159, "multiple instances never double-send", for the rows it is
\* true of: while nothing loses a result, any number of instances give the
\* provider the message of a row at most once, until a claim takes the row from
\* under a loop (which it may once the loop has held it for StaleAfter).
THEOREM UntakenRowsAreSentOnce ==
  ASSUME Undisturbed
  PROVE  SafeSpec => [](\A d \in Delivery : overtaken[d] = 0 => accepted[d] <= 1)
<1>1. Init => NothingLost
  BY DEF Init, NothingLost
<1>2. TypeInv /\ NothingLost /\ [Next]_vars => NothingLost'
  BY NothingLostStep
<1>3. QueueInv /\ NothingLost
        => \A d \in Delivery : overtaken[d] = 0 => accepted[d] <= 1
  <2> SUFFICES ASSUME QueueInv, NothingLost, NEW d \in Delivery, overtaken[d] = 0
               PROVE  accepted[d] <= 1
    OBVIOUS
  <2>1. accepted[d] <= 1 + lost[d] + late[d] + overtaken[d]
    BY QueueProperties DEF DuplicatesExplained
  <2>2. lost[d] = 0 /\ late[d] = 0 /\ accepted[d] \in Nat
    BY QueueTyped DEF NothingLost, TypeInv, TypeOK
  <2> QED BY <2>1, <2>2
<1>4. QueueInv => TypeInv
  BY QueueTyped
<1> QED BY <1>1, <1>2, <1>3, <1>4, QueueInvariant, PTL DEF SafeSpec
=============================================================================
