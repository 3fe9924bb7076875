---------------------------- MODULE TrackingProofs ----------------------------
(***************************************************************************)
(* The queue and the webhooks together, for any rows, loops, messages,     *)
(* event types and timing: the queue keeps the webhooks' specification and *)
(* the webhooks leave the queue's promise and invariants alone, so what is *)
(* proved of each holds of the two.                                        *)
(***************************************************************************)
EXTENDS Tracking, DeliveryQueueProofs

LEMMA Names ==
  /\ NoRow \notin Email
  /\ NoMail \notin Mail
  /\ Email \subseteq Delivery
  /\ \A n \in Serial : n \in Nat /\ n > 0
<1>1. NoRow \notin Email /\ Email \subseteq Delivery
  BY RowAssumption DEF NoRow
<1>2. NoMail \notin Mail
  BY <1>1 DEF Mail, NoMail
<1>3. \A n \in Serial : n \in Nat /\ n > 0
  BY TrackingAssumption DEF TrackingAssumption
<1> QED BY <1>1, <1>2, <1>3
-----------------------------------------------------------------------------
(* How the two modules' variables hang together *)

\* A loop has a message's id only while it holds an email row whose message
\* was accepted in time; no two loops have the same message; and a row that
\* carries an id has been sent, and stays so unless a claim overtook another.
Bridge ==
  /\ message \in [Worker -> Mail \cup {NoMail}]
  /\ emailId \in [Email -> Mail \cup {NoMail}]
  /\ DOMAIN providerStatus = Email
  /\ \A w \in Worker : message[w] # NoMail =>
       /\ cur[w] \in Email /\ result[w] = "ok"
       /\ message[w][1] = cur[w]
       /\ message[w][2] <= accepted[cur[w]]
       /\ \A v \in Worker \ {w} : message[v] # message[w]
  /\ \A w \in Worker : cur[w] \in Email => result[w] # "nosubs"
  /\ \A d \in Email : emailId[d] # NoMail /\ overtaken[d] = 0 => status[d] = "sent"

TrackInv == QueueInv /\ Bridge

LEMMA TrackTyped == TrackInv => TypeInv
  BY QueueTyped DEF TrackInv

LEMMA InHandHeld ==
  ASSUME TrackInv, NEW w \in Worker, cur[w] \in Email
  PROVE  cur[w] \in batch[w]
  BY Names, TrackTyped DEF TypeInv, AttemptLeft
-----------------------------------------------------------------------------
(* The queue's side *)

\* What a webhook does to the queue: it may set a row's updated_at.
Touch == /\ UNCHANGED <<status, attempts, wait, hand, mode, history, faults>>
         /\ age' \in [Delivery -> 0..StaleAfter]
         /\ \A d \in Delivery : age'[d] \in {0, age[d]}

LEMMA ReceiveTouches ==
  ASSUME TrackInv, NEW r \in Mail \X EventType, NEW heard \in BOOLEAN, Receive(r, heard)
  PROVE  Touch
<1>1. /\ UNCHANGED <<status, attempts, wait, hand, mode, history, faults>>
      /\ age' = [d \in Delivery |->
                   IF d \in Email /\ status[d] = "processing"
                        /\ providerStatus'[d] # providerStatus[d]
                   THEN 0 ELSE age[d]]
  BY DEF Receive
<1>2. age \in [Delivery -> 0..StaleAfter]
  BY TrackTyped DEF TypeInv, TypeOK
<1>3. 0 \in 0..StaleAfter
  BY Limits
<1> QED BY <1>1, <1>2, <1>3 DEF Touch

LEMMA QueueSide ==
  ASSUME TrackInv, [TrackingNext]_all
  PROVE  [Next]_vars \/ Touch
<1>1. ASSUME NEW w \in Worker, NEW d \in Delivery, NEW r \in Result, TrackedAttempt(w, d, r)
      PROVE  Next
  BY <1>1 DEF TrackedAttempt, Next, Step
<1>2. ASSUME NEW w \in Worker, TrackedSettle(w) \/ TrackedSettleLost(w) PROVE Next
  BY <1>2 DEF TrackedSettle, TrackedSettleLost, Next, Step
<1>3. ASSUME NEW i \in Instance, TrackedExit(i) PROVE Next
  BY <1>3 DEF TrackedExit, Next, Process
<1>4. CASE Elsewhere
  BY <1>4 DEF Elsewhere, Next, Process
<1>5. ASSUME NEW m \in Mail, NEW t \in EventType, Happen(m, t) PROVE UNCHANGED vars
  BY <1>5 DEF Happen
<1>6. ASSUME NEW r \in Mail \X EventType, NEW heard \in BOOLEAN, Receive(r, heard)
      PROVE  Touch
  BY <1>6, ReceiveTouches
<1>7. CASE UNCHANGED all
  BY <1>7 DEF all
<1> QED BY <1>1, <1>2, <1>3, <1>4, <1>5, <1>6, <1>7 DEF TrackingNext

\* The queue's invariants hold with webhooks on the table: none of them looks at
\* updated_at.
LEMMA TrackedQueueStep ==
  ASSUME TrackInv, [TrackingNext]_all
  PROVE  QueueInv'
<1>1. CASE [Next]_vars
  BY <1>1, QueueStep DEF TrackInv
<1>2. CASE Touch
  <2>1. UNCHANGED <<status, attempts, hand, history>>
    BY <1>2 DEF Touch
  <2>2. TypeInv'
    BY <1>2, TrackTyped DEF Touch, hand, history, TypeInv, TypeOK, AttemptLeft
  <2> QED BY <2>1, <2>2, QueueTouched DEF TrackInv
<1> QED BY <1>1, <1>2, QueueSide
-----------------------------------------------------------------------------
(* The bridge *)

LEMMA BridgeInit == TrackingInit => Bridge
<1> SUFFICES ASSUME TrackingInit PROVE Bridge
  OBVIOUS
<1>1. /\ message = [w \in Worker |-> NoMail]
      /\ emailId = [d \in Email |-> NoMail]
      /\ providerStatus = [d \in Email |-> ""]
      /\ cur = [w \in Worker |-> NoRow]
  BY DEF TrackingInit, Init
<1>2. \A w \in Worker : cur[w] \notin Email /\ message[w] = NoMail
  BY <1>1, Names
<1>3. \A d \in Email : emailId[d] = NoMail
  BY <1>1
<1>4. /\ message \in [Worker -> Mail \cup {NoMail}]
      /\ emailId \in [Email -> Mail \cup {NoMail}]
      /\ DOMAIN providerStatus = Email
  BY <1>1
<1> QED BY <1>2, <1>3, <1>4 DEF Bridge

LEMMA BridgeAttempt ==
  ASSUME TrackInv, NEW w \in Worker, NEW d \in Delivery, NEW r \in Result,
         TrackedAttempt(w, d, r)
  PROVE  Bridge'
<1>1. /\ cur[w] = NoRow /\ d \in batch[w]
      /\ cur' = [cur EXCEPT ![w] = d]
      /\ result' = [result EXCEPT ![w] = r]
      /\ accepted' = IF r \in {"ok", "late"} THEN [accepted EXCEPT ![d] = @ + 1] ELSE accepted
      /\ r = "nosubs" => d \notin Email
      /\ d \in Email /\ r \in {"ok", "late"} => accepted'[d] \in Serial
      /\ \/ /\ d \in Email /\ r = "ok"
            /\ message' = [message EXCEPT ![w] = <<d, accepted'[d]>>]
         \/ UNCHANGED message
      /\ UNCHANGED <<status, emailId, providerStatus, overtaken>>
  BY DEF TrackedAttempt, Attempt, table, tracked
<1>2. /\ cur \in [Worker -> Delivery \cup {NoRow}] /\ result \in [Worker -> Result]
      /\ accepted \in [Delivery -> Nat]
      /\ message \in [Worker -> Mail \cup {NoMail}]
  BY TrackTyped DEF TypeInv, TypeOK, TrackInv, Bridge
<1>3. \A e \in Email : accepted'[e] \in Nat /\ accepted'[e] >= accepted[e]
  BY <1>1, <1>2, Names
<1>4. message[w] = NoMail
  BY <1>1, Names DEF TrackInv, Bridge
<1>5. \A v \in Worker : message[v] # NoMail =>
        /\ v # w /\ cur[v] \in Email /\ result[v] = "ok"
        /\ message[v] \in Mail /\ message[v][1] = cur[v]
        /\ message[v][2] <= accepted[cur[v]]
        /\ \A u \in Worker \ {v} : message[u] # message[v]
  BY <1>2, <1>4 DEF TrackInv, Bridge
<1>6. \A v \in Worker \ {w} : cur'[v] = cur[v] /\ result'[v] = result[v]
  BY <1>1, <1>2
<1>7. \A v \in Worker : message[v] # NoMail => message[v][2] \in Nat
  BY <1>5, Names DEF Mail
<1>8. CASE UNCHANGED message
  <2>1. ASSUME NEW v \in Worker, message'[v] # NoMail
        PROVE  /\ cur'[v] \in Email /\ result'[v] = "ok"
               /\ message'[v][1] = cur'[v]
               /\ message'[v][2] <= accepted'[cur'[v]]
               /\ \A u \in Worker \ {v} : message'[u] # message'[v]
    <3>1. accepted[cur[v]] \in Nat
      BY <1>2, <1>5, <1>8, <2>1, Names
    <3> QED BY <1>3, <1>5, <1>6, <1>7, <1>8, <2>1, <3>1
  <2>2. \A v \in Worker : cur'[v] \in Email => result'[v] # "nosubs"
    BY <1>1, <1>2 DEF TrackInv, Bridge
  <2> QED BY <1>1, <1>8, <2>1, <2>2 DEF TrackInv, Bridge
<1>9. CASE d \in Email /\ r = "ok" /\ message' = [message EXCEPT ![w] = <<d, accepted'[d]>>]
  <2> DEFINE n == accepted[d] + 1
  <2>1. accepted'[d] = n /\ n \in Serial /\ n \in Nat /\ accepted[d] \in Nat
    BY <1>1, <1>2, <1>9
  <2>2. /\ <<d, n>> \in Mail
        /\ message'[w] = <<d, n>> /\ cur'[w] = d /\ result'[w] = "ok"
        /\ \A v \in Worker \ {w} : message'[v] = message[v]
        /\ message' \in [Worker -> Mail \cup {NoMail}]
    BY <1>1, <1>2, <1>9, <2>1 DEF Mail
  <2>3. \A v \in Worker \ {w} : message[v] # <<d, n>>
    <3> SUFFICES ASSUME NEW v \in Worker \ {w}, message[v] = <<d, n>> PROVE FALSE
      OBVIOUS
    <3>1. message[v] # NoMail
      BY <2>2, Names
    <3>2. cur[v] = message[v][1] /\ message[v][2] <= accepted[cur[v]]
      BY <1>5, <3>1
    <3>3. cur[v] = d /\ n <= accepted[d]
      BY <3>2
    <3> QED BY <2>1, <3>3
  <2>4. ASSUME NEW v \in Worker, message'[v] # NoMail
        PROVE  /\ cur'[v] \in Email /\ result'[v] = "ok"
               /\ message'[v][1] = cur'[v]
               /\ message'[v][2] <= accepted'[cur'[v]]
               /\ \A u \in Worker \ {v} : message'[u] # message'[v]
    <3>1. CASE v = w
      BY <1>9, <2>1, <2>2, <2>3, <3>1
    <3>2. CASE v # w
      <4>1. message'[v] = message[v] /\ message[v] # NoMail
        BY <2>2, <2>4, <3>2
      <4>2. accepted[cur[v]] \in Nat
        BY <1>2, <1>5, <4>1, Names
      <4>3. \A u \in Worker \ {v} : message'[u] # message'[v]
        BY <1>5, <2>2, <2>3, <3>2, <4>1
      <4> QED BY <1>3, <1>5, <1>6, <1>7, <3>2, <4>1, <4>2, <4>3
    <3> QED BY <3>1, <3>2
  <2>5. \A v \in Worker : cur'[v] \in Email => result'[v] # "nosubs"
    BY <1>1, <1>2 DEF TrackInv, Bridge
  <2> HIDE DEF n
  <2> QED BY <1>1, <2>2, <2>4, <2>5 DEF TrackInv, Bridge
<1> QED BY <1>1, <1>8, <1>9

\* A loop that has nothing in hand, or still has what it had, has the message
\* it should.
LEMMA BridgeLetGo ==
  ASSUME TrackInv, NEW ws \in SUBSET Worker, Forget(ws), UNCHANGED accepted,
         \A w \in ws : cur'[w] = NoRow,
         \A w \in Worker \ ws : cur'[w] = cur[w] /\ result'[w] = result[w]
  PROVE  /\ message' \in [Worker -> Mail \cup {NoMail}]
         /\ \A w \in Worker : message'[w] # NoMail =>
              /\ cur'[w] \in Email /\ result'[w] = "ok"
              /\ message'[w][1] = cur'[w]
              /\ message'[w][2] <= accepted'[cur'[w]]
              /\ \A v \in Worker \ {w} : message'[v] # message'[w]
         /\ \A w \in Worker : cur'[w] \in Email => result'[w] # "nosubs"
<1>1. message' = [w \in Worker |-> IF w \in ws THEN NoMail ELSE message[w]]
  BY DEF Forget
<1>2. message \in [Worker -> Mail \cup {NoMail}]
  BY DEF TrackInv, Bridge
<1>3. message' \in [Worker -> Mail \cup {NoMail}]
  BY <1>1, <1>2
<1>4. ASSUME NEW w \in ws
      PROVE  /\ cur'[w] \notin Email
             /\ message'[w] = NoMail
  BY <1>1, Names
<1>5. ASSUME NEW w \in Worker \ ws
      PROVE  /\ message'[w] # NoMail =>
                  /\ cur'[w] \in Email /\ result'[w] = "ok"
                  /\ message'[w][1] = cur'[w]
                  /\ message'[w][2] <= accepted'[cur'[w]]
                  /\ \A v \in Worker \ {w} : message'[v] # message'[w]
             /\ cur'[w] \in Email => result'[w] # "nosubs"
  BY <1>1 DEF TrackInv, Bridge
<1> QED BY <1>3, <1>4, <1>5

LEMMA BridgeSettle ==
  ASSUME TrackInv, NEW w \in Worker, TrackedSettle(w)
  PROVE  Bridge'
<1> PICK c \in Delivery : c = cur[w]
  BY TrackTyped DEF TrackedSettle, Settle, TypeInv, TypeOK
<1>1. /\ Settle(w) /\ StoreId(w) /\ Forget({w})
      /\ UNCHANGED <<accepted, providerStatus, overtaken>>
      /\ cur' = [cur EXCEPT ![w] = NoRow] /\ result' = [result EXCEPT ![w] = "ok"]
  BY DEF TrackedSettle, Settle, Release
<1>2. /\ cur \in [Worker -> Delivery \cup {NoRow}] /\ result \in [Worker -> Result]
      /\ status \in [Delivery -> Status]
      /\ emailId \in [Email -> Mail \cup {NoMail}] /\ message[w] \in Mail \cup {NoMail}
  BY TrackTyped DEF TrackInv, TypeInv, TypeOK, Bridge
<1>3. /\ cur'[w] = NoRow
      /\ \A v \in Worker \ {w} : cur'[v] = cur[v] /\ result'[v] = result[v]
  BY <1>1, <1>2
<1>4. /\ message' \in [Worker -> Mail \cup {NoMail}]
      /\ \A v \in Worker : message'[v] # NoMail =>
           /\ cur'[v] \in Email /\ result'[v] = "ok"
           /\ message'[v][1] = cur'[v]
           /\ message'[v][2] <= accepted'[cur'[v]]
           /\ \A u \in Worker \ {v} : message'[u] # message'[v]
      /\ \A v \in Worker : cur'[v] \in Email => result'[v] # "nosubs"
  BY <1>1, <1>3, BridgeLetGo
<1>5. \A d \in Delivery : status[d] = "sent" /\ overtaken[d] = 0 => status'[d] = "sent"
  BY <1>1, EndedStep DEF TrackInv, Next, Step, Terminal
<1>6. CASE c \in Email /\ result[w] = "ok"
  <2>2. emailId' = [emailId EXCEPT ![c] = message[w]]
    BY <1>1, <1>6 DEF StoreId
  <2>3. status' = [status EXCEPT ![c] = "sent"]
    BY <1>1, <1>6 DEF Settle, Mark, MarkSent
  <2>4. \A d \in Email : emailId'[d] # NoMail /\ overtaken[d] = 0 => status'[d] = "sent"
    BY <1>2, <1>6, <2>2, <2>3, Names DEF TrackInv, Bridge
  <2> QED BY <1>1, <1>2, <1>4, <2>2, <2>4 DEF TrackInv, Bridge
<1>7. CASE ~(c \in Email /\ result[w] = "ok")
  <2>1. emailId' = emailId
    BY <1>1, <1>7 DEF StoreId
  <2> QED BY <1>1, <1>4, <1>5, <2>1, Names DEF TrackInv, Bridge
<1> QED BY <1>6, <1>7

\* A step that stores no id and reopens no row that was sent.
LEMMA BridgeLost ==
  ASSUME TrackInv, NEW ws \in SUBSET Worker, Forget(ws),
         UNCHANGED <<status, accepted, overtaken, emailId, providerStatus>>,
         \A w \in ws : cur'[w] = NoRow,
         \A w \in Worker \ ws : cur'[w] = cur[w] /\ result'[w] = result[w]
  PROVE  Bridge'
  BY BridgeLetGo DEF TrackInv, Bridge

LEMMA BridgeSettleLost ==
  ASSUME TrackInv, NEW w \in Worker, TrackedSettleLost(w)
  PROVE  Bridge'
<1>1. /\ Forget({w}) /\ UNCHANGED <<status, accepted, overtaken, emailId, providerStatus>>
      /\ cur' = [cur EXCEPT ![w] = NoRow] /\ result' = [result EXCEPT ![w] = "ok"]
  BY DEF TrackedSettleLost, SettleLost, Release, table, tracked
<1>2. cur \in [Worker -> Delivery \cup {NoRow}] /\ result \in [Worker -> Result]
  BY TrackTyped DEF TypeInv, TypeOK
<1>3. /\ cur'[w] = NoRow
      /\ \A v \in Worker \ {w} : cur'[v] = cur[v] /\ result'[v] = result[v]
  BY <1>1, <1>2
<1> QED BY <1>1, <1>3, BridgeLost

LEMMA BridgeExit ==
  ASSUME TrackInv, NEW i \in Instance, TrackedExit(i)
  PROVE  Bridge'
<1>1. /\ Forget(Loops(i)) /\ UNCHANGED <<status, accepted, overtaken, emailId, providerStatus>>
      /\ cur' = [w \in Worker |-> IF w \in Loops(i) THEN NoRow ELSE cur[w]]
      /\ result' = [w \in Worker |-> IF w \in Loops(i) THEN "ok" ELSE result[w]]
  BY DEF TrackedExit, Exit, table, tracked
<1>2. Loops(i) \subseteq Worker
  BY DEF Loops
<1>3. /\ \A w \in Loops(i) : cur'[w] = NoRow
      /\ \A w \in Worker \ Loops(i) : cur'[w] = cur[w] /\ result'[w] = result[w]
  BY <1>1, <1>2
<1> QED BY <1>1, <1>2, <1>3, BridgeLost

\* A step that leaves the loops' hands and the ids alone.
LEMMA BridgeElsewhere ==
  ASSUME TrackInv, [Next]_vars \/ Touch,
         UNCHANGED <<cur, result, accepted, message, emailId>>,
         DOMAIN providerStatus' = Email
  PROVE  Bridge'
<1>1. \A d \in Email : overtaken[d] = 0 /\ status[d] = "sent" => status'[d] = "sent"
  BY EndedStep, Names DEF Touch, TrackInv, Terminal
<1>2. \A d \in Email : overtaken'[d] = 0 => overtaken[d] = 0
  BY OvertakenStays, Names, TrackTyped DEF Touch, history
<1> QED BY <1>1, <1>2 DEF TrackInv, Bridge

LEMMA BridgeStep == ASSUME TrackInv, [TrackingNext]_all PROVE Bridge'
<1>1. ASSUME NEW w \in Worker, NEW d \in Delivery, NEW r \in Result, TrackedAttempt(w, d, r)
      PROVE  Bridge'
  BY <1>1, BridgeAttempt
<1>2. ASSUME NEW w \in Worker, TrackedSettle(w) PROVE Bridge'
  BY <1>2, BridgeSettle
<1>3. ASSUME NEW w \in Worker, TrackedSettleLost(w) PROVE Bridge'
  BY <1>3, BridgeSettleLost
<1>4. ASSUME NEW i \in Instance, TrackedExit(i) PROVE Bridge'
  BY <1>4, BridgeExit
<1>5. CASE Elsewhere
  <2>1. UNCHANGED <<cur, result, accepted, message, emailId, providerStatus>>
    BY <1>5 DEF Elsewhere, Enqueue, Poll, Claim, ClaimLost, Hold, Stop, Restart, Tick,
                hand, history, tracked
  <2>2. DOMAIN providerStatus' = Email
    BY <2>1 DEF TrackInv, Bridge
  <2> QED BY <2>1, <2>2, QueueSide, BridgeElsewhere
<1>6. ASSUME NEW m \in Mail, NEW t \in EventType, Happen(m, t) PROVE Bridge'
  <2>1. UNCHANGED <<vars, message, emailId, providerStatus>>
    BY <1>6 DEF Happen, Webhooks!Happen, Webhooks!rows
  <2>2. UNCHANGED <<cur, result, accepted>> /\ DOMAIN providerStatus' = Email
    BY <2>1 DEF vars, hand, history, TrackInv, Bridge
  <2> QED BY <2>1, <2>2, BridgeElsewhere
<1>7. ASSUME NEW r \in Mail \X EventType, NEW heard \in BOOLEAN, Receive(r, heard)
      PROVE  Bridge'
  <2>1. Touch /\ UNCHANGED <<message, emailId>>
    BY <1>7, ReceiveTouches DEF Receive, Webhooks!Receive, Webhooks!rows
  <2>2. UNCHANGED <<cur, result, accepted>>
    BY <2>1 DEF Touch, hand, history
  <2>3. DOMAIN providerStatus' = Email
    BY <1>7 DEF Receive, Webhooks!Receive, Webhooks!Apply, TrackInv, Bridge
  <2> QED BY <2>1, <2>2, <2>3, BridgeElsewhere
<1>8. CASE UNCHANGED all
  BY <1>8, BridgeElsewhere DEF all, vars, hand, history, tracked, TrackInv, Bridge
<1> QED BY <1>1, <1>2, <1>3, <1>4, <1>5, <1>6, <1>7, <1>8 DEF TrackingNext

LEMMA TrackInvariant == TrackingSafeSpec => []TrackInv
<1>1. TrackingInit => TrackInv
  BY BridgeInit, QueueInit DEF TrackInv, TrackingInit
<1>2. TrackInv /\ [TrackingNext]_all => TrackInv'
  BY BridgeStep, TrackedQueueStep DEF TrackInv
<1> QED BY <1>1, <1>2, PTL DEF TrackingSafeSpec

\* With webhooks on the table, what the queue keeps count of it keeps count of
\* still, whatever the timing.
THEOREM TrackedQueueIsAccounted ==
  TrackingSafeSpec => [](DuplicatesExplained /\ AttemptsAccounted /\ AuditTruthful)
<1>1. TrackInv => DuplicatesExplained /\ AttemptsAccounted /\ AuditTruthful
  BY QueueProperties DEF TrackInv
<1> QED BY <1>1, TrackInvariant, PTL

\* With webhooks on the table, which set updated_at and so make a row look
\* younger than it is, a row is still taken from under a loop only after that
\* loop has held it for StaleAfter.
THEOREM TrackedClaimsAreExclusive == TrackingSafeSpec => []ClaimExclusive
<1>1. TrackingInit => ExclusiveInv
  BY QueueInit DEF TrackingInit, ExclusiveInv, Init, HeldLonger, ClaimExclusive
<1>2. ASSUME TrackInv, ExclusiveInv, [TrackingNext]_all PROVE ExclusiveInv'
  <2>1. CASE [Next]_vars
    BY <1>2, <2>1, ExclusiveStep
  <2>2. CASE Touch
    <3>1. UNCHANGED <<batch, heldFor, overtaken>> /\ \A d \in Delivery : age'[d] \in {0, age[d]}
      BY <2>2 DEF Touch, hand, history
    <3>2. \A w \in Worker : batch[w] \subseteq Delivery /\ heldFor[w] \in Nat
      BY <1>2, TrackTyped DEF TypeInv, TypeOK
    <3>3. HeldLonger'
      BY <1>2, <3>1, <3>2 DEF ExclusiveInv, HeldLonger
    <3>4. ClaimExclusive'
      BY <1>2, <3>1 DEF ExclusiveInv, ClaimExclusive
    <3> QED BY <1>2, <3>3, <3>4, TrackedQueueStep DEF ExclusiveInv
  <2> QED BY <1>2, <2>1, <2>2, QueueSide
<1>3. ExclusiveInv => ClaimExclusive
  BY DEF ExclusiveInv
<1> QED BY <1>1, <1>2, <1>3, TrackInvariant, PTL DEF TrackingSafeSpec

\* With webhooks on the table, the queue keeps its promise of one ending for
\* each row, whatever the timing.
THEOREM TrackedQueueKeepsPromise == TrackingSafeSpec => KeepsPromise
<1>1. TrackingInit => Promise!Init
  <2>1. TrackingInit => Init
    BY DEF TrackingInit
  <2>2. Init => Promise!Init
    BY DEF Init, Promise!Init
  <2> QED BY <2>1, <2>2
<1>2. TrackInv /\ [TrackingNext]_all => [Promise!Next]_(Promise!vars)
  <2> SUFFICES ASSUME TrackInv, [TrackingNext]_all PROVE [Promise!Next]_(Promise!vars)
    OBVIOUS
  <2>1. CASE [Next]_vars
    BY <2>1, PromiseStep DEF TrackInv
  <2>2. CASE Touch
    BY <2>2 DEF Touch, history, Promise!vars
  <2> QED BY <2>1, <2>2, QueueSide
<1> QED
  BY <1>1, <1>2, TrackInvariant, PTL DEF TrackingSafeSpec, KeepsPromise, Promise!SafeSpec
-----------------------------------------------------------------------------
(* The webhooks' side: what the queue does to the email columns *)

LEMMA Still ==
  ASSUME UNCHANGED <<Queue, emailId, Owner, InFlight, tracked>>
  PROVE  UNCHANGED Webhooks!vars
  BY DEF tracked, Webhooks!vars, Webhooks!rows, Webhooks!hook

\* A message in hand was sent for the row its loop holds.
LEMMA InFlightOwned ==
  ASSUME TrackInv, NEW m \in InFlight
  PROVE  /\ m \in Mail
         /\ \E v \in Worker : m = message[v] /\ cur[v] = m[1] /\ result[v] = "ok"
         /\ Owner[m] = m[1]
<1> PICK v \in Worker : m = message[v] /\ m # NoMail
  BY DEF InFlight
<1>1. m \in Mail /\ cur[v] = m[1] /\ result[v] = "ok" /\ m[2] <= accepted[m[1]]
  BY DEF TrackInv, Bridge
<1> QED BY <1>1 DEF Owner

\* A loop that lets its row go takes its message with it, and no other.
LEMMA InFlightLetGo ==
  ASSUME TrackInv, NEW ws \in SUBSET Worker, Forget(ws)
  PROVE  InFlight' = InFlight \ {message[w] : w \in ws}
<1>1. message' = [w \in Worker |-> IF w \in ws THEN NoMail ELSE message[w]]
  BY DEF Forget
<1>2. ASSUME NEW v \in Worker \ ws, NEW w \in ws, message[v] # NoMail
      PROVE  message[v] # message[w]
  BY <1>2 DEF TrackInv, Bridge
<1> QED BY <1>1, <1>2 DEF InFlight

LEMMA LosesMail ==
  ASSUME TrackInv, NEW ws \in SUBSET Worker, Forget(ws),
         UNCHANGED <<status, accepted, tracked>>
  PROVE  \E gone \in SUBSET Mail : Webhooks!LoseMail(gone)
<1> DEFINE gone == {message[w] : w \in ws} \ {NoMail}
<1>1. gone \in SUBSET Mail /\ gone \subseteq InFlight
  BY DEF TrackInv, Bridge, InFlight
<1>2. InFlight' = InFlight \ gone
  BY InFlightLetGo DEF InFlight
<1>3. Queue' = Queue /\ Owner' = Owner
  BY DEF Queue, Owner
<1>4. Webhooks!LoseMail(gone)
  BY <1>1, <1>2, <1>3 DEF Webhooks!LoseMail, Webhooks!hook, tracked
<1> QED BY <1>1, <1>4

LEMMA EventsAttempt ==
  ASSUME TrackInv, NEW w \in Worker, NEW d \in Delivery, NEW r \in Result,
         TrackedAttempt(w, d, r)
  PROVE  [Webhooks!Next]_(Webhooks!vars)
<1>1. /\ cur[w] = NoRow /\ d \in batch[w]
      /\ accepted' = IF r \in {"ok", "late"} THEN [accepted EXCEPT ![d] = @ + 1] ELSE accepted
      /\ d \in Email /\ r \in {"ok", "late"} => accepted'[d] \in Serial
      /\ \/ /\ d \in Email /\ r = "ok"
            /\ message' = [message EXCEPT ![w] = <<d, accepted'[d]>>]
         \/ UNCHANGED message
      /\ UNCHANGED <<status, tracked>>
  BY DEF TrackedAttempt, Attempt, table
<1>2. accepted \in [Delivery -> Nat] /\ message \in [Worker -> Mail \cup {NoMail}]
  BY TrackTyped DEF TrackInv, TypeInv, TypeOK, Bridge
<1>3. message[w] = NoMail
  BY <1>1, Names DEF TrackInv, Bridge
<1>4. Queue' = Queue
  BY <1>1 DEF Queue
<1>5. CASE d \in Email /\ r \in {"ok", "late"}
  <2> DEFINE n == accepted[d] + 1
             m == <<d, n>>
  <2>1. accepted'[d] = n /\ n \in Serial /\ m \in Mail
    BY <1>1, <1>2, <1>5 DEF Mail
  <2>3. Owner[m] = NoRow
    BY <1>2, <1>5, <2>1 DEF Owner
  <2>4. Owner' = [Owner EXCEPT ![m] = d]
    <3>1. ASSUME NEW x \in Mail PROVE Owner'[x] = IF x = m THEN d ELSE Owner[x]
      <4>1. x[1] \in Email /\ x[2] \in Serial /\ x = <<x[1], x[2]>> /\ x[2] \in Nat
        BY Names DEF Mail
      <4>2. Owner'[x] = (IF x[2] <= accepted'[x[1]] THEN x[1] ELSE NoRow)
            /\ Owner[x] = (IF x[2] <= accepted[x[1]] THEN x[1] ELSE NoRow)
        BY DEF Owner
      <4>3. CASE x[1] # d
        BY <1>1, <1>2, <4>1, <4>2, <4>3, Names
      <4>4. CASE x[1] = d
        <5>1. accepted'[x[1]] = accepted[d] + 1 /\ accepted[d] \in Nat
          BY <1>2, <2>1, <4>4
        <5>2. x = m <=> x[2] = accepted[d] + 1
          BY <4>1, <4>4
        <5> QED BY <4>1, <4>2, <4>4, <5>1, <5>2
      <4> QED BY <4>3, <4>4
    <3> QED BY <3>1 DEF Owner
  <2>5. InFlight' \in {InFlight \cup {m}, InFlight}
    <3>1. CASE message' = [message EXCEPT ![w] = m]
      <4>1. m # NoMail
        BY <2>1, Names
      <4> QED BY <1>2, <1>3, <3>1, <4>1 DEF InFlight
    <3>2. CASE UNCHANGED message
      BY <3>2 DEF InFlight
    <3> QED BY <1>1, <2>1, <3>1, <3>2
  <2>6. PICK intime \in BOOLEAN : InFlight' = IF intime THEN InFlight \cup {m} ELSE InFlight
    BY <2>5
  <2>7. Webhooks!Send(d, m, intime)
    BY <1>1, <1>4, <2>3, <2>4, <2>6 DEF Webhooks!Send, Webhooks!hook, tracked
  <2> HIDE DEF m
  <2> QED BY <1>5, <2>1, <2>7 DEF Webhooks!Next
<1>6. CASE ~(d \in Email /\ r \in {"ok", "late"})
  <2>1. \A e \in Email : accepted'[e] = accepted[e]
    BY <1>1, <1>2, <1>6, Names
  <2>2. Owner' = Owner
    BY <2>1 DEF Owner, Mail
  <2>3. InFlight' = InFlight
    BY <1>1, <1>6 DEF InFlight
  <2> QED BY <1>1, <1>4, <2>2, <2>3, Still DEF tracked
<1> QED BY <1>5, <1>6

LEMMA EventsSettle ==
  ASSUME TrackInv, NEW w \in Worker, TrackedSettle(w)
  PROVE  [Webhooks!Next]_(Webhooks!vars)
<1> PICK c \in Delivery : c = cur[w]
  BY TrackTyped DEF TrackedSettle, Settle, TypeInv, TypeOK
<1>1. /\ Mark(w) /\ StoreId(w) /\ Forget({w})
      /\ UNCHANGED <<accepted, providerStatus, log, alerts, reported, answered, early>>
  BY DEF TrackedSettle, Settle
<1>2. status \in [Delivery -> Status] /\ emailId \in [Email -> Mail \cup {NoMail}]
  BY TrackTyped DEF TrackInv, TypeInv, TypeOK, Bridge
<1>3. InFlight' = InFlight \ {message[w]}
  BY <1>1, InFlightLetGo
<1>4. Owner' = Owner
  BY <1>1 DEF Owner
<1>5. UNCHANGED Webhooks!hook
  BY <1>1 DEF Webhooks!hook
<1>6. CASE message[w] # NoMail
  <2> DEFINE m == message[w]
  <2>1. m \in InFlight /\ m \in Mail
    BY <1>6 DEF InFlight, TrackInv, Bridge
  <2>2. c \in Email /\ result[w] = "ok" /\ m[1] = c /\ Owner[m] = c
    BY <1>6, <2>1, InFlightOwned DEF TrackInv, Bridge
  <2>3. status' = [status EXCEPT ![c] = "sent"]
    BY <1>1, <2>2 DEF Mark, MarkSent
  <2>4. Queue' = [Queue EXCEPT ![c] = "sent"]
    BY <1>2, <2>2, <2>3, Names DEF Queue
  <2>5. emailId' = [emailId EXCEPT ![c] = m]
    BY <1>1, <2>2 DEF StoreId
  <2>6. Webhooks!MarkSent(m)
    BY <1>3, <1>4, <1>5, <2>1, <2>2, <2>4, <2>5 DEF Webhooks!MarkSent
  <2> QED BY <2>1, <2>6 DEF Webhooks!Next
<1>7. CASE message[w] = NoMail
  <2>1. InFlight' = InFlight
    BY <1>3, <1>7 DEF InFlight
  <2>4. CASE c \in Email /\ result[w] = "ok"
    <3>1. status' = [status EXCEPT ![c] = "sent"] /\ emailId' = [emailId EXCEPT ![c] = NoMail]
      BY <1>1, <1>7, <2>4 DEF Mark, MarkSent, StoreId
    <3>2. Queue' = [Queue EXCEPT ![c] = "sent"]
      BY <1>2, <2>4, <3>1, Names DEF Queue
    <3>4. Webhooks!MarkSentBlank(c)
      BY <1>4, <1>5, <2>1, <3>1, <3>2 DEF Webhooks!MarkSentBlank
    <3> QED BY <2>4, <3>4 DEF Webhooks!Next
  <2>2. CASE c \in Email /\ result[w] # "ok"
    <3>1. result[w] # "nosubs" /\ emailId' = emailId
      BY <1>1, <2>2 DEF TrackInv, Bridge, StoreId
    <3>2. status' = [status EXCEPT ![c] = RetryStatus(NextAttempts(w))]
      BY <1>1, <2>2, <3>1 DEF Mark, MarkRetrying
    <3>3. RetryStatus(NextAttempts(w)) \in {"retrying", "failed"}
      BY DEF RetryStatus
    <3>4. Queue' = [Queue EXCEPT ![c] = RetryStatus(NextAttempts(w))]
      BY <1>2, <2>2, <3>2, <3>3, Names DEF Queue
    <3>6. Webhooks!FailAttempt(c, RetryStatus(NextAttempts(w)))
      BY <1>4, <1>5, <2>1, <3>1, <3>4 DEF Webhooks!FailAttempt
    <3> QED BY <2>2, <3>3, <3>6 DEF Webhooks!Next
  <2>3. CASE c \notin Email
    <3>1. \A e \in Email : status'[e] = status[e]
      BY <1>1, <1>2, <2>3, Names DEF Mark, MarkSent, MarkSkipped, MarkRetrying
    <3>2. Queue' = Queue /\ emailId' = emailId
      BY <1>1, <2>3, <3>1 DEF Queue, StoreId
    <3> QED BY <1>4, <1>5, <2>1, <3>2 DEF Webhooks!vars, Webhooks!rows
  <2> QED BY <2>2, <2>3, <2>4
<1> QED BY <1>6, <1>7

LEMMA EventsElsewhere ==
  ASSUME TrackInv, Elsewhere
  PROVE  [Webhooks!Next]_(Webhooks!vars)
<1>1. UNCHANGED <<message, tracked>>
  BY DEF Elsewhere
<1>2. UNCHANGED accepted
  BY DEF Elsewhere, Enqueue, Poll, Claim, ClaimLost, Stop, Restart, Tick, history
<1>3. InFlight' = InFlight /\ Owner' = Owner
  BY <1>1, <1>2 DEF InFlight, Owner
<1>4. ASSUME NEW w \in Worker, Poll(w) PROVE Webhooks!Next
  <2> PICK rows \in SUBSET Delivery : Taken(rows)
    BY <1>4, PollTakes, TrackTyped
  <2> DEFINE claimed == rows \cap Email
  <2>1. \A d \in claimed : Queue[d] \in Webhooks!Open
    BY Names DEF Taken, Queue, Webhooks!Open
  <2>2. Queue' = [d \in Email |-> IF d \in claimed THEN "processing" ELSE Queue[d]]
    BY Names DEF Taken, Queue
  <2>3. Webhooks!Claim(claimed)
    BY <1>1, <1>3, <2>1, <2>2 DEF Webhooks!Claim, Webhooks!hook, tracked
  <2> QED BY <2>3 DEF Webhooks!Next
<1>5. ASSUME NEW d \in Delivery, Enqueue(d) PROVE UNCHANGED Webhooks!vars
  <2>1. status[d] = "absent" /\ status' = [status EXCEPT ![d] = "pending"]
    BY <1>5 DEF Enqueue
  <2>2. status \in [Delivery -> Status]
    BY TrackTyped DEF TypeInv, TypeOK
  <2>3. Queue' = Queue
    BY <2>1, <2>2, Names DEF Queue
  <2> QED BY <1>1, <1>3, <2>3, Still DEF tracked
<1>6. ASSUME UNCHANGED status PROVE UNCHANGED Webhooks!vars
  <2>1. Queue' = Queue
    BY <1>6 DEF Queue
  <2> QED BY <1>1, <1>3, <2>1, Still DEF tracked
<1>7. \/ \E d \in Delivery : Enqueue(d)
      \/ \E w \in Worker : Poll(w)
      \/ UNCHANGED status
  BY DEF Elsewhere, Stop, Restart, Tick, table
<1> QED BY <1>4, <1>5, <1>6, <1>7

LEMMA EventsStep ==
  ASSUME TrackInv, [TrackingNext]_all
  PROVE  [Webhooks!Next]_(Webhooks!vars)
<1>1. ASSUME NEW w \in Worker, NEW d \in Delivery, NEW r \in Result, TrackedAttempt(w, d, r)
      PROVE  [Webhooks!Next]_(Webhooks!vars)
  BY <1>1, EventsAttempt
<1>2. ASSUME NEW w \in Worker, TrackedSettle(w) PROVE [Webhooks!Next]_(Webhooks!vars)
  BY <1>2, EventsSettle
<1>3. ASSUME NEW w \in Worker, TrackedSettleLost(w) PROVE Webhooks!Next
  <2>1. Forget({w}) /\ UNCHANGED <<status, accepted, tracked>>
    BY <1>3 DEF TrackedSettleLost, SettleLost, table
  <2>2. \E gone \in SUBSET Mail : Webhooks!LoseMail(gone)
    BY <2>1, LosesMail
  <2> QED BY <2>2 DEF Webhooks!Next
<1>4. ASSUME NEW i \in Instance, TrackedExit(i) PROVE Webhooks!Next
  <2>1. Forget(Loops(i)) /\ UNCHANGED <<status, accepted, tracked>>
    BY <1>4 DEF TrackedExit, Exit, table
  <2>2. \E gone \in SUBSET Mail : Webhooks!LoseMail(gone)
    BY <2>1, LosesMail DEF Loops
  <2> QED BY <2>2 DEF Webhooks!Next
<1>5. CASE Elsewhere
  BY <1>5, EventsElsewhere
<1>6. ASSUME NEW m \in Mail, NEW t \in EventType, Happen(m, t) PROVE Webhooks!Next
  BY <1>6 DEF Happen, Webhooks!Next
<1>7. ASSUME NEW r \in Mail \X EventType, NEW heard \in BOOLEAN, Receive(r, heard)
      PROVE  Webhooks!Next
  BY <1>7 DEF Receive, Webhooks!Next, Webhooks!Report
<1>8. CASE UNCHANGED all
  <2>1. UNCHANGED <<status, accepted, message, tracked>>
    BY <1>8 DEF all, vars, table, history
  <2>2. UNCHANGED <<Queue, Owner, InFlight>>
    BY <2>1 DEF Queue, Owner, InFlight
  <2> QED BY <2>1, <2>2, Still DEF tracked
<1> QED BY <1>1, <1>2, <1>3, <1>4, <1>5, <1>6, <1>7, <1>8 DEF TrackingNext

LEMMA EventsInit == TrackingInit => Webhooks!Init
<1> SUFFICES ASSUME TrackingInit PROVE Webhooks!Init
  OBVIOUS
<1>1. /\ status = [d \in Delivery |-> "absent"] /\ accepted = [d \in Delivery |-> 0]
      /\ message = [w \in Worker |-> NoMail]
      /\ emailId = [d \in Email |-> NoMail]
      /\ providerStatus = [d \in Email |-> ""]
      /\ log = {} /\ alerts = [d \in Email |-> <<>>]
      /\ reported = {} /\ answered = {} /\ early = {}
  BY DEF TrackingInit, Init
<1>2. Queue = [d \in Email |-> "pending"]
  BY <1>1, Names DEF Queue
<1>3. Owner = [m \in Mail |-> NoRow]
  <2>1. ASSUME NEW m \in Mail PROVE m[1] \in Delivery /\ m[2] \in Nat /\ m[2] > 0
    BY Names DEF Mail
  <2>2. \A m \in Mail : accepted[m[1]] = 0
    BY <1>1, <2>1
  <2> QED BY <2>1, <2>2 DEF Owner
<1>4. InFlight = {}
  BY <1>1 DEF InFlight
<1> QED BY <1>1, <1>2, <1>3, <1>4 DEF Webhooks!Init

\* The queue does to the email columns only what EmailEvents lets it do, late
\* answers, blank ids and rows with two loops at work included.
THEOREM QueueKeepsEvents == TrackingSafeSpec => KeepsEvents
<1>1. TrackingInit => Webhooks!Init
  BY EventsInit
<1>2. TrackInv /\ [TrackingNext]_all => [Webhooks!Next]_(Webhooks!vars)
  BY EventsStep
<1> QED BY <1>1, <1>2, TrackInvariant, PTL DEF TrackingSafeSpec, KeepsEvents, Webhooks!SafeSpec
-----------------------------------------------------------------------------
(* One email for each row *)

\* The id a row carries is of a message sent for it, and what is in the log is
\* about such messages.
LogInv == /\ \A d \in Email : emailId[d] # NoMail => emailId[d][1] = d
          /\ \A r \in log : r[1] \in Mail
          /\ OneEmailPerRow

LEMMA LogKept ==
  ASSUME TrackInv, LogInv, [Next]_vars \/ Touch, UNCHANGED <<emailId, log>>
  PROVE  LogInv'
<1>1. ASSUME NEW r \in log, overtaken'[r[1][1]] = 0 PROVE overtaken[r[1][1]] = 0
  <2>1. r[1][1] \in Delivery
    BY Names DEF LogInv, Mail
  <2> QED BY <1>1, <2>1, OvertakenStays, TrackTyped DEF Touch, history
<1> QED BY <1>1 DEF LogInv, OneEmailPerRow

\* A row whose result a loop is about to record carries no id yet, so nothing
\* has been recorded for it, unless a claim overtook another.
LEMMA LogSettle ==
  ASSUME TrackInv, LogInv, NEW w \in Worker, TrackedSettle(w)
  PROVE  LogInv'
<1>1. Settle(w) /\ StoreId(w) /\ UNCHANGED <<log, overtaken>>
  BY DEF TrackedSettle, Settle
<1>2. [Next]_vars
  BY <1>1 DEF Next, Step
<1>3. CASE ~(cur[w] \in Email /\ result[w] = "ok")
  BY <1>1, <1>2, <1>3, LogKept DEF StoreId
<1>4. CASE cur[w] \in Email /\ result[w] = "ok"
  <2> DEFINE c == cur[w]
  <2>1. emailId' = [emailId EXCEPT ![c] = message[w]] /\ c \in Delivery
    BY <1>1, <1>4, Names DEF StoreId
  <2>2. emailId \in [Email -> Mail \cup {NoMail}]
    BY DEF TrackInv, Bridge
  <2>3. message[w] # NoMail => message[w][1] = c
    BY DEF TrackInv, Bridge
  <2>4. \A d \in Email : emailId'[d] # NoMail => emailId'[d][1] = d
    BY <1>4, <2>1, <2>2, <2>3 DEF LogInv
  <2>5. ASSUME NEW r \in log, overtaken[r[1][1]] = 0 PROVE emailId'[r[1][1]] = r[1]
    <3>1. emailId[r[1][1]] = r[1] /\ r[1] \in Mail /\ r[1][1] \in Email
      BY <2>5 DEF LogInv, OneEmailPerRow, Mail
    <3>2. r[1][1] # c
      <4> SUFFICES ASSUME r[1][1] = c PROVE FALSE
        OBVIOUS
      <4>1. c \in batch[w]
        BY <1>4, InHandHeld
      <4>2. status[c] = "processing"
        BY <2>1, <2>5, <4>1 DEF TrackInv, QueueInv, Calm, HeldAlone
      <4>3. emailId[c] # NoMail
        BY <3>1, Names
      <4> QED BY <1>4, <2>5, <4>2, <4>3 DEF TrackInv, Bridge
    <3> QED BY <1>4, <2>1, <2>2, <3>1, <3>2
  <2> HIDE DEF c
  <2> QED BY <1>1, <2>4, <2>5 DEF LogInv, OneEmailPerRow
<1> QED BY <1>3, <1>4

\* A report is recorded for the row that carries the id of its email.
LEMMA LogReceive ==
  ASSUME TrackInv, LogInv, NEW r \in Mail \X EventType, NEW heard \in BOOLEAN,
         Receive(r, heard)
  PROVE  LogInv'
<1>1. Touch /\ UNCHANGED emailId /\ overtaken' = overtaken
  BY ReceiveTouches DEF Receive, Webhooks!Receive, Webhooks!rows, history
<1>2. CASE UNCHANGED log
  BY <1>1, <1>2, LogKept
<1>3. CASE \E d \in Email : emailId[d] = r[1] /\ log' = log \cup {r}
  <2> PICK d \in Email : emailId[d] = r[1] /\ log' = log \cup {r}
    BY <1>3
  <2>1. r[1] \in Mail /\ r[1][1] = d
    BY Names DEF LogInv
  <2> QED BY <1>1, <2>1 DEF LogInv, OneEmailPerRow
<1> QED BY <1>2, <1>3 DEF Receive, Webhooks!Receive, Webhooks!Apply

LEMMA LogStep == ASSUME TrackInv, LogInv, [TrackingNext]_all PROVE LogInv'
<1>1. ASSUME NEW w \in Worker, TrackedSettle(w) PROVE LogInv'
  BY <1>1, LogSettle
<1>2. ASSUME NEW r \in Mail \X EventType, NEW heard \in BOOLEAN, Receive(r, heard)
      PROVE  LogInv'
  BY <1>2, LogReceive
<1>3. ASSUME UNCHANGED <<emailId, log>> PROVE LogInv'
  BY <1>3, QueueSide, LogKept
<1>4. ASSUME NEW w \in Worker, NEW d \in Delivery, NEW r \in Result, TrackedAttempt(w, d, r)
      PROVE  LogInv'
  BY <1>3, <1>4 DEF TrackedAttempt, tracked
<1>5. ASSUME NEW w \in Worker, TrackedSettleLost(w) PROVE LogInv'
  BY <1>3, <1>5 DEF TrackedSettleLost, tracked
<1>6. ASSUME NEW i \in Instance, TrackedExit(i) PROVE LogInv'
  BY <1>3, <1>6 DEF TrackedExit, tracked
<1>7. CASE Elsewhere \/ UNCHANGED all
  BY <1>3, <1>7 DEF Elsewhere, all, tracked
<1>8. ASSUME NEW m \in Mail, NEW t \in EventType, Happen(m, t) PROVE LogInv'
  BY <1>3, <1>8 DEF Happen, Webhooks!Happen, Webhooks!rows
<1> QED BY <1>1, <1>2, <1>4, <1>5, <1>6, <1>7, <1>8 DEF TrackingNext

\* Neither a retry, nor a restart, nor a second instance mixes two emails'
\* histories in one row, whatever the timing, unless two loops held it at once.
THEOREM TrackedRowsKeepOneEmail == TrackingSafeSpec => []OneEmailPerRow
<1>1. TrackingInit => LogInv
  BY DEF TrackingInit, LogInv, OneEmailPerRow
<1>2. TrackInv /\ LogInv /\ [TrackingNext]_all => LogInv'
  BY LogStep
<1>3. LogInv => OneEmailPerRow
  BY DEF LogInv
<1> QED BY <1>1, <1>2, <1>3, TrackInvariant, PTL DEF TrackingSafeSpec
-----------------------------------------------------------------------------
(* What is proved of EmailEvents, here *)

Events == INSTANCE EmailEventsProofs WITH
  Delivery <- Email, queue <- Queue, owner <- Owner, hand <- InFlight

LEMMA EventsAssumed == Events!EventAssumption
  BY Names, TrackingAssumption
  DEF Events!EventAssumption, TrackingAssumption

LEMMA SameEvents ==
  /\ Webhooks!Init <=> Events!Init
  /\ Webhooks!Next <=> Events!Next
  /\ Webhooks!vars = Events!vars
  /\ Webhooks!MissedOnlyEarly <=> Events!MissedOnlyEarly
  BY Zenon DEF
    Webhooks!Init, Events!Init, Webhooks!Next, Events!Next,
    Webhooks!vars, Events!vars, Webhooks!rows, Events!rows, Webhooks!hook, Events!hook,
    Webhooks!MissedOnlyEarly, Events!MissedOnlyEarly,
    Webhooks!Claim, Events!Claim, Webhooks!Send, Events!Send,
    Webhooks!MarkSent, Events!MarkSent, Webhooks!MarkSentBlank, Events!MarkSentBlank,
    Webhooks!LoseMail, Events!LoseMail,
    Webhooks!FailAttempt, Events!FailAttempt, Webhooks!Happen, Events!Happen,
    Webhooks!Receive, Events!Receive, Webhooks!Apply, Events!Apply,
    Webhooks!Advance, Events!Advance, Webhooks!RaiseAlert, Events!RaiseAlert,
    Webhooks!Seen, Events!Seen, Webhooks!Rank, Events!Rank,
    Webhooks!Relevant, Events!Relevant, Webhooks!StatusForEvent, Events!StatusForEvent,
    Webhooks!Report, Events!Report, Webhooks!Open, Events!Open,
    Webhooks!Problem, Events!Problem, Webhooks!Undelivered, Events!Undelivered

LEMMA EventsBox == [Webhooks!Next]_(Webhooks!vars) => [Events!Next]_(Events!vars)
  BY SameEvents, Zenon DEF Webhooks!vars, Events!vars, Webhooks!rows, Events!rows,
                           Webhooks!hook, Events!hook

\* No webhook about a row's email is dropped once the row has the id, whatever
\* becomes of the loop that sent it.
THEOREM TrackedReportsAreKept == TrackingSafeSpec => []MissedOnlyEarly
<1>1. Events!SafeSpec => []Events!MissedOnlyEarly
  BY Events!ReportsAreKept, EventsAssumed
<1>2. Events!Init /\ [][Events!Next]_(Events!vars) => []Events!MissedOnlyEarly
  BY <1>1 DEF Events!SafeSpec
<1>3. Webhooks!SafeSpec => []Webhooks!MissedOnlyEarly
  BY <1>2, SameEvents, EventsBox, PTL DEF Webhooks!SafeSpec
<1> QED BY <1>3, QueueKeepsEvents, PTL DEF KeepsEvents, MissedOnlyEarly

\* With the queue at work on the same rows, and whatever its timing, a row's
\* status is the gravest recorded, alerts escalate, and a client reads of a
\* bounce exactly if there was one or the queue gave up.
THEOREM TrackedHistoryIsRight ==
  TrackingSafeSpec => [](/\ Webhooks!StatusIsGravest
                         /\ Webhooks!AlertsEscalate
                         /\ Webhooks!ClientSeesUndelivered)
<1>1. Events!SafeSpec => [](/\ Events!StatusIsGravest
                            /\ Events!AlertsEscalate
                            /\ Events!ClientSeesUndelivered)
  BY Events!StatusIsAlwaysGravest, Events!AlertsAreRight, Events!ClientsSeeUndelivered,
     EventsAssumed, PTL
<1>2. Events!Init /\ [][Events!Next]_(Events!vars)
        => [](/\ Events!StatusIsGravest
              /\ Events!AlertsEscalate
              /\ Events!ClientSeesUndelivered)
  BY <1>1 DEF Events!SafeSpec
<1>3. /\ Webhooks!StatusIsGravest <=> Events!StatusIsGravest
      /\ Webhooks!AlertsEscalate <=> Events!AlertsEscalate
      /\ Webhooks!ClientSeesUndelivered <=> Events!ClientSeesUndelivered
  BY Zenon DEF
    Webhooks!StatusIsGravest, Events!StatusIsGravest, Webhooks!Recorded, Events!Recorded,
    Webhooks!AlertsEscalate, Events!AlertsEscalate, Webhooks!AlertsRise, Events!AlertsRise,
    Webhooks!ProblemIsAlerted, Events!ProblemIsAlerted,
    Webhooks!ClientSeesUndelivered, Events!ClientSeesUndelivered,
    Webhooks!DeriveState, Events!DeriveState, Webhooks!Rank, Events!Rank,
    Webhooks!StatusForEvent, Events!StatusForEvent, Webhooks!Problem, Events!Problem,
    Webhooks!Undelivered, Events!Undelivered,
    Webhooks!ProviderStatus, Events!ProviderStatus
<1>4. Webhooks!SafeSpec => [](/\ Webhooks!StatusIsGravest
                              /\ Webhooks!AlertsEscalate
                              /\ Webhooks!ClientSeesUndelivered)
  BY <1>2, <1>3, SameEvents, EventsBox, PTL DEF Webhooks!SafeSpec
<1> QED BY <1>4, QueueKeepsEvents, PTL DEF KeepsEvents

\* The queue's rows with the webhooks' columns are well typed.
THEOREM TrackingTypeCorrect == TrackingSafeSpec => []TrackingTypeOK
<1>1. Events!SafeSpec => []Events!TypeOK
  BY Events!TypeCorrect, EventsAssumed
<1>2. Events!Init /\ [][Events!Next]_(Events!vars) => []Events!TypeOK
  BY <1>1 DEF Events!SafeSpec
<1>3. Webhooks!TypeOK <=> Events!TypeOK
  BY Zenon DEF Webhooks!TypeOK, Events!TypeOK, Webhooks!Open, Events!Open,
               Webhooks!ProviderStatus, Events!ProviderStatus,
               Webhooks!Report, Events!Report, Webhooks!Problem, Events!Problem
<1>4. Webhooks!SafeSpec => []Webhooks!TypeOK
  BY <1>2, <1>3, SameEvents, EventsBox, PTL DEF Webhooks!SafeSpec
<1>5. TrackInv /\ Webhooks!TypeOK => TrackingTypeOK
  BY DEF TrackInv, Bridge, TrackingTypeOK
<1> QED BY <1>4, <1>5, TrackInvariant, QueueKeepsEvents, PTL DEF KeepsEvents
=============================================================================
