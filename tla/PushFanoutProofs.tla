---------------------------- MODULE PushFanoutProofs ----------------------------
(***************************************************************************)
(* Proofs about PushFanout, for any endpoints, workers, attempts,          *)
(* subscriptions and faults.                                               *)
(***************************************************************************)
EXTENDS PushFanout, FiniteSetTheorems, TLAPS

LEMMA Bounds ==
  /\ IsFiniteSet(Worker)
  /\ MaxAttempts \in Nat /\ MaxAttempts > 0
  /\ MaxId \in Nat /\ FaultBudget \in Nat
  BY FanoutAssumption DEF FanoutAssumption
-----------------------------------------------------------------------------
(* What each step does to the workers' memory *)

\* Only worker w's memory changes.
Only(w) == /\ hand' \in [Worker -> Hand]
           /\ \A v \in Worker \ {w} : hand'[v] = hand[v]

LEMMA IdleTyped == Idle \in Hand
  BY Bounds DEF Idle, Hand

LEMMA ListedTyped == TypeOK /\ (\A e \in Endpoint : owner[e] # "none" => id[e] # 0)
                       => Listed \in SUBSET (Endpoint \X Id)
  BY Bounds DEF TypeOK, Listed, Id

LEMMA ClaimHand ==
  ASSUME TypeOK, NEW w \in Worker, Claim(w)
  PROVE  /\ Only(w)
         /\ hand'[w].phase = "claimed" /\ hand'[w].prior = response
         /\ hand'[w].seen = attempts /\ hand'[w].listed = {} /\ hand'[w].todo = {}
         /\ hand'[w].outcomes = {} /\ hand'[w].allSent = TRUE
         /\ hand'[w].taken = {} /\ hand'[w].dead = {}
  BY Bounds DEF Claim, Only, Idle, Hand, TypeOK

LEMMA ReleaseHand ==
  ASSUME TypeOK, NEW w \in Worker, Release(w)
  PROVE  Only(w) /\ hand'[w] = Idle
  BY IdleTyped DEF Release, Only, TypeOK

LEMMA ListHand ==
  ASSUME TypeOK, Listed \in SUBSET (Endpoint \X Id), NEW w \in Worker, List(w)
  PROVE  /\ Only(w)
         /\ hand'[w].phase = "sending" /\ hand'[w].prior = hand[w].prior
         /\ hand'[w].seen = hand[w].seen /\ hand'[w].listed = Listed
         /\ hand'[w].todo = Listed \ Reached(w)
         /\ hand'[w].outcomes = {s[2] : s \in Reached(w)}
         /\ hand'[w].allSent = hand[w].allSent
         /\ hand'[w].taken = hand[w].taken /\ hand'[w].dead = hand[w].dead
<1> DEFINE h == hand[w]
           ids == {s[2] : s \in Reached(w)}
           new == Listed \ Reached(w)
           k == [h EXCEPT !.phase = "sending", !.listed = Listed, !.todo = new,
                          !.outcomes = ids]
<1>1. h \in Hand /\ ids \in SUBSET Id /\ new \in SUBSET (Endpoint \X Id)
  BY DEF Reached, TypeOK
<1>2. hand' = [hand EXCEPT ![w] = k]
  BY DEF List, TypeOK
<1> HIDE DEF ids, new
<1>3. /\ k \in Hand
      /\ k.phase = "sending" /\ k.prior = h.prior /\ k.seen = h.seen /\ k.listed = Listed
      /\ k.todo = new /\ k.outcomes = ids /\ k.allSent = h.allSent
      /\ k.taken = h.taken /\ k.dead = h.dead
  BY <1>1 DEF Hand
<1> HIDE DEF k
<1>4. hand'[w] = k /\ Only(w)
  BY <1>2, <1>3 DEF Only, TypeOK
<1> QED BY <1>3, <1>4 DEF ids, new

LEMMA PushHand ==
  ASSUME TypeOK, NEW w \in Worker, NEW s \in Endpoint \X Id,
         NEW r \in Answer, Push(w, s, r)
  PROVE  /\ Only(w)
         /\ hand'[w].phase = hand[w].phase /\ hand'[w].prior = hand[w].prior
         /\ hand'[w].seen = hand[w].seen /\ hand'[w].listed = hand[w].listed
         /\ hand'[w].todo = hand[w].todo \ {s}
         /\ hand'[w].outcomes = IF r = "ok" THEN hand[w].outcomes \cup {s[2]} ELSE hand[w].outcomes
         /\ hand'[w].allSent = (hand[w].allSent /\ r = "ok")
         /\ hand'[w].taken = IF r = "error" THEN hand[w].taken ELSE hand[w].taken \cup {s[2]}
         /\ hand'[w].dead = hand[w].dead
<1> DEFINE h == hand[w]
           ids == IF r = "ok" THEN h.outcomes \cup {s[2]} ELSE h.outcomes
           got == IF r = "error" THEN h.taken ELSE h.taken \cup {s[2]}
           k == [h EXCEPT !.todo = h.todo \ {s}, !.outcomes = ids,
                          !.allSent = (h.allSent /\ r = "ok"), !.taken = got]
<1>1. h \in Hand
  BY DEF TypeOK
<1>2. hand' = [hand EXCEPT ![w] = k]
  BY DEF Push, Outcomes, AllSent, TypeOK
<1>3. ids \in SUBSET Id /\ got \in SUBSET Id /\ (h.allSent /\ r = "ok") \in BOOLEAN
  BY <1>1 DEF Hand
<1> HIDE DEF ids, got
<1>4. /\ k \in Hand
      /\ k.phase = h.phase /\ k.prior = h.prior /\ k.seen = h.seen /\ k.listed = h.listed
      /\ k.todo = h.todo \ {s} /\ k.outcomes = ids /\ k.allSent = (h.allSent /\ r = "ok")
      /\ k.taken = got /\ k.dead = h.dead
  BY <1>1, <1>3 DEF Hand
<1> HIDE DEF k
<1>5. hand'[w] = k /\ Only(w)
  BY <1>2, <1>4 DEF Only, TypeOK
<1> QED BY <1>4, <1>5 DEF ids, got

LEMMA PruneHand ==
  ASSUME TypeOK, NEW w \in Worker, NEW s \in Endpoint \X Id, Prune(w, s)
  PROVE  /\ Only(w)
         /\ hand'[w].phase = hand[w].phase /\ hand'[w].prior = hand[w].prior
         /\ hand'[w].seen = hand[w].seen /\ hand'[w].listed = hand[w].listed
         /\ hand'[w].todo = hand[w].todo \ {s}
         /\ hand'[w].outcomes = hand[w].outcomes
         /\ hand'[w].allSent = hand[w].allSent
         /\ hand'[w].taken = hand[w].taken
         /\ hand'[w].dead = hand[w].dead \cup {s}
<1> DEFINE h == hand[w]
           k == [h EXCEPT !.todo = h.todo \ {s}, !.dead = h.dead \cup {s}]
<1>1. h \in Hand
  BY DEF TypeOK
<1>2. hand' = [hand EXCEPT ![w] = k]
  BY DEF Prune, TypeOK
<1>3. /\ k \in Hand
      /\ k.phase = h.phase /\ k.prior = h.prior /\ k.seen = h.seen /\ k.listed = h.listed
      /\ k.todo = h.todo \ {s} /\ k.outcomes = h.outcomes /\ k.allSent = h.allSent
      /\ k.taken = h.taken /\ k.dead = h.dead \cup {s}
  BY <1>1 DEF Hand
<1> HIDE DEF k
<1>4. hand'[w] = k /\ Only(w)
  BY <1>2, <1>3 DEF Only, TypeOK
<1> QED BY <1>3, <1>4
-----------------------------------------------------------------------------
(* Types *)

\* A worker tries what it listed, only while attempts are left, and starts an
\* attempt with nothing done.
Tidy(w) ==
  /\ hand[w].todo \subseteq hand[w].listed
  /\ Holds(w) => hand[w].seen < MaxAttempts
  /\ hand[w].phase # "sending" =>
       /\ hand[w].listed = {} /\ hand[w].outcomes = {} /\ hand[w].allSent
       /\ hand[w].taken = {} /\ hand[w].dead = {}

\* A subscription has an id, no two endpoints have had the same, and a row that
\* may be claimed has attempts left.
TypeInv ==
  /\ TypeOK
  /\ \A e \in Endpoint : id[e] <= inserted /\ (owner[e] # "none" => id[e] # 0)
  /\ \A e, g \in Endpoint : id[e] = id[g] /\ id[e] # 0 => e = g
  /\ status \in {"open", "processing"} => attempts < MaxAttempts
  /\ \A w \in Worker : Tidy(w)

LEMMA TypeInit == Init => TypeInv
<1> SUFFICES ASSUME Init PROVE TypeInv
  OBVIOUS
<1>1. TypeOK
  BY Bounds, IdleTyped DEF Init, TypeOK, Id
<1>2. \A w \in Worker : Tidy(w)
  BY DEF Init, Tidy, Idle, Holds
<1> QED BY <1>1, <1>2, Bounds DEF Init, TypeInv

LEMMA ListsDevices == ASSUME TypeInv PROVE Listed \in SUBSET (Endpoint \X Id)
  BY ListedTyped DEF TypeInv

LEMMA SpendTyped ==
  ASSUME TypeOK, NEW kind, Spend(kind) \/ UNCHANGED faults
  PROVE  faults' \in 0..FaultBudget
<1>1. faults' = faults \/ (faults > 0 /\ faults' = faults - 1)
  BY DEF Spend
<1> QED BY <1>1, Bounds DEF TypeOK

\* The other workers' memory is as it was, and so as tidy.
LEMMA OthersTidy ==
  ASSUME TypeInv, NEW w \in Worker, Only(w), Tidy(w)'
  PROVE  \A v \in Worker : Tidy(v)'
  BY DEF TypeInv, Only, Tidy, Holds

\* The end of an attempt, however it ends.
LEMMA EndTyped ==
  ASSUME TypeInv, NEW w \in Worker, Release(w), UNCHANGED <<subscriptions, pushed, overtaken>>,
         forgotten' \in [Id -> Nat], response' \in SUBSET Id, faults' \in 0..FaultBudget,
         \/ UNCHANGED attempts /\ (UNCHANGED status \/ status' \in {"sent", "skipped"})
         \/ /\ attempts' \in 0..MaxAttempts /\ status' \in {"failed", "open"}
            /\ status' = "open" => attempts' < MaxAttempts
  PROVE  TypeInv'
<1>1. Only(w) /\ hand'[w] = Idle
  BY ReleaseHand DEF TypeInv
<1>2. Tidy(w)'
  BY <1>1 DEF Tidy, Idle, Holds
<1>3. \A v \in Worker : Tidy(v)'
  BY <1>1, <1>2, OthersTidy
<1>4. hand' \in [Worker -> Hand]
  BY <1>1 DEF Only
<1>5. /\ owner' = owner /\ id' = id /\ inserted' = inserted
      /\ pushed' = pushed /\ overtaken' = overtaken
  BY DEF subscriptions
<1>6. /\ status' \in {"open", "processing"} \cup Terminal /\ attempts' \in 0..MaxAttempts
      /\ status' \in {"open", "processing"} => attempts' < MaxAttempts
  BY DEF TypeInv, TypeOK, Terminal
<1>7. TypeOK'
  BY <1>4, <1>5, <1>6 DEF TypeInv, TypeOK
<1> QED BY <1>3, <1>5, <1>6, <1>7 DEF TypeInv

LEMMA WriteTyped ==
  ASSUME TypeOK, NEW w \in Worker, NEW ids \in SUBSET Id, Write(w, ids)
  PROVE  /\ forgotten' \in [Id -> Nat] /\ response' = ids
         /\ \A i \in Id : /\ forgotten'[i] \in {forgotten[i], forgotten[i] + 1}
                          /\ i \in (response \cup hand[w].taken) \ ids
                               => forgotten'[i] = forgotten[i] + 1
<1>1. \A i \in Id : forgotten[i] \in Nat /\ forgotten[i] + 1 \in Nat
  BY DEF TypeOK
<1> QED BY <1>1 DEF Write

LEMMA RetryingTyped ==
  ASSUME TypeInv, NEW w \in Worker, Holds(w), NEW ids \in SUBSET Id, MarkRetrying(w, ids)
  PROVE  /\ attempts' \in 0..MaxAttempts /\ status' \in {"failed", "open"}
         /\ status' = "open" => attempts' < MaxAttempts
         /\ Write(w, ids)
<1>1. hand[w].seen \in 0..MaxAttempts /\ hand[w].seen < MaxAttempts
  BY DEF TypeInv, TypeOK, Hand, Tidy
<1>2. /\ attempts' = hand[w].seen + 1
      /\ status' = IF hand[w].seen + 1 >= MaxAttempts THEN "failed" ELSE "open"
      /\ Write(w, ids)
  BY DEF MarkRetrying, NextAttempts, GivesUp
<1> QED BY <1>1, <1>2, Bounds

\* How an attempt ends: what is written, if anything, and what is forgotten.
Ends(w, ids) ==
  /\ Holds(w) /\ ids \in SUBSET Id /\ Release(w)
  /\ UNCHANGED <<subscriptions, pushed, overtaken>>
  /\ response' = ids
  /\ \A i \in Id : /\ forgotten'[i] \in {forgotten[i], forgotten[i] + 1}
                   /\ i \in (response \cup hand[w].taken) \ ids
                        => forgotten'[i] = forgotten[i] + 1

LEMMA LoadFailsEnds ==
  ASSUME TypeInv, NEW w \in Worker, LoadFails(w)
  PROVE  TypeInv' /\ Ends(w, {})
<1>1. Holds(w) /\ MarkRetrying(w, {}) /\ Release(w) /\ Spend("load")
      /\ UNCHANGED <<subscriptions, pushed, overtaken>>
  BY DEF LoadFails, Holds
<1>2. TypeOK /\ {} \in SUBSET Id
  BY DEF TypeInv
<1>3. faults' \in 0..FaultBudget
  BY <1>1, <1>2, SpendTyped
<1>4. /\ attempts' \in 0..MaxAttempts /\ status' \in {"failed", "open"}
      /\ status' = "open" => attempts' < MaxAttempts
      /\ Write(w, {})
  BY <1>1, <1>2, RetryingTyped
<1>5. /\ forgotten' \in [Id -> Nat] /\ response' = {}
      /\ \A i \in Id : /\ forgotten'[i] \in {forgotten[i], forgotten[i] + 1}
                       /\ i \in (response \cup hand[w].taken) \ {}
                            => forgotten'[i] = forgotten[i] + 1
  BY <1>2, <1>4, WriteTyped
<1> QED BY <1>1, <1>2, <1>3, <1>4, <1>5, EndTyped DEF Ends

LEMMA SkippedEnds ==
  ASSUME TypeInv, NEW w \in Worker, MarkSkipped(w)
  PROVE  TypeInv' /\ Ends(w, {})
<1>1. Holds(w) /\ Write(w, {}) /\ Release(w) /\ status' = "skipped" /\ UNCHANGED attempts
      /\ UNCHANGED <<subscriptions, pushed, overtaken>> /\ UNCHANGED faults
  BY DEF MarkSkipped, Holds
<1>2. TypeOK /\ {} \in SUBSET Id
  BY DEF TypeInv
<1>3. faults' \in 0..FaultBudget
  BY <1>1, <1>2 DEF TypeOK
<1>5. /\ forgotten' \in [Id -> Nat] /\ response' = {}
      /\ \A i \in Id : /\ forgotten'[i] \in {forgotten[i], forgotten[i] + 1}
                       /\ i \in (response \cup hand[w].taken) \ {}
                            => forgotten'[i] = forgotten[i] + 1
  BY <1>1, <1>2, WriteTyped
<1> QED BY <1>1, <1>2, <1>3, <1>5, EndTyped DEF Ends

LEMMA FinishEnds ==
  ASSUME TypeInv, NEW w \in Worker, Finish(w)
  PROVE  TypeInv' /\ Ends(w, hand[w].outcomes)
<1> DEFINE ids == hand[w].outcomes
<1>1. Holds(w) /\ Release(w) /\ UNCHANGED <<subscriptions, pushed, overtaken>>
      /\ UNCHANGED faults
  BY DEF Finish, Holds
<1>2. TypeOK /\ ids \in SUBSET Id
  BY DEF TypeInv, TypeOK, Hand
<1>3. faults' \in 0..FaultBudget
  BY <1>1, <1>2 DEF TypeOK
<1>4. /\ Write(w, ids)
      /\ \/ UNCHANGED attempts /\ status' = "sent"
         \/ /\ attempts' \in 0..MaxAttempts /\ status' \in {"failed", "open"}
            /\ status' = "open" => attempts' < MaxAttempts
  <2>1. CASE MarkRetrying(w, ids)
    BY <1>1, <1>2, <2>1, RetryingTyped
  <2>2. CASE status' = "sent" /\ Write(w, ids) /\ UNCHANGED attempts
    BY <2>2
  <2> QED BY <2>1, <2>2 DEF Finish
<1> HIDE DEF ids
<1>5. /\ forgotten' \in [Id -> Nat] /\ response' = ids
      /\ \A i \in Id : /\ forgotten'[i] \in {forgotten[i], forgotten[i] + 1}
                       /\ i \in (response \cup hand[w].taken) \ ids
                            => forgotten'[i] = forgotten[i] + 1
  BY <1>2, <1>4, WriteTyped
<1>6. TypeInv'
  BY <1>1, <1>2, <1>3, <1>4, <1>5, EndTyped
<1> QED BY <1>1, <1>2, <1>5, <1>6 DEF Ends, ids

LEMMA LoseEnds ==
  ASSUME TypeInv, NEW w \in Worker, Lose(w)
  PROVE  TypeInv' /\ Ends(w, response)
<1>1. Holds(w) /\ Release(w) /\ UNCHANGED <<subscriptions, pushed, overtaken>>
      /\ UNCHANGED <<status, attempts, response>>
  BY DEF Lose, Holds, row
<1>2. TypeOK /\ response \in SUBSET Id
  BY DEF TypeInv, TypeOK
<1>3. faults' \in 0..FaultBudget
  BY <1>2, SpendTyped DEF Lose
<1>4. \A i \in Id : forgotten[i] \in Nat /\ forgotten[i] + 1 \in Nat
  BY <1>2 DEF TypeOK
<1>5. /\ forgotten' \in [Id -> Nat]
      /\ \A i \in Id : /\ forgotten'[i] \in {forgotten[i], forgotten[i] + 1}
                       /\ i \in (response \cup hand[w].taken) \ response
                            => forgotten'[i] = forgotten[i] + 1
  BY <1>4 DEF Lose
<1> QED BY <1>1, <1>2, <1>3, <1>5, EndTyped DEF Ends

LEMMA DevicesTyped ==
  ASSUME TypeInv, NEW e \in Endpoint, NEW u \in {"recipient", "other"},
         Save(e, u) \/ Unsubscribe(e, u)
  PROVE  TypeInv'
<1>0. /\ UNCHANGED <<row, hand, history, faults>>
      /\ \A w \in Worker : Tidy(w)'
  BY DEF Save, Unsubscribe, TypeInv, Tidy, Holds
<1> USE Bounds, <1>0 DEF TypeInv, TypeOK, Id, row, history
<1>1. CASE Save(e, u)
  <2>1. owner' = [owner EXCEPT ![e] = u]
    BY <1>1 DEF Save
  <2>2. CASE UNCHANGED <<inserted, id>> /\ owner[e] # "none"
    BY <2>1, <2>2
  <2>3. CASE /\ inserted < MaxId /\ inserted' = inserted + 1
             /\ id' = [id EXCEPT ![e] = inserted + 1]
    <3>1. inserted' \in 0..MaxId /\ id' \in [Endpoint -> 0..MaxId]
      BY <2>3
    <3>2. \A g \in Endpoint : id'[g] = IF g = e THEN inserted + 1 ELSE id[g]
      BY <2>3
    <3>3. \A g \in Endpoint : id[g] \in Nat /\ id[g] <= inserted
      OBVIOUS
    <3>4. /\ \A g \in Endpoint : id'[g] <= inserted' /\ (owner'[g] # "none" => id'[g] # 0)
          /\ \A g, h \in Endpoint : id'[g] = id'[h] /\ id'[g] # 0 => g = h
      BY <2>1, <2>3, <3>2, <3>3
    <3> QED BY <2>1, <3>1, <3>4
  <2> QED BY <1>1, <2>2, <2>3 DEF Save
<1>2. CASE Unsubscribe(e, u)
  BY <1>2 DEF Unsubscribe, Deleted
<1> QED BY <1>1, <1>2

LEMMA ClaimTyped ==
  ASSUME TypeInv, NEW w \in Worker, Claim(w)
  PROVE  TypeInv'
<1>1. /\ Only(w)
      /\ hand'[w].phase = "claimed" /\ hand'[w].seen = attempts
      /\ hand'[w].listed = {} /\ hand'[w].todo = {} /\ hand'[w].outcomes = {}
      /\ hand'[w].allSent = TRUE /\ hand'[w].taken = {} /\ hand'[w].dead = {}
  BY ClaimHand DEF TypeInv
<1>2. /\ status \in {"open", "processing"} /\ status' = "processing"
      /\ UNCHANGED <<subscriptions, attempts, response, pushed, forgotten, faults>>
      /\ overtaken' = overtaken + 1 \/ overtaken' = overtaken
  BY DEF Claim
<1>3. attempts < MaxAttempts
  BY <1>2 DEF TypeInv
<1>4. Tidy(w)'
  BY <1>1, <1>3 DEF Tidy, Holds
<1>5. \A v \in Worker : Tidy(v)'
  BY <1>1, <1>4, OthersTidy
<1>6. overtaken' \in Nat /\ hand' \in [Worker -> Hand]
  BY <1>1, <1>2 DEF TypeInv, TypeOK, Only
<1> QED BY <1>2, <1>3, <1>5, <1>6 DEF TypeInv, TypeOK, subscriptions

LEMMA ListTyped ==
  ASSUME TypeInv, NEW w \in Worker, List(w)
  PROVE  TypeInv'
<1>1. /\ Only(w)
      /\ hand'[w].phase = "sending" /\ hand'[w].seen = hand[w].seen
      /\ hand'[w].listed = Listed /\ hand'[w].todo = Listed \ Reached(w)
  BY ListHand, ListsDevices DEF TypeInv
<1>2. Holds(w) /\ UNCHANGED <<subscriptions, row, history, faults>>
  BY DEF List, Holds
<1>3. Tidy(w)'
  BY <1>1, <1>2 DEF TypeInv, Tidy, Holds
<1>4. (\A v \in Worker : Tidy(v)') /\ hand' \in [Worker -> Hand]
  BY <1>1, <1>3, OthersTidy DEF Only
<1> QED BY <1>2, <1>4 DEF TypeInv, TypeOK, subscriptions, row, history

LEMMA PushTyped ==
  ASSUME TypeInv, NEW w \in Worker, NEW s \in Endpoint \X Id,
         NEW r \in Answer, Push(w, s, r)
  PROVE  TypeInv'
<1>1. /\ Only(w)
      /\ hand'[w].phase = hand[w].phase /\ hand'[w].seen = hand[w].seen
      /\ hand'[w].listed = hand[w].listed /\ hand'[w].todo = hand[w].todo \ {s}
  <2>1. TypeOK
    BY DEF TypeInv
  <2> QED BY <2>1, PushHand
<1>2. /\ s \in hand[w].todo /\ s[2] \in Id
      /\ UNCHANGED <<subscriptions, row, forgotten, overtaken>>
      /\ pushed' = pushed \/ pushed' = [pushed EXCEPT ![s[2]] = pushed[s[2]] + 1]
  BY DEF Push
<1>3. hand[w].phase = "sending"
  BY <1>2 DEF TypeInv, Tidy
<1>4. Tidy(w)'
  BY <1>1, <1>3 DEF TypeInv, Tidy, Holds
<1>5. (\A v \in Worker : Tidy(v)') /\ hand' \in [Worker -> Hand]
  BY <1>1, <1>4, OthersTidy DEF Only
<1>6. pushed' \in [Id -> Nat]
  <2>1. pushed \in [Id -> Nat] /\ pushed[s[2]] + 1 \in Nat
    BY <1>2 DEF TypeInv, TypeOK
  <2> QED BY <1>2, <2>1
<1>7. faults' \in 0..FaultBudget
  <2>1. Spend("unheard") \/ UNCHANGED faults
    BY DEF Push
  <2> QED BY <2>1, SpendTyped DEF TypeInv
<1> QED BY <1>2, <1>5, <1>6, <1>7 DEF TypeInv, TypeOK, subscriptions, row

LEMMA PruneTyped ==
  ASSUME TypeInv, NEW w \in Worker, NEW s \in Endpoint \X Id, Prune(w, s)
  PROVE  TypeInv'
<1>1. /\ Only(w)
      /\ hand'[w].phase = hand[w].phase /\ hand'[w].seen = hand[w].seen
      /\ hand'[w].listed = hand[w].listed /\ hand'[w].todo = hand[w].todo \ {s}
  BY PruneHand DEF TypeInv
<1>2. /\ s \in hand[w].todo /\ s[1] \in Endpoint
      /\ UNCHANGED <<id, inserted, row, history>>
      /\ owner' = owner \/ owner' = Deleted(s[1], "recipient")
  BY DEF Prune
<1>3. hand[w].phase = "sending"
  BY <1>2 DEF TypeInv, Tidy
<1>4. Tidy(w)'
  BY <1>1, <1>3 DEF TypeInv, Tidy, Holds
<1>5. (\A v \in Worker : Tidy(v)') /\ hand' \in [Worker -> Hand]
  BY <1>1, <1>4, OthersTidy DEF Only
<1>6. /\ owner' \in [Endpoint -> {"none", "recipient", "other"}]
      /\ \A e \in Endpoint : owner'[e] # "none" => owner[e] # "none"
  BY <1>2 DEF Deleted, TypeInv, TypeOK
<1>7. faults' \in 0..FaultBudget
  <2>1. Spend("delete") \/ UNCHANGED faults
    BY DEF Prune
  <2> QED BY <2>1, SpendTyped DEF TypeInv
<1> QED BY <1>2, <1>5, <1>6, <1>7 DEF TypeInv, TypeOK, row, history

LEMMA TypeStep == TypeInv /\ [Next]_vars => TypeInv'
<1> SUFFICES ASSUME TypeInv, [Next]_vars PROVE TypeInv'
  OBVIOUS
<1>1. ASSUME NEW w \in Worker, NEW s \in Endpoint \X Id, Send(w, s) PROVE TypeInv'
  BY <1>1, PushTyped, PruneTyped DEF Send
<1>2. ASSUME NEW w \in Worker, Attempt(w) PROVE TypeInv'
  BY <1>1, <1>2, LoadFailsEnds, ListTyped, SkippedEnds, FinishEnds, LoseEnds DEF Attempt
<1>3. CASE UNCHANGED vars
  BY <1>3 DEF vars, subscriptions, row, history, TypeInv, TypeOK, Tidy, Holds
<1> QED BY <1>2, <1>3, DevicesTyped, ClaimTyped DEF Next

LEMMA TypeAlways == SafeSpec => []TypeInv
  BY TypeInit, TypeStep, PTL DEF SafeSpec

\* The subscriptions, the row and each worker's memory are well typed in every
\* reachable state; whoever writes last, the attempts column stays within
\* MaxAttempts (lost attempts are not in it).
THEOREM TypeCorrect == SafeSpec => []TypeOK
  BY TypeAlways, PTL DEF TypeInv
-----------------------------------------------------------------------------
(* How often a device is pushed *)

\* Worker w may still push subscription i in the attempt it is making.
MayPush(w, i) == /\ Holds(w) /\ i \notin hand[w].prior
                 /\ hand[w].phase = "claimed" \/ \E s \in hand[w].todo : s[2] = i

Pushing(i) == {w \in Worker : MayPush(w, i)}

Recorded(i) == i \in response \/ \E w \in Worker : i \in hand[w].taken

\* The pushes of i made, and those the attempts under way may still make, are
\* at most one more than what was forgotten of i and the claims from under a
\* worker; and no more than that when neither the row nor an attempt knows of i
\* and no attempt is still to push it.
Counted(i) ==
  /\ pushed[i] + Cardinality(Pushing(i)) <= 1 + forgotten[i] + overtaken
  /\ Pushing(i) = {} /\ ~Recorded(i) => pushed[i] <= forgotten[i] + overtaken

LEMMA PushingFinite ==
  ASSUME NEW S \in SUBSET Worker
  PROVE  IsFiniteSet(S) /\ Cardinality(S) \in Nat
  BY Bounds, FS_Subset, FS_CardinalityType

LEMMA PushingEmpty == Cardinality({}) = 0
  BY FS_EmptySet

LEMMA PushingSome ==
  ASSUME NEW S \in SUBSET Worker, S # {}
  PROVE  Cardinality(S) > 0
<1>1. IsFiniteSet(S) /\ Cardinality(S) \in Nat
  BY PushingFinite
<1>2. Cardinality(S) # 0
  BY <1>1, FS_EmptySet
<1> QED BY <1>1, <1>2

\* A step that pushes nothing to i and lets no worker push it that could not
\* before, and forgets of i what it drops.
LEMMA CountKept ==
  ASSUME NEW i \in Id, Counted(i),
         pushed[i] \in Nat, forgotten[i] \in Nat, overtaken \in Nat,
         pushed'[i] = pushed[i], overtaken' = overtaken,
         Pushing(i)' \subseteq Pushing(i),
         \/ forgotten'[i] = forgotten[i] /\ (Recorded(i) => Recorded(i)')
         \/ forgotten'[i] = forgotten[i] + 1
  PROVE  Counted(i)'
<1> DEFINE n == Cardinality(Pushing(i))
           m == Cardinality(Pushing(i)')
<1>1. n \in Nat /\ m \in Nat /\ m <= n
  <2>1. Pushing(i) \in SUBSET Worker /\ Pushing(i)' \in SUBSET Worker
    BY DEF Pushing
  <2>2. m <= n
    BY <2>1, PushingFinite, FS_Subset
  <2> QED BY <2>1, <2>2, PushingFinite
<1>2. Pushing(i) # {} => n > 0
  <2>1. Pushing(i) \in SUBSET Worker
    BY DEF Pushing
  <2> QED BY <2>1, PushingSome
<1>3. pushed[i] + n <= 1 + forgotten[i] + overtaken
  BY DEF Counted
<1>4. Pushing(i) = {} /\ ~Recorded(i) => pushed[i] <= forgotten[i] + overtaken
  BY DEF Counted
<1>5. Cardinality(Pushing(i))' = m
  OBVIOUS
<1> HIDE DEF n, m
<1>6. pushed'[i] + m <= 1 + forgotten'[i] + overtaken'
  BY <1>1, <1>3
<1>7. Pushing(i)' = {} /\ ~Recorded(i)' => pushed'[i] <= forgotten'[i] + overtaken'
  BY <1>1, <1>2, <1>3, <1>4
<1> QED BY <1>5, <1>6, <1>7 DEF Counted, m

\* The worker that pushes i is one that might, and will not again.
LEMMA CountPush ==
  ASSUME NEW i \in Id, Counted(i), NEW w \in Pushing(i),
         pushed[i] \in Nat, forgotten[i] \in Nat, overtaken \in Nat,
         pushed'[i] = pushed[i] + 1, overtaken' = overtaken, forgotten'[i] = forgotten[i],
         Pushing(i)' \subseteq Pushing(i) \ {w}, Recorded(i)'
  PROVE  Counted(i)'
<1> DEFINE n == Cardinality(Pushing(i))
           m == Cardinality(Pushing(i)')
<1>1. n \in Nat /\ m \in Nat /\ m <= n - 1
  <2>1. Pushing(i) \in SUBSET Worker /\ Pushing(i)' \in SUBSET Worker
        /\ Pushing(i) \ {w} \in SUBSET Worker
    BY DEF Pushing
  <2>2. Cardinality(Pushing(i) \ {w}) = n - 1
    BY <2>1, PushingFinite, FS_RemoveElement
  <2>3. m <= Cardinality(Pushing(i) \ {w})
    BY <2>1, PushingFinite, FS_Subset
  <2>4. n \in Nat /\ m \in Nat
    BY <2>1, PushingFinite
  <2> QED BY <2>2, <2>3, <2>4
<1>2. pushed[i] + n <= 1 + forgotten[i] + overtaken
  BY DEF Counted
<1>3. Cardinality(Pushing(i))' = m
  OBVIOUS
<1> HIDE DEF n, m
<1>4. pushed'[i] + m <= 1 + forgotten'[i] + overtaken'
  BY <1>1, <1>2
<1> QED BY <1>3, <1>4 DEF Counted, m

\* A claim lets one more worker push i, unless the row says i was reached: the
\* first, or it is from under another.
LEMMA CountClaim ==
  ASSUME NEW i \in Id, Counted(i), NEW w \in Worker,
         pushed[i] \in Nat, forgotten[i] \in Nat, overtaken \in Nat,
         pushed'[i] = pushed[i], forgotten'[i] = forgotten[i],
         overtaken' = IF \E v \in Worker : Holds(v) THEN overtaken + 1 ELSE overtaken,
         Pushing(i)' = IF i \in response THEN Pushing(i) ELSE Pushing(i) \cup {w},
         \A v \in Worker : ~Holds(v) => hand[v].taken = {},
         Recorded(i)' <=> Recorded(i)
  PROVE  Counted(i)'
<1> DEFINE n == Cardinality(Pushing(i))
           m == Cardinality(Pushing(i)')
<1>1. n \in Nat /\ m \in Nat
  BY PushingFinite DEF Pushing
<1>2. /\ pushed[i] + n <= 1 + forgotten[i] + overtaken
      /\ Pushing(i) = {} /\ ~Recorded(i) => pushed[i] <= forgotten[i] + overtaken
  BY DEF Counted
<1>3. Cardinality(Pushing(i))' = m
  OBVIOUS
<1>4. CASE i \in response
  <2>1. m = n /\ Recorded(i)'
    BY <1>4 DEF Recorded
  <2> HIDE DEF n, m
  <2>2. pushed'[i] + m <= 1 + forgotten'[i] + overtaken'
    BY <1>1, <1>2, <2>1
  <2> QED BY <1>3, <2>1, <2>2 DEF Counted, m
<1>5. CASE i \notin response
  <2>1. m <= n + 1
    <3>1. Pushing(i) \in SUBSET Worker
      BY DEF Pushing
    <3> QED BY <1>1, <1>5, <3>1, PushingFinite, FS_AddElement
  <2>2. Pushing(i)' # {}
    BY <1>5
  <2>3. CASE \E v \in Worker : Holds(v)
    <3>1. overtaken' = overtaken + 1
      BY <2>3
    <3> HIDE DEF n, m
    <3>2. pushed'[i] + m <= 1 + forgotten'[i] + overtaken'
      BY <1>1, <1>2, <2>1, <3>1
    <3> QED BY <1>3, <2>2, <3>2 DEF Counted, m
  <2>4. CASE \A v \in Worker : ~Holds(v)
    <3>1. Pushing(i) = {} /\ ~Recorded(i) /\ overtaken' = overtaken
      BY <1>5, <2>4 DEF Pushing, MayPush, Recorded
    <3>2. n = 0
      BY <3>1, PushingEmpty
    <3> HIDE DEF n, m
    <3>3. pushed'[i] + m <= 1 + forgotten'[i] + overtaken'
      BY <1>1, <1>2, <2>1, <3>1, <3>2
    <3> QED BY <1>3, <2>2, <3>3 DEF Counted, m
  <2> QED BY <2>3, <2>4
<1> QED BY <1>4, <1>5
-----------------------------------------------------------------------------
(* What the row and the attempts know of the devices *)

\* What an attempt goes by and what it did are so; a subscription it has still
\* to try it has not dealt with; and while none has failed each one it tried
\* was reached or is gone.
Truthful(w) ==
  /\ \A i \in hand[w].prior \cup hand[w].outcomes : pushed[i] > 0
  /\ \A s, r \in hand[w].listed : s[2] = r[2] => s = r
  /\ \A s \in hand[w].todo :
       s[2] \notin hand[w].prior \cup hand[w].outcomes \cup hand[w].taken
  /\ hand[w].allSent => \A s \in hand[w].listed \ hand[w].todo :
                          pushed[s[2]] > 0 \/ s \in hand[w].dead

PushInv ==
  /\ TypeInv
  /\ \A i \in Id : Counted(i) /\ (i \in response => pushed[i] > 0)
  /\ \A w \in Worker : Truthful(w)

LEMMA Numbers ==
  ASSUME TypeInv, NEW i \in Id
  PROVE  pushed[i] \in Nat /\ forgotten[i] \in Nat /\ overtaken \in Nat
  BY DEF TypeInv, TypeOK

LEMMA HandSets ==
  ASSUME TypeInv, NEW w \in Worker
  PROVE  /\ hand[w].prior \subseteq Id /\ hand[w].outcomes \subseteq Id
         /\ hand[w].taken \subseteq Id
         /\ hand[w].listed \subseteq Endpoint \X Id /\ hand[w].todo \subseteq hand[w].listed
  BY DEF TypeInv, TypeOK, Hand, Tidy

LEMMA PushInit == Init => PushInv
<1> SUFFICES ASSUME Init PROVE PushInv
  OBVIOUS
<1>1. \A w \in Worker : hand[w] = Idle
  BY DEF Init
<1>2. ASSUME NEW i \in Id PROVE Counted(i)
  <2>1. Pushing(i) = {}
    BY <1>1 DEF Pushing, MayPush, Holds, Idle
  <2>2. pushed[i] = 0 /\ forgotten[i] = 0 /\ overtaken = 0
    BY DEF Init
  <2> QED BY <2>1, <2>2, PushingEmpty DEF Counted
<1>3. \A w \in Worker : Truthful(w)
  BY <1>1 DEF Truthful, Idle
<1> QED BY <1>2, <1>3, TypeInit DEF PushInv, Init

LEMMA TruthfulKept ==
  ASSUME PushInv, NEW v \in Worker, hand'[v] = hand[v],
         \A i \in Id : pushed'[i] = pushed[i] \/ pushed'[i] = pushed[i] + 1
  PROVE  Truthful(v)'
<1>1. \A i \in Id : pushed[i] > 0 => pushed'[i] > 0
  BY Numbers DEF PushInv
<1>2. /\ hand[v].prior \subseteq Id /\ hand[v].outcomes \subseteq Id
      /\ \A s \in hand[v].listed : s[2] \in Id
  BY HandSets DEF PushInv
<1> QED BY <1>1, <1>2 DEF PushInv, Truthful

LEMMA PushEnds ==
  ASSUME PushInv, NEW w \in Worker, NEW ids, Ends(w, ids), \A i \in ids : pushed[i] > 0
  PROVE  /\ \A i \in Id : Counted(i)' /\ (i \in response' => pushed'[i] > 0)
         /\ \A v \in Worker : Truthful(v)'
<1>1. TypeOK /\ Release(w) /\ pushed' = pushed /\ overtaken' = overtaken /\ response' = ids
  BY DEF Ends, PushInv, TypeInv
<1>2. /\ \A v \in Worker \ {w} : hand'[v] = hand[v]
      /\ hand'[w] = Idle
  BY <1>1, ReleaseHand DEF Only
<1>3. ASSUME NEW i \in Id PROVE Counted(i)'
  <2>1. Pushing(i)' \subseteq Pushing(i)
    BY <1>2 DEF Pushing, MayPush, Holds, Idle
  <2>2. \/ forgotten'[i] = forgotten[i] /\ (Recorded(i) => Recorded(i)')
        \/ forgotten'[i] = forgotten[i] + 1
    <3>1. forgotten'[i] \in {forgotten[i], forgotten[i] + 1}
      BY DEF Ends
    <3>2. CASE i \in (response \cup hand[w].taken) \ ids
      BY <3>2 DEF Ends
    <3>3. CASE i \notin (response \cup hand[w].taken) \ ids
      <4>1. Recorded(i) => Recorded(i)'
        BY <1>1, <1>2, <3>3 DEF Recorded
      <4> QED BY <3>1, <4>1
    <3> QED BY <3>2, <3>3
  <2>3. Counted(i) /\ TypeInv
    BY DEF PushInv
  <2> QED BY <1>1, <2>1, <2>2, <2>3, Numbers, CountKept
<1>4. \A i \in Id : i \in response' => pushed'[i] > 0
  BY <1>1
<1>5. Truthful(w)'
  BY <1>2 DEF Truthful, Idle
<1>6. \A v \in Worker \ {w} : Truthful(v)'
  BY <1>1, <1>2, TruthfulKept
<1> QED BY <1>3, <1>4, <1>5, <1>6

LEMMA PushClaim ==
  ASSUME PushInv, NEW w \in Worker, Claim(w)
  PROVE  /\ \A i \in Id : Counted(i)' /\ (i \in response' => pushed'[i] > 0)
         /\ \A v \in Worker : Truthful(v)'
<1>1. /\ ~Holds(w) /\ UNCHANGED <<response, pushed, forgotten>>
      /\ overtaken' = IF \E v \in Worker : Holds(v) THEN overtaken + 1 ELSE overtaken
      /\ TypeOK
  BY DEF Claim, PushInv, TypeInv
<1>2. /\ \A v \in Worker \ {w} : hand'[v] = hand[v]
      /\ hand'[w].phase = "claimed" /\ hand'[w].prior = response
      /\ hand'[w].listed = {} /\ hand'[w].todo = {}
      /\ hand'[w].outcomes = {} /\ hand'[w].taken = {}
  BY <1>1, ClaimHand DEF Only
<1>3. \A v \in Worker : ~Holds(v) => hand[v].taken = {}
  BY DEF PushInv, TypeInv, Tidy, Holds
<1>4. ASSUME NEW i \in Id PROVE Counted(i)'
  <2>1. Pushing(i)' = IF i \in response THEN Pushing(i) ELSE Pushing(i) \cup {w}
    <3>1. \A v \in Worker \ {w} : MayPush(v, i)' <=> MayPush(v, i)
      BY <1>2 DEF MayPush, Holds
    <3>2. ~MayPush(w, i) /\ (MayPush(w, i)' <=> i \notin response)
      BY <1>1, <1>2 DEF MayPush, Holds
    <3> QED BY <3>1, <3>2 DEF Pushing
  <2>2. Recorded(i)' <=> Recorded(i)
    BY <1>1, <1>2, <1>3 DEF Recorded
  <2>3. Counted(i) /\ TypeInv
    BY DEF PushInv
  <2>4. pushed'[i] = pushed[i] /\ forgotten'[i] = forgotten[i]
    BY <1>1
  <2> QED BY <1>1, <1>3, <2>1, <2>2, <2>3, <2>4, Numbers, CountClaim
<1>5. \A i \in Id : i \in response' => pushed'[i] > 0
  BY <1>1 DEF PushInv
<1>6. Truthful(w)'
  BY <1>1, <1>2, <1>5, HandSets DEF Truthful, PushInv, TypeInv, TypeOK
<1>7. \A v \in Worker \ {w} : Truthful(v)'
  BY <1>1, <1>2, TruthfulKept
<1> QED BY <1>4, <1>5, <1>6, <1>7

LEMMA PushList ==
  ASSUME PushInv, NEW w \in Worker, List(w)
  PROVE  /\ \A i \in Id : Counted(i)' /\ (i \in response' => pushed'[i] > 0)
         /\ \A v \in Worker : Truthful(v)'
<1>1. TypeInv /\ TypeOK /\ UNCHANGED <<response, pushed, forgotten, overtaken>>
      /\ hand[w].phase = "claimed"
  BY DEF List, PushInv, TypeInv, row, history
<1>2. Listed \in SUBSET (Endpoint \X Id)
  BY <1>1, ListsDevices
<1>3. /\ \A v \in Worker \ {w} : hand'[v] = hand[v]
      /\ hand'[w].phase = "sending" /\ hand'[w].prior = hand[w].prior
      /\ hand'[w].listed = Listed /\ hand'[w].todo = Listed \ Reached(w)
      /\ hand'[w].outcomes = {s[2] : s \in Reached(w)}
      /\ hand'[w].taken = hand[w].taken
  BY <1>1, <1>2, ListHand DEF Only
<1>4. Reached(w) = {s \in Listed : s[2] \in hand[w].prior} /\ hand[w].taken = {}
  BY <1>1 DEF Reached, Prior, TypeInv, Tidy
<1>5. ASSUME NEW i \in Id PROVE Counted(i)'
  <2>1. Pushing(i)' \subseteq Pushing(i)
    <3>1. MayPush(w, i)' => MayPush(w, i)
      BY <1>1, <1>3 DEF MayPush, Holds
    <3>2. \A v \in Worker \ {w} : MayPush(v, i)' => MayPush(v, i)
      BY <1>3 DEF MayPush, Holds
    <3> QED BY <3>1, <3>2 DEF Pushing
  <2>2. Recorded(i) => Recorded(i)'
    BY <1>1, <1>3 DEF Recorded
  <2>3. Counted(i)
    BY DEF PushInv
  <2>4. pushed'[i] = pushed[i] /\ forgotten'[i] = forgotten[i] /\ overtaken' = overtaken
    BY <1>1
  <2>5. pushed[i] \in Nat /\ forgotten[i] \in Nat /\ overtaken \in Nat
    BY <1>1, Numbers
  <2> QED BY <2>1, <2>2, <2>3, <2>4, <2>5, CountKept
<1>6. Truthful(w)'
  <2>1. \A i \in hand[w].prior : pushed[i] > 0
    BY DEF PushInv, Truthful
  <2>2. \A s, r \in Listed : s[2] = r[2] => s = r
    BY <1>1 DEF Listed, TypeInv
  <2>3. \A i \in hand'[w].outcomes : i \in hand[w].prior
    BY <1>3, <1>4
  <2>4. \A s \in Listed \ Reached(w) :
          s[2] \notin hand'[w].prior \cup hand'[w].outcomes \cup hand'[w].taken
    BY <1>3, <1>4
  <2>5. \A s \in Reached(w) : pushed[s[2]] > 0
    BY <1>4, <2>1
  <2> QED BY <1>1, <1>3, <2>1, <2>2, <2>3, <2>4, <2>5 DEF Truthful
<1>7. \A v \in Worker \ {w} : Truthful(v)'
  BY <1>1, <1>3, TruthfulKept
<1> QED BY <1>1, <1>5, <1>6, <1>7 DEF PushInv

LEMMA PushPush ==
  ASSUME PushInv, NEW w \in Worker, NEW s \in Endpoint \X Id, NEW r \in Answer, Push(w, s, r)
  PROVE  /\ \A i \in Id : Counted(i)' /\ (i \in response' => pushed'[i] > 0)
         /\ \A v \in Worker : Truthful(v)'
<1>1. TypeInv /\ TypeOK /\ UNCHANGED <<response, forgotten, overtaken>>
      /\ s \in hand[w].todo /\ s[2] \in Id
      /\ pushed' = IF r # "error" THEN [pushed EXCEPT ![s[2]] = @ + 1] ELSE pushed
  BY DEF Push, PushInv, TypeInv, row
<1>2. /\ \A v \in Worker \ {w} : hand'[v] = hand[v]
      /\ hand'[w].phase = hand[w].phase /\ hand'[w].prior = hand[w].prior
      /\ hand'[w].listed = hand[w].listed
      /\ hand'[w].todo = hand[w].todo \ {s}
      /\ hand'[w].outcomes = IF r = "ok" THEN hand[w].outcomes \cup {s[2]} ELSE hand[w].outcomes
      /\ hand'[w].allSent = (hand[w].allSent /\ r = "ok")
      /\ hand'[w].taken = IF r = "error" THEN hand[w].taken ELSE hand[w].taken \cup {s[2]}
      /\ hand'[w].dead = hand[w].dead
  BY <1>1, PushHand DEF Only
<1>3. \A i \in Id : /\ pushed[i] \in Nat
                    /\ pushed'[i] = IF r # "error" /\ i = s[2] THEN pushed[i] + 1 ELSE pushed[i]
  BY <1>1 DEF TypeOK
<1>4. /\ hand[w].phase = "sending" /\ hand[w].todo \subseteq hand[w].listed
      /\ \A t \in hand[w].listed : t[2] \in Id
  BY <1>1, HandSets DEF TypeInv, Tidy
<1>5. /\ \A t, q \in hand[w].listed : t[2] = q[2] => t = q
      /\ \A t \in hand[w].todo :
           t[2] \notin hand[w].prior \cup hand[w].outcomes \cup hand[w].taken
  BY DEF PushInv, Truthful
<1>6. ASSUME NEW i \in Id PROVE Counted(i)'
  <2>1. /\ Counted(i) /\ pushed[i] \in Nat /\ forgotten[i] \in Nat /\ overtaken \in Nat
        /\ forgotten'[i] = forgotten[i] /\ overtaken' = overtaken
    BY <1>1, Numbers DEF PushInv
  <2>2. MayPush(w, i)' => MayPush(w, i) /\ i # s[2]
    BY <1>2, <1>4, <1>5, <1>1 DEF MayPush, Holds
  <2>3. \A v \in Worker \ {w} : MayPush(v, i)' => MayPush(v, i)
    BY <1>2 DEF MayPush, Holds
  <2>4. Recorded(i) => Recorded(i)'
    BY <1>1, <1>2 DEF Recorded
  <2>5. CASE r # "error" /\ i = s[2]
    <3>1. w \in Pushing(i)
      BY <1>1, <1>4, <1>5, <2>5 DEF Pushing, MayPush, Holds
    <3>2. Pushing(i)' \subseteq Pushing(i) \ {w}
      BY <2>2, <2>3, <2>5 DEF Pushing
    <3>3. Recorded(i)'
      BY <1>2, <2>5 DEF Recorded
    <3>4. pushed'[i] = pushed[i] + 1
      BY <1>3, <2>5
    <3> QED BY <2>1, <3>1, <3>2, <3>3, <3>4, CountPush
  <2>6. CASE ~(r # "error" /\ i = s[2])
    <3>1. Pushing(i)' \subseteq Pushing(i)
      BY <2>2, <2>3 DEF Pushing
    <3>2. pushed'[i] = pushed[i]
      BY <1>3, <2>6
    <3> QED BY <2>1, <2>4, <3>1, <3>2, CountKept
  <2> QED BY <2>5, <2>6
<1>7. \A i \in Id : i \in response' => pushed'[i] > 0
  BY <1>1, <1>3 DEF PushInv
<1>8. Truthful(w)'
  <2>1. \A i \in Id : pushed[i] > 0 => pushed'[i] > 0
    BY <1>3
  <2>2. \A i \in hand'[w].prior \cup hand'[w].outcomes : pushed'[i] > 0
    <3>1. \A i \in hand[w].prior \cup hand[w].outcomes : i \in Id /\ pushed[i] > 0
      BY <1>1, HandSets DEF PushInv, Truthful
    <3>2. r = "ok" => pushed'[s[2]] > 0
      BY <1>1, <1>3
    <3> QED BY <1>2, <2>1, <3>1, <3>2
  <2>3. ASSUME NEW t \in hand'[w].todo
        PROVE  t[2] \notin hand'[w].prior \cup hand'[w].outcomes \cup hand'[w].taken
    <3>1. t \in hand[w].todo /\ t[2] # s[2]
      BY <1>1, <1>2, <1>4, <1>5
    <3> QED BY <1>2, <1>5, <3>1
  <2>4. ASSUME hand'[w].allSent, NEW t \in hand'[w].listed \ hand'[w].todo
        PROVE  pushed'[t[2]] > 0 \/ t \in hand'[w].dead
    <3>1. hand[w].allSent /\ r = "ok" /\ t \in hand[w].listed /\ t[2] \in Id
      BY <1>2, <1>4, <2>4
    <3>2. CASE t = s
      BY <1>1, <1>3, <3>1, <3>2
    <3>3. CASE t # s
      <4>1. pushed[t[2]] > 0 \/ t \in hand[w].dead
        BY <1>2, <2>4, <3>1, <3>3 DEF PushInv, Truthful
      <4> QED BY <1>2, <2>1, <3>1, <4>1
    <3> QED BY <3>2, <3>3
  <2> QED BY <1>2, <1>5, <2>2, <2>3, <2>4 DEF Truthful
<1>9. \A v \in Worker \ {w} : Truthful(v)'
  BY <1>2, <1>3, TruthfulKept
<1> QED BY <1>6, <1>7, <1>8, <1>9

LEMMA PushPrune ==
  ASSUME PushInv, NEW w \in Worker, NEW s \in Endpoint \X Id, Prune(w, s)
  PROVE  /\ \A i \in Id : Counted(i)' /\ (i \in response' => pushed'[i] > 0)
         /\ \A v \in Worker : Truthful(v)'
<1>1. TypeInv /\ TypeOK /\ UNCHANGED <<response, pushed, forgotten, overtaken>>
      /\ s \in hand[w].todo
  BY DEF Prune, PushInv, TypeInv, row, history
<1>2. /\ \A v \in Worker \ {w} : hand'[v] = hand[v]
      /\ hand'[w].phase = hand[w].phase /\ hand'[w].prior = hand[w].prior
      /\ hand'[w].listed = hand[w].listed
      /\ hand'[w].todo = hand[w].todo \ {s}
      /\ hand'[w].outcomes = hand[w].outcomes
      /\ hand'[w].allSent = hand[w].allSent
      /\ hand'[w].taken = hand[w].taken
      /\ hand'[w].dead = hand[w].dead \cup {s}
  BY <1>1, PruneHand DEF Only
<1>3. ASSUME NEW i \in Id PROVE Counted(i)'
  <2>1. /\ Counted(i) /\ pushed[i] \in Nat /\ forgotten[i] \in Nat /\ overtaken \in Nat
        /\ pushed'[i] = pushed[i] /\ forgotten'[i] = forgotten[i] /\ overtaken' = overtaken
    BY <1>1, Numbers DEF PushInv
  <2>2. Pushing(i)' \subseteq Pushing(i)
    <3>1. \A v \in Worker : MayPush(v, i)' => MayPush(v, i)
      BY <1>2 DEF MayPush, Holds
    <3> QED BY <3>1 DEF Pushing
  <2>3. Recorded(i) => Recorded(i)'
    BY <1>1, <1>2 DEF Recorded
  <2> QED BY <2>1, <2>2, <2>3, CountKept
<1>4. Truthful(w)'
  BY <1>1, <1>2 DEF PushInv, Truthful
<1>5. \A v \in Worker \ {w} : Truthful(v)'
  BY <1>1, <1>2, TruthfulKept
<1> QED BY <1>1, <1>3, <1>4, <1>5 DEF PushInv

\* Devices that come and go change nothing of what is known of the delivery.
LEMMA PushDevices ==
  ASSUME PushInv, UNCHANGED <<response, hand, history>>
  PROVE  /\ \A i \in Id : Counted(i)' /\ (i \in response' => pushed'[i] > 0)
         /\ \A v \in Worker : Truthful(v)'
<1>1. \A i \in Id : Counted(i)'
  BY DEF PushInv, Counted, Pushing, MayPush, Holds, Recorded, history
<1>2. \A v \in Worker : Truthful(v)'
  BY DEF PushInv, Truthful, history
<1> QED BY <1>1, <1>2 DEF PushInv, history

LEMMA PushStep == PushInv /\ [Next]_vars => PushInv'
<1> SUFFICES ASSUME PushInv, [Next]_vars PROVE PushInv'
  OBVIOUS
<1>1. TypeInv'
  BY TypeStep DEF PushInv
<1> DEFINE Known == /\ \A i \in Id : Counted(i)' /\ (i \in response' => pushed'[i] > 0)
                    /\ \A v \in Worker : Truthful(v)'
<1>2. ASSUME NEW w \in Worker, LoadFails(w) \/ MarkSkipped(w) PROVE Known
  <2>1. Ends(w, {})
    BY <1>2, LoadFailsEnds, SkippedEnds DEF PushInv
  <2> QED BY <2>1, PushEnds
<1>3. ASSUME NEW w \in Worker, Finish(w) PROVE Known
  <2>1. Ends(w, hand[w].outcomes)
    BY <1>3, FinishEnds DEF PushInv
  <2>2. \A i \in hand[w].outcomes : pushed[i] > 0
    BY DEF PushInv, Truthful
  <2> QED BY <2>1, <2>2, PushEnds
<1>4. ASSUME NEW w \in Worker, Lose(w) PROVE Known
  <2>1. Ends(w, response)
    BY <1>4, LoseEnds DEF PushInv
  <2>2. \A i \in response : pushed[i] > 0
    BY DEF PushInv, TypeInv, TypeOK
  <2> QED BY <2>1, <2>2, PushEnds
<1>5. ASSUME NEW w \in Worker, NEW s \in Endpoint \X Id, Send(w, s) PROVE Known
  BY <1>5, PushPush, PushPrune DEF Send
<1>6. ASSUME NEW w \in Worker, Attempt(w) PROVE Known
  BY <1>2, <1>3, <1>4, <1>5, <1>6, PushList DEF Attempt
<1>7. ASSUME NEW e \in Endpoint, NEW u \in {"recipient", "other"},
             Save(e, u) \/ Unsubscribe(e, u)
      PROVE  Known
  BY <1>7, PushDevices DEF Save, Unsubscribe, row
<1>8. ASSUME UNCHANGED vars PROVE Known
  <2>1. UNCHANGED <<response, hand, history>>
    BY <1>8 DEF vars, row
  <2> QED BY <2>1, PushDevices
<1>9. ASSUME NEW w \in Worker, Claim(w) PROVE Known
  BY <1>9, PushClaim
<1> HIDE DEF Known
<1>10. Known
  BY <1>6, <1>7, <1>8, <1>9 DEF Next
<1> QED BY <1>1, <1>10 DEF Known, PushInv

LEMMA PushAlways == SafeSpec => []PushInv
  BY PushInit, PushStep, PTL DEF SafeSpec

\* What the row, and each attempt in hand, says was sent was sent, however many
\* workers have the row and whichever writes it last.
THEOREM RecordsAreTruthful == SafeSpec => []ResponseTruthful
<1>1. PushInv => ResponseTruthful
  BY DEF PushInv, TypeInv, TypeOK, Truthful, ResponseTruthful
<1> QED BY <1>1, PushAlways, PTL

\* For any devices, workers, attempts and faults, a device is pushed again only
\* after the row lost its record of it, or a worker claimed the row from under
\* another.
THEOREM RepushesAreExplained == SafeSpec => []PushesExplained
<1>1. ASSUME PushInv, NEW i \in Id PROVE pushed[i] <= 1 + forgotten[i] + overtaken
  <2>1. /\ Counted(i) /\ pushed[i] \in Nat /\ forgotten[i] \in Nat /\ overtaken \in Nat
    BY <1>1, Numbers DEF PushInv
  <2>2. Cardinality(Pushing(i)) \in Nat
    BY PushingFinite DEF Pushing
  <2> QED BY <2>1, <2>2 DEF Counted
<1>2. PushInv => PushesExplained
  BY <1>1 DEF PushesExplained
<1> QED BY <1>2, PushAlways, PTL

\* A row becomes sent only by a worker for which each device it listed has been
\* reached or is gone, whoever subscribes, leaves or takes over meanwhile, and
\* whoever else has the row.
THEOREM SentMeansAll == SafeSpec => SentLeavesNone
<1> DEFINE Sender == \E w \in Worker :
                       /\ hand[w].phase = "sending" /\ hand'[w].phase = "idle"
                       /\ \A s \in hand[w].listed : pushed[s[2]] > 0 \/ s \in hand[w].dead
<1>1. ASSUME PushInv, [Next]_vars, status # "sent", status' = "sent" PROVE Sender
  <2>1. PICK w \in Worker : Finish(w) /\ hand[w].allSent
    <3>1. ASSUME UNCHANGED status PROVE FALSE
      BY <1>1, <3>1
    <3>2. ASSUME NEW w \in Worker, NEW s, Send(w, s) PROVE FALSE
      BY <3>1, <3>2 DEF Send, Push, Prune, row
    <3>3. ASSUME NEW w \in Worker, NEW ids, MarkRetrying(w, ids) PROVE FALSE
      BY <1>1, <3>3 DEF MarkRetrying
    <3>4. ASSUME NEW w \in Worker, Claim(w) \/ List(w) \/ MarkSkipped(w) \/ Lose(w) PROVE FALSE
      BY <1>1, <3>1, <3>4 DEF Claim, List, MarkSkipped, Lose, row
    <3>5. ASSUME NEW e \in Endpoint, NEW u, Save(e, u) \/ Unsubscribe(e, u) PROVE FALSE
      BY <3>1, <3>5 DEF Save, Unsubscribe, row
    <3>6. ~UNCHANGED vars
      BY <3>1 DEF vars, row
    <3>7. PICK w \in Worker : Finish(w) \/ LoadFails(w)
      BY <1>1, <3>2, <3>4, <3>5, <3>6 DEF Next, Attempt
    <3> QED BY <3>3, <3>7 DEF Finish, LoadFails
  <2>2. hand'[w] = Idle
    BY <1>1, <2>1, ReleaseHand DEF Finish, PushInv, TypeInv
  <2>3. hand[w].phase = "sending" /\ hand[w].todo = {}
    BY <2>1 DEF Finish
  <2>4. \A s \in hand[w].listed : pushed[s[2]] > 0 \/ s \in hand[w].dead
    BY <1>1, <2>1, <2>3 DEF PushInv, Truthful
  <2> QED BY <2>2, <2>3, <2>4 DEF Idle
<1>2. PushInv /\ [Next]_vars => [status # "sent" /\ status' = "sent" => Sender]_vars
  BY <1>1
<1> QED BY <1>2, PushAlways, PTL DEF SafeSpec, SentLeavesNone
-----------------------------------------------------------------------------
(* Without faults: what is left of dispatch.go:74 *)

\* Once a device is the recipient's it stays so until the push service says
\* that it is gone.
StaysOn(e) == owner[e] = "recipient" =>
                owner'[e] = "recipient" \/ \E w \in Worker : Prune(w, <<e, id[e]>>)
Stays(e) == [][StaysOn(e)]_vars

\* The row's record of the device is of the recipient's subscription, and
\* nothing has been forgotten of it.
RowKnows(e) ==
  /\ \A i \in response : i <= inserted
  /\ \A i \in Id : i > inserted \/ i = id[e] => forgotten[i] = 0
  /\ id[e] \in response => owner[e] = "recipient"

\* So is what a worker has of it; what the row says of it is kept, and so is
\* what the worker did.
WorkerKnows(w, e) ==
  /\ \A s \in hand[w].listed :
       /\ s[2] <= inserted
       /\ s[2] = id[e] => s[1] = e /\ (owner[e] = "recipient" \/ s \in hand[w].dead)
  /\ \A i \in hand[w].outcomes : i <= inserted
  /\ hand[w].taken \subseteq hand[w].outcomes
  /\ \A s \in hand[w].dead : s \notin hand[w].todo
  /\ id[e] \in hand[w].outcomes => owner[e] = "recipient"
  /\ hand[w].phase = "sending" /\ id[e] \in response => id[e] \in hand[w].outcomes

\* Only one worker has the row, which is as it was claimed.
Alone == \A w \in Worker : Holds(w) => /\ hand[w].prior = response
                                       /\ \A v \in Worker : Holds(v) => v = w

StayInv(e) == overtaken = 0 => Alone /\ RowKnows(e) /\ \A w \in Worker : WorkerKnows(w, e)

LEMMA IdleKnows ==
  ASSUME TypeInv, NEW w \in Worker, ~Holds(w), NEW e
  PROVE  WorkerKnows(w, e)
  BY DEF TypeInv, Tidy, Holds, WorkerKnows

LEMMA StayInit == ASSUME NEW e \in Endpoint PROVE Init => StayInv(e)
<1> SUFFICES ASSUME Init PROVE StayInv(e)
  OBVIOUS
<1>1. TypeInv /\ \A w \in Worker : ~Holds(w)
  BY TypeInit DEF Init, Idle, Holds
<1>2. \A w \in Worker : WorkerKnows(w, e)
  BY <1>1, IdleKnows
<1> QED BY <1>1, <1>2 DEF Init, StayInv, RowKnows, Alone, Id

\* A step of the one worker that has the row, which only its memory and what is
\* known of the devices' owners is touched by.
LEMMA StayWorker ==
  ASSUME PushInv, TypeInv', NEW e \in Endpoint, NEW w \in Worker, Holds(w),
         Alone, RowKnows(e), Only(w), UNCHANGED <<id, inserted, response, forgotten>>,
         id[e] \in response => owner'[e] = "recipient",
         hand'[w].prior = hand[w].prior, WorkerKnows(w, e)'
  PROVE  Alone' /\ RowKnows(e)' /\ \A v \in Worker : WorkerKnows(v, e)'
<1>1. \A v \in Worker \ {w} : ~Holds(v)'
  BY DEF Alone, Only, Holds
<1>2. \A v \in Worker \ {w} : WorkerKnows(v, e)'
  <2> SUFFICES ASSUME NEW v \in Worker \ {w} PROVE WorkerKnows(v, e)'
    OBVIOUS
  <2>1. ~Holds(v)' /\ v \in Worker
    BY <1>1
  <2>2. TypeInv /\ ~Holds(v) => WorkerKnows(v, e)
    BY IdleKnows
  <2>3. (TypeInv /\ ~Holds(v) => WorkerKnows(v, e))'
    BY <2>1 DEF TypeInv, Tidy, Holds, WorkerKnows
  <2> QED BY <2>1, <2>3
<1>3. Alone'
  BY <1>1 DEF Alone
<1>4. RowKnows(e)'
  BY DEF RowKnows
<1> QED BY <1>2, <1>3, <1>4

\* The end of the attempt, written with ids that say what the row said of the
\* device.
LEMMA StayWrites ==
  ASSUME PushInv, TypeInv', NEW e \in Endpoint, NEW w \in Worker, Holds(w),
         Alone, RowKnows(e), Release(w), UNCHANGED <<owner, id, inserted>>,
         NEW ids \in SUBSET Id, Write(w, ids), \A i \in ids : i <= inserted,
         hand[w].taken \subseteq {i \in Id : i <= inserted},
         id[e] \in response \cup hand[w].taken => id[e] \in ids,
         id[e] \in ids => owner[e] = "recipient"
  PROVE  Alone' /\ RowKnows(e)' /\ \A v \in Worker : WorkerKnows(v, e)'
<1>1. TypeOK
  BY DEF PushInv, TypeInv
<1>2. Only(w) /\ hand'[w] = Idle
  BY <1>1, ReleaseHand
<1>3. \A v \in Worker : ~Holds(v)'
  BY <1>2 DEF Alone, Only, Holds, Idle
<1>4. \A v \in Worker : WorkerKnows(v, e)'
  BY <1>3 DEF TypeInv, Tidy, Holds, WorkerKnows
<1>5. /\ response' = ids
      /\ \A i \in Id : i \notin (response \cup hand[w].taken) \ ids => forgotten'[i] = forgotten[i]
  BY DEF Write
<1>6. inserted \in Nat /\ \A i \in Id : i \in Nat
  BY <1>1, Bounds DEF TypeOK, Id
<1>7. RowKnows(e)'
  BY <1>5, <1>6 DEF RowKnows
<1> QED BY <1>3, <1>4, <1>7 DEF Alone

\* The conclusion of each step below.
StaysKnown(e) == Alone /\ RowKnows(e) /\ \A w \in Worker : WorkerKnows(w, e)

LEMMA StaySave ==
  ASSUME PushInv, TypeInv', NEW e \in Endpoint, StaysKnown(e),
         NEW g \in Endpoint, NEW u \in {"recipient", "other"}, Save(g, u),
         owner[e] = "recipient" => owner'[e] = "recipient"
  PROVE  StaysKnown(e)'
<1>0. TypeOK /\ inserted \in Nat /\ \A i \in Id : i \in Nat
  <2>1. TypeOK
    BY DEF PushInv, TypeInv
  <2>2. inserted \in Nat
    BY <2>1, Bounds DEF TypeOK
  <2>3. \A i \in Id : i \in Nat
    BY Bounds DEF Id
  <2> QED BY <2>1, <2>2, <2>3
<1>1. /\ UNCHANGED <<row, hand, history>> /\ owner' = [owner EXCEPT ![g] = u]
      /\ TypeOK /\ inserted \in Nat /\ \A i \in Id : i \in Nat
      /\ \A x \in Endpoint : id[x] \in Nat /\ id[x] <= inserted
  <2>1. \A x \in Endpoint : id[x] \in Nat /\ id[x] <= inserted
    BY Bounds, <1>0 DEF PushInv, TypeInv, TypeOK
  <2> QED BY <1>0, <2>1 DEF Save
<1>2. /\ UNCHANGED <<response, hand, forgotten, overtaken>>
  BY <1>1 DEF row, history
<1>3. Alone'
  BY <1>2 DEF StaysKnown, Alone, Holds
<1>4. CASE UNCHANGED <<inserted, id>>
  BY <1>2, <1>3, <1>4 DEF StaysKnown, RowKnows, WorkerKnows
<1>5. CASE inserted' = inserted + 1 /\ id' = [id EXCEPT ![g] = inserted + 1]
  <2>1. \A x \in Endpoint : id'[x] = IF x = g THEN inserted + 1 ELSE id[x]
    BY <1>1, <1>5 DEF TypeOK
  <2>2. \A x \in Endpoint : owner'[x] = IF x = g THEN u ELSE owner[x]
    BY <1>1 DEF TypeOK
  <2>3. /\ response \subseteq Id
        /\ \A w \in Worker : /\ hand[w].outcomes \subseteq Id
                             /\ \A s \in hand[w].listed : s[2] \in Id
    BY <1>1, HandSets DEF PushInv, TypeOK
  <2>4. RowKnows(e)'
    <3>1. \A i \in response : i <= inserted' /\ i # inserted + 1
      BY <1>1, <1>5, <2>3 DEF StaysKnown, RowKnows
    <3>2. \A i \in Id : i > inserted' \/ i = id'[e] => forgotten[i] = 0
      BY <1>1, <1>5, <2>1 DEF StaysKnown, RowKnows
    <3> QED BY <1>2, <2>1, <2>2, <3>1, <3>2 DEF StaysKnown, RowKnows
  <2>5. ASSUME NEW w \in Worker PROVE WorkerKnows(w, e)'
    <3>1. WorkerKnows(w, e)
      BY DEF StaysKnown
    <3>2. /\ \A s \in hand[w].listed : s[2] <= inserted' /\ s[2] # inserted + 1
          /\ \A i \in hand[w].outcomes : i <= inserted' /\ i # inserted + 1
      BY <1>1, <1>5, <2>3, <3>1 DEF WorkerKnows
    <3>3. \A i \in response : i # inserted + 1
      BY <1>1, <2>3 DEF StaysKnown, RowKnows
    <3> QED BY <1>2, <2>1, <2>2, <3>1, <3>2, <3>3 DEF WorkerKnows
  <2> QED BY <1>3, <2>4, <2>5 DEF StaysKnown
<1> QED BY <1>4, <1>5 DEF Save

LEMMA StayUnsubscribe ==
  ASSUME PushInv, NEW e \in Endpoint, StaysKnown(e),
         NEW g \in Endpoint, NEW u, Unsubscribe(g, u),
         owner[e] = "recipient" => owner'[e] = "recipient"
  PROVE  StaysKnown(e)'
<1>1. UNCHANGED <<id, inserted, response, hand, forgotten>>
  BY DEF Unsubscribe, row, history
<1> QED BY <1>1 DEF StaysKnown, Alone, RowKnows, WorkerKnows, Holds

LEMMA StayClaim ==
  ASSUME PushInv, TypeInv', NEW e \in Endpoint, StaysKnown(e), overtaken' = 0,
         NEW w \in Worker, Claim(w)
  PROVE  StaysKnown(e)'
<1>1. TypeOK /\ UNCHANGED <<owner, id, inserted, response, forgotten>>
  BY DEF Claim, PushInv, TypeInv, subscriptions
<1>2. \A v \in Worker : ~Holds(v)
  BY <1>1 DEF Claim, TypeOK
<1>3. /\ Only(w) /\ hand'[w].phase = "claimed" /\ hand'[w].prior = response
      /\ hand'[w].listed = {} /\ hand'[w].todo = {} /\ hand'[w].outcomes = {}
      /\ hand'[w].taken = {} /\ hand'[w].dead = {}
  BY <1>1, ClaimHand
<1>4. Alone'
  BY <1>1, <1>2, <1>3 DEF Alone, Only, Holds
<1>5. RowKnows(e)'
  BY <1>1 DEF StaysKnown, RowKnows
<1>6. ASSUME NEW v \in Worker \ {w} PROVE WorkerKnows(v, e)'
  <2>1. hand'[v] = hand[v] /\ hand[v].phase = "idle"
    BY <1>2, <1>3 DEF Only, Holds
  <2> QED BY <1>1, <2>1 DEF StaysKnown, WorkerKnows
<1>7. WorkerKnows(w, e)'
  BY <1>3 DEF WorkerKnows
<1> QED BY <1>4, <1>5, <1>6, <1>7 DEF StaysKnown

LEMMA StayList ==
  ASSUME PushInv, TypeInv', NEW e \in Endpoint, StaysKnown(e), NEW w \in Worker, List(w)
  PROVE  StaysKnown(e)'
<1>1. /\ TypeOK /\ TypeInv /\ Holds(w) /\ UNCHANGED <<owner, id, inserted, response, forgotten>>
      /\ hand[w].phase = "claimed"
  BY DEF List, PushInv, TypeInv, subscriptions, row, history, Holds
<1>2. Listed \in SUBSET (Endpoint \X Id)
  BY <1>1, ListsDevices
<1>3. /\ Only(w) /\ hand'[w].prior = hand[w].prior /\ hand'[w].phase = "sending"
      /\ hand'[w].listed = Listed
      /\ hand'[w].outcomes = {s[2] : s \in Reached(w)}
      /\ hand'[w].taken = {} /\ hand'[w].dead = {}
  BY <1>1, <1>2, ListHand DEF TypeInv, Tidy
<1>4. hand[w].prior = response
  BY <1>1 DEF StaysKnown, Alone
<1>5. Reached(w) = {s \in Listed : s[2] \in response}
  BY <1>4 DEF Reached, Prior
<1>6. /\ \A s \in Listed : /\ s[2] <= inserted
                           /\ s[2] = id[e] => s[1] = e /\ owner[e] = "recipient"
      /\ owner[e] = "recipient" => <<e, id[e]>> \in Listed
  BY <1>1 DEF Listed, TypeInv
<1>7. WorkerKnows(w, e)'
  <2>1. id[e] \in response => id[e] \in hand'[w].outcomes
    BY <1>3, <1>5, <1>6 DEF StaysKnown, RowKnows
  <2>2. \A i \in hand'[w].outcomes : i \in response
    BY <1>3, <1>5
  <2> QED BY <1>1, <1>3, <1>6, <2>1, <2>2 DEF WorkerKnows, StaysKnown, RowKnows
<1> QED BY <1>1, <1>3, <1>7, StayWorker DEF StaysKnown, RowKnows

LEMMA StaySkipped ==
  ASSUME PushInv, TypeInv', NEW e \in Endpoint, StaysKnown(e), NEW w \in Worker, MarkSkipped(w)
  PROVE  StaysKnown(e)'
<1>1. /\ Holds(w) /\ Release(w) /\ Write(w, {}) /\ UNCHANGED <<owner, id, inserted>>
      /\ hand[w].taken = {}
  BY DEF MarkSkipped, Holds, subscriptions, PushInv, TypeInv, Tidy
<1>2. owner[e] # "recipient"
  BY DEF MarkSkipped, Listed
<1>3. id[e] \notin response \cup hand[w].taken
  BY <1>1, <1>2 DEF StaysKnown, RowKnows
<1> QED BY <1>1, <1>3, StayWrites DEF StaysKnown

LEMMA StayFinish ==
  ASSUME PushInv, TypeInv', NEW e \in Endpoint, StaysKnown(e), NEW w \in Worker, Finish(w)
  PROVE  StaysKnown(e)'
<1> DEFINE ids == hand[w].outcomes
<1>1. /\ Holds(w) /\ Release(w) /\ Write(w, ids) /\ UNCHANGED <<owner, id, inserted>>
      /\ hand[w].phase = "sending" /\ WorkerKnows(w, e)
  BY DEF Finish, MarkRetrying, Holds, subscriptions, StaysKnown
<1>2. ids \in SUBSET Id /\ hand[w].taken \subseteq ids /\ \A i \in ids : i <= inserted
  BY <1>1, HandSets DEF PushInv, WorkerKnows
<1>3. /\ id[e] \in response \cup hand[w].taken => id[e] \in ids
      /\ id[e] \in ids => owner[e] = "recipient"
  BY <1>1, <1>2 DEF WorkerKnows
<1> HIDE DEF ids
<1> QED BY <1>1, <1>2, <1>3, StayWrites DEF StaysKnown

LEMMA StayPush ==
  ASSUME Fault = {}, PushInv, TypeInv', NEW e \in Endpoint, StaysKnown(e), NEW w \in Worker,
         NEW s \in Endpoint \X Id, NEW r \in Answer, Push(w, s, r)
  PROVE  StaysKnown(e)'
<1>1. /\ TypeOK /\ TypeInv /\ UNCHANGED <<owner, id, inserted, response, forgotten>>
      /\ s \in hand[w].todo /\ s \in hand[w].listed /\ hand[w].phase = "sending" /\ r # "unheard"
  BY HandSets DEF Push, PushInv, TypeInv, Tidy, subscriptions, row, Spend
<1>2. /\ Only(w) /\ hand'[w].phase = hand[w].phase /\ hand'[w].prior = hand[w].prior
      /\ hand'[w].listed = hand[w].listed /\ hand'[w].todo = hand[w].todo \ {s}
      /\ hand'[w].outcomes = IF r = "ok" THEN hand[w].outcomes \cup {s[2]} ELSE hand[w].outcomes
      /\ hand'[w].taken = IF r = "error" THEN hand[w].taken ELSE hand[w].taken \cup {s[2]}
      /\ hand'[w].dead = hand[w].dead
  <2>1. TypeOK
    BY <1>1
  <2> QED BY <2>1, PushHand
<1>3. WorkerKnows(w, e) /\ s[2] <= inserted /\ (s[2] = id[e] => owner[e] = "recipient")
  BY <1>1 DEF StaysKnown, WorkerKnows
<1>4. WorkerKnows(w, e)'
  BY <1>1, <1>2, <1>3 DEF WorkerKnows, Answer
<1>5. Holds(w)
  BY <1>1 DEF Holds
<1> QED BY <1>1, <1>2, <1>4, <1>5, StayWorker DEF StaysKnown, RowKnows

LEMMA StayPrune ==
  ASSUME PushInv, TypeInv', NEW e \in Endpoint, StaysKnown(e), NEW w \in Worker,
         NEW s \in Endpoint \X Id, Prune(w, s),
         s = <<e, id[e]>> \/ (owner[e] = "recipient" => owner'[e] = "recipient")
  PROVE  StaysKnown(e)'
<1>1. /\ TypeOK /\ TypeInv /\ UNCHANGED <<id, inserted, response, forgotten>>
      /\ s \in hand[w].todo /\ hand[w].phase = "sending" /\ Holds(w)
  BY DEF Prune, PushInv, TypeInv, Tidy, row, history, Holds
<1>2. /\ Only(w) /\ hand'[w].phase = hand[w].phase /\ hand'[w].prior = hand[w].prior
      /\ hand'[w].listed = hand[w].listed /\ hand'[w].todo = hand[w].todo \ {s}
      /\ hand'[w].outcomes = hand[w].outcomes /\ hand'[w].taken = hand[w].taken
      /\ hand'[w].dead = hand[w].dead \cup {s}
  BY <1>1, PruneHand
<1>3. /\ WorkerKnows(w, e) /\ hand[w].prior = response
      /\ s[2] \notin hand[w].prior \cup hand[w].outcomes
      /\ s \in hand[w].listed /\ \A t \in hand[w].listed : t[2] = s[2] => t = s
  BY <1>1, HandSets DEF StaysKnown, Alone, PushInv, Truthful
<1>4. CASE s = <<e, id[e]>>
  <2>1. id[e] \notin response \cup hand[w].outcomes
    BY <1>3, <1>4
  <2>2. WorkerKnows(w, e)'
    BY <1>1, <1>2, <1>3, <1>4, <2>1 DEF WorkerKnows
  <2> QED BY <1>1, <1>2, <2>1, <2>2, StayWorker DEF StaysKnown
<1>5. CASE owner[e] = "recipient" => owner'[e] = "recipient"
  <2>1. WorkerKnows(w, e)'
    BY <1>1, <1>2, <1>3, <1>5 DEF WorkerKnows
  <2> QED BY <1>1, <1>2, <1>5, <2>1, StayWorker DEF StaysKnown, RowKnows
<1> QED BY <1>4, <1>5

LEMMA StayStep ==
  ASSUME Fault = {}, NEW e \in Endpoint,
         PushInv, TypeInv', StayInv(e), [Next]_vars, [StaysOn(e)]_vars
  PROVE  StayInv(e)'
<1> SUFFICES ASSUME overtaken' = 0 PROVE StaysKnown(e)'
  BY DEF StayInv, StaysKnown
<1>1. ASSUME NEW w \in Worker, LoadFails(w) \/ Lose(w) PROVE FALSE
  BY <1>1 DEF LoadFails, Lose, Spend
<1>2. overtaken = 0
  <2>1. overtaken \in Nat
    BY DEF PushInv, TypeInv, TypeOK
  <2>2. overtaken' = overtaken \/ overtaken' = overtaken + 1
    <3>1. ASSUME NEW w \in Worker, Attempt(w) PROVE UNCHANGED overtaken
      BY <3>1 DEF Attempt, LoadFails, List, MarkSkipped, Send, Push, Prune, Finish, Lose, history
    <3>2. ASSUME NEW g \in Endpoint, NEW u, Save(g, u) \/ Unsubscribe(g, u)
          PROVE  UNCHANGED overtaken
      BY <3>2 DEF Save, Unsubscribe, history
    <3>3. CASE UNCHANGED vars
      BY <3>3 DEF vars, history
    <3> QED BY <3>1, <3>2, <3>3 DEF Next, Claim
  <2> QED BY <2>1, <2>2
<1>3. StaysKnown(e)
  BY <1>2 DEF StayInv, StaysKnown
<1>4. CASE UNCHANGED vars
  BY <1>3, <1>4
     DEF vars, subscriptions, row, history, StaysKnown, Alone, RowKnows, WorkerKnows, Holds
<1>5. ASSUME NEW w \in Worker, Prune(w, <<e, id[e]>>) PROVE StaysKnown(e)'
  <2>1. <<e, id[e]>> \in Endpoint \X Id
    <3>1. <<e, id[e]>> \in hand[w].listed
      BY <1>5, HandSets DEF Prune, PushInv
    <3> QED BY <3>1, HandSets DEF PushInv
  <2> QED BY <1>3, <1>5, <2>1, StayPrune
<1>6. CASE owner[e] = "recipient" => owner'[e] = "recipient"
  <2>1. ASSUME NEW w \in Worker, NEW s \in Endpoint \X Id, Send(w, s) PROVE StaysKnown(e)'
    BY <1>3, <1>6, <2>1, StayPush, StayPrune DEF Send
  <2>2. ASSUME NEW w \in Worker, Attempt(w) PROVE StaysKnown(e)'
    BY <1>1, <1>3, <2>1, <2>2, StayList, StaySkipped, StayFinish DEF Attempt
  <2>3. ASSUME NEW g \in Endpoint, NEW u \in {"recipient", "other"}, Save(g, u) \/ Unsubscribe(g, u)
        PROVE  StaysKnown(e)'
    BY <1>3, <1>6, <2>3, StaySave, StayUnsubscribe
  <2>4. ASSUME NEW w \in Worker, Claim(w) PROVE StaysKnown(e)'
    BY <1>3, <2>4, StayClaim
  <2> QED BY <1>4, <2>2, <2>3, <2>4 DEF Next
<1> QED BY <1>4, <1>5, <1>6 DEF StaysOn

\* dispatch.go:74, for the devices it is true of: with no fault, and while no
\* worker claims the row from under another, a device that stays the recipient's
\* is pushed at most once, whatever the other devices and their endpoints do and
\* however many attempts that takes.
THEOREM StayingDevicesArePushedOnce ==
  ASSUME Fault = {}, NEW e \in Endpoint
  PROVE  SafeSpec /\ Stays(e) => [](overtaken = 0 /\ id[e] # 0 => pushed[id[e]] <= 1)
<1>1. PushInv /\ TypeInv' /\ StayInv(e) /\ [Next]_vars /\ [StaysOn(e)]_vars => StayInv(e)'
  BY StayStep
<1>2. PushInv => TypeInv
  BY DEF PushInv
<1>3. PushInv /\ StayInv(e) => (overtaken = 0 /\ id[e] # 0 => pushed[id[e]] <= 1)
  <2> SUFFICES ASSUME PushInv, StayInv(e), overtaken = 0, id[e] # 0
               PROVE  pushed[id[e]] <= 1
    OBVIOUS
  <2>1. id[e] \in Id
    BY Bounds DEF PushInv, TypeInv, TypeOK, Id
  <2>2. Counted(id[e]) /\ forgotten[id[e]] = 0
    BY <2>1 DEF PushInv, StayInv, RowKnows
  <2>3. pushed[id[e]] \in Nat /\ Cardinality(Pushing(id[e])) \in Nat
    BY <2>1, Numbers, PushingFinite DEF PushInv, Pushing
  <2> QED BY <2>2, <2>3 DEF Counted
<1> QED BY <1>1, <1>2, <1>3, StayInit, PushAlways, PTL DEF SafeSpec, Stays
=============================================================================
