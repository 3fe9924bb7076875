-------------------------- MODULE EmailEventsProofs --------------------------
(***************************************************************************)
(* Proofs about EmailEvents, for any rows, emails and event types.         *)
(***************************************************************************)
EXTENDS EmailEvents, TLAPS

LEMMA Strangers == NoRow \notin Delivery /\ NoMail \notin Mail
  BY EventAssumption DEF EventAssumption

LEMMA StatusOfEvent == \A t \in Relevant : StatusForEvent[t] \in ProviderStatus
  BY DEF Relevant, StatusForEvent, ProviderStatus

LEMMA RankOfNone == Rank("") = 0
  BY DEF Rank, Undelivered

LEMMA RankPositive == ASSUME NEW s \in ProviderStatus PROVE Rank(s) \in Nat /\ Rank(s) > 0
<1>1. Rank(s) \in Nat
  BY DEF Rank, ProviderStatus, Undelivered
<1>2. Rank(s) > 0
  BY DEF Rank, ProviderStatus, Undelivered
<1> QED BY <1>1, <1>2

LEMMA RankType == ASSUME NEW s \in ProviderStatus \cup {""} PROVE Rank(s) \in Nat
<1>1. Rank("") \in Nat
  <2>1. 0 \in Nat
    OBVIOUS
  <2> QED BY <2>1, RankOfNone, Zenon
<1> QED BY <1>1, RankPositive

LEMMA ProblemIsStatus == Problem \subseteq ProviderStatus
  BY DEF Problem, ProviderStatus

LEMMA SeqEntries == ASSUME NEW S, NEW q \in Seq(S) PROVE \A i \in 1..Len(q) : q[i] \in S
  OBVIOUS

LEMMA EmptyLen == Len(<<>>) = 0
  OBVIOUS

LEMMA NatSelf == \A a \in Nat : a <= a
  OBVIOUS

LEMMA NatChain == \A a, b, c \in Nat : a <= b /\ b < c => a <= c
  OBVIOUS

LEMMA NatClimb == \A a, b, c \in Nat : a <= b /\ b < c => a < c
  OBVIOUS

LEMMA NatBelow == \A a, b \in Nat : a < b => a <= b
  OBVIOUS

LEMMA NatOrder == \A a, b \in Nat : a > b \/ a <= b
  OBVIOUS

\* Advance keeps the status or takes a graver one, and ends no milder than
\* either.
LEMMA AdvanceFact ==
  ASSUME NEW s \in ProviderStatus \cup {""}, NEW t \in ProviderStatus
  PROVE  /\ Advance(s, t) \in ProviderStatus \cup {""}
         /\ \/ Advance(s, t) = s /\ Rank(t) <= Rank(s)
            \/ Advance(s, t) = t /\ Rank(s) < Rank(t)
<1>1. Rank(s) \in Nat /\ Rank(t) \in Nat
  BY RankType
<1>2. CASE Rank(t) > Rank(s)
  <2>1. Advance(s, t) = t
    BY <1>2 DEF Advance
  <2>2. Rank(s) < Rank(t)
    BY <1>1, <1>2
  <2> QED BY <2>1, <2>2, Zenon
<1>3. CASE ~(Rank(t) > Rank(s))
  <2>1. Advance(s, t) = s
    BY <1>3 DEF Advance
  <2>2. Rank(t) <= Rank(s)
    BY <1>1, <1>3, NatOrder, Zenon
  <2> QED BY <2>1, <2>2, Zenon
<1> QED BY <1>2, <1>3

\* What a delivered report does: nothing, or one Apply to the row that
\* carries its email.
LEMMA ReceiveCases ==
  ASSUME NEW r \in Report, NEW heard \in BOOLEAN, Receive(r, heard)
  PROVE  /\ UNCHANGED <<queue, emailId, owner, hand, reported>>
         /\ \/ UNCHANGED <<answered, early>>
            \/ /\ answered' = answered \cup {r}
               /\ early' = IF r[1] \in hand THEN early \cup {r} ELSE early
         /\ r \in reported
         /\ \/ UNCHANGED <<providerStatus, log, alerts>>
            \/ r[2] \in Relevant /\ \E d \in Delivery : emailId[d] = r[1] /\ Apply(d, r)
  BY DEF Receive, rows
-----------------------------------------------------------------------------
(* Types, and who owns what *)

\* A row carries only an email sent for it, and the log speaks only of
\* relevant events of emails that were sent.
Owned ==
  /\ \A d \in Delivery : emailId[d] # NoMail => owner[emailId[d]] = d
  /\ \A m \in hand : owner[m] \in Delivery
  /\ \A r \in log : r[2] \in Relevant /\ owner[r[1]] \in Delivery

TypeInv == TypeOK /\ Owned

LEMMA TypeInit == Init => TypeInv
<1> SUFFICES ASSUME Init PROVE TypeOK /\ Owned
  BY DEF TypeInv
<1>1. alerts \in [Delivery -> Seq(Problem)]
  <2>1. alerts = [d \in Delivery |-> <<>>]
    BY DEF Init
  <2>2. <<>> \in Seq(Problem)
    OBVIOUS
  <2> QED BY <2>1, <2>2
<1>2. TypeOK
  BY <1>1 DEF Init, TypeOK, Open
<1>3. Owned
  BY DEF Init, Owned
<1> QED BY <1>2, <1>3

LEMMA ApplyType ==
  ASSUME TypeInv, NEW d \in Delivery, NEW r \in Report, Apply(d, r),
         r[2] \in Relevant, emailId[d] = r[1]
  PROVE  /\ log' = log \cup {r}
         /\ owner[r[1]] = d
         /\ providerStatus' =
              [providerStatus EXCEPT ![d] = Advance(providerStatus[d], StatusForEvent[r[2]])]
         /\ providerStatus' \in [Delivery -> ProviderStatus \cup {""}]
         /\ alerts' \in [Delivery -> Seq(Problem)]
<1>1. StatusForEvent[r[2]] \in ProviderStatus /\ providerStatus[d] \in ProviderStatus \cup {""}
  BY StatusOfEvent DEF TypeInv, TypeOK
<1>2. providerStatus' =
        [providerStatus EXCEPT ![d] = Advance(providerStatus[d], StatusForEvent[r[2]])]
  BY DEF Apply
<1>3. providerStatus' \in [Delivery -> ProviderStatus \cup {""}]
  BY <1>1, <1>2, AdvanceFact DEF TypeInv, TypeOK
<1>4. alerts' \in [Delivery -> Seq(Problem)]
  <2>1. CASE UNCHANGED alerts
    BY <2>1 DEF TypeInv, TypeOK
  <2>2. CASE RaiseAlert(d, Advance(providerStatus[d], StatusForEvent[r[2]]))
    <3> DEFINE next == Advance(providerStatus[d], StatusForEvent[r[2]])
    <3>1. CASE next \in Problem /\ d \in HasActor
      <4>1. alerts' = [alerts EXCEPT ![d] = Append(@, next)]
        BY <2>2, <3>1 DEF RaiseAlert
      <4>2. alerts[d] \in Seq(Problem)
        BY DEF TypeInv, TypeOK
      <4>3. Append(alerts[d], next) \in Seq(Problem)
        BY <3>1, <4>2
      <4> QED BY <4>1, <4>3 DEF TypeInv, TypeOK
    <3>2. CASE ~(next \in Problem /\ d \in HasActor)
      BY <2>2, <3>2 DEF RaiseAlert, TypeInv, TypeOK
    <3> QED BY <3>1, <3>2
  <2> QED BY <2>1, <2>2 DEF Apply
<1>5. owner[r[1]] = d
  BY Strangers DEF TypeInv, Owned, Report
<1> QED BY <1>2, <1>3, <1>4, <1>5 DEF Apply

LEMMA TypeStep == ASSUME TypeInv, [Next]_vars PROVE TypeInv'
<1> USE DEF TypeInv
<1>8. ASSUME NEW claimed \in SUBSET Delivery, Claim(claimed) PROVE TypeInv'
  BY <1>8 DEF Claim, hook, TypeOK, Owned, Open
<1>1. ASSUME NEW d \in Delivery, NEW m \in Mail, NEW intime \in BOOLEAN, Send(d, m, intime)
      PROVE  TypeInv'
  <2>1. TypeOK'
    BY <1>1 DEF Send, hook, TypeOK
  <2>2. /\ owner[m] = NoRow /\ owner' = [owner EXCEPT ![m] = d]
        /\ hand' \subseteq hand \cup {m}
        /\ UNCHANGED <<emailId, log>>
    BY <1>1 DEF Send, hook
  <2>3. ASSUME NEW e \in Delivery, emailId[e] # NoMail PROVE owner'[emailId[e]] = e
    <3>1. emailId[e] \in Mail /\ owner[emailId[e]] = e
      BY <2>3 DEF TypeOK, Owned
    <3> QED BY <2>2, <3>1, Strangers DEF TypeOK
  <2>4. ASSUME NEW n \in hand' PROVE owner'[n] \in Delivery
    BY <2>2, <2>4 DEF TypeOK, Owned
  <2>5. ASSUME NEW r \in log PROVE r[2] \in Relevant /\ owner'[r[1]] \in Delivery
    <3>1. r[1] \in Mail /\ r[2] \in Relevant /\ owner[r[1]] \in Delivery
      BY DEF TypeOK, Owned, Report
    <3> QED BY <2>2, <3>1, Strangers DEF TypeOK
  <2>6. Owned'
    BY <2>2, <2>3, <2>4, <2>5 DEF Owned
  <2> QED BY <2>1, <2>6
<1>2. ASSUME NEW m \in Mail, MarkSent(m) PROVE TypeInv'
  <2>1. TypeOK'
    BY <1>2 DEF MarkSent, hook, TypeOK, Owned
  <2>2. Owned'
    BY <1>2 DEF MarkSent, hook, TypeOK, Owned
  <2> QED BY <2>1, <2>2
<1>9. ASSUME NEW d \in Delivery, MarkSentBlank(d) PROVE TypeInv'
  BY <1>9 DEF MarkSentBlank, hook, TypeOK, Owned
<1>3. ASSUME NEW gone \in SUBSET Mail, LoseMail(gone) PROVE TypeInv'
  BY <1>3 DEF LoseMail, hook, TypeOK, Owned
<1>4. ASSUME NEW d \in Delivery, NEW s \in {"retrying", "failed"}, FailAttempt(d, s)
      PROVE  TypeInv'
  BY <1>4 DEF FailAttempt, hook, TypeOK, Owned, Open
<1>5. ASSUME NEW m \in Mail, NEW t \in EventType, Happen(m, t) PROVE TypeInv'
  <2>1. /\ reported' = reported \cup {<<m, t>>}
        /\ UNCHANGED <<rows, providerStatus, log, alerts, answered, early>>
    BY <1>5 DEF Happen
  <2>2. reported' \subseteq Report /\ answered' \subseteq reported'
    <3>1. <<m, t>> \in Report
      BY DEF Report
    <3>2. reported \subseteq Report /\ answered \subseteq reported
      BY DEF TypeOK
    <3> QED BY <2>1, <3>1, <3>2
  <2>3. TypeOK'
    BY <2>1, <2>2 DEF rows, TypeOK
  <2>4. Owned'
    BY <2>1 DEF rows, Owned
  <2> QED BY <2>3, <2>4
<1>6. ASSUME NEW r \in Report, NEW heard \in BOOLEAN, Receive(r, heard) PROVE TypeInv'
  <2>1. /\ UNCHANGED <<queue, emailId, owner, hand, reported>>
        /\ answered' \subseteq reported' /\ early' \subseteq answered'
    <3>1. /\ UNCHANGED <<queue, emailId, owner, hand, reported>>
          /\ \/ UNCHANGED <<answered, early>>
             \/ /\ answered' = answered \cup {r}
                /\ early' = IF r[1] \in hand THEN early \cup {r} ELSE early
          /\ r \in reported
      BY <1>6, ReceiveCases
    <3>2. answered \subseteq reported /\ early \subseteq answered
      BY DEF TypeOK
    <3> QED BY <3>1, <3>2
  <2>2. CASE UNCHANGED <<providerStatus, log, alerts>>
    BY <2>1, <2>2 DEF TypeOK, Owned
  <2>3. ASSUME NEW d \in Delivery, r[2] \in Relevant, emailId[d] = r[1], Apply(d, r)
        PROVE  TypeInv'
    <3>1. /\ log' = log \cup {r} /\ owner[r[1]] = d
          /\ providerStatus' \in [Delivery -> ProviderStatus \cup {""}]
          /\ alerts' \in [Delivery -> Seq(Problem)]
      BY <2>3, ApplyType
    <3>2. TypeOK'
      BY <2>1, <3>1 DEF TypeOK
    <3>3. Owned'
      BY <2>1, <2>3, <3>1 DEF Owned
    <3> QED BY <3>2, <3>3
  <2> QED BY <1>6, <2>2, <2>3, ReceiveCases
<1>7. CASE UNCHANGED vars
  BY <1>7 DEF vars, rows, hook, TypeOK, Owned
<1> QED BY <1>1, <1>2, <1>3, <1>4, <1>5, <1>6, <1>7, <1>8, <1>9 DEF Next

\* Every reachable state is well typed, whatever the provider reports.
THEOREM TypeCorrect == SafeSpec => []TypeOK
<1>1. TypeInv /\ [Next]_vars => TypeInv'
  BY TypeStep
<1>2. TypeInv => TypeOK
  BY DEF TypeInv
<1> QED BY <1>1, <1>2, TypeInit, PTL DEF SafeSpec
-----------------------------------------------------------------------------
(* What a step does to the reports, for the invariants below *)

\* A step leaves the reports, statuses and alerts alone, or applies one report.
Quiet == /\ UNCHANGED <<providerStatus, log, alerts>>
         /\ \A r \in log : owner'[r[1]] = owner[r[1]]

LEMMA StepCases ==
  ASSUME TypeInv, [Next]_vars
  PROVE  \/ Quiet
         \/ \E d \in Delivery, r \in Report :
              r[2] \in Relevant /\ emailId[d] = r[1] /\ Apply(d, r) /\ UNCHANGED owner
<1>1. ASSUME NEW d \in Delivery, NEW m \in Mail, NEW intime \in BOOLEAN, Send(d, m, intime)
      PROVE  Quiet
  <2>1. /\ owner[m] = NoRow /\ owner' = [owner EXCEPT ![m] = d]
        /\ UNCHANGED <<providerStatus, log, alerts>>
    BY <1>1 DEF Send, hook
  <2>2. ASSUME NEW r \in log PROVE owner'[r[1]] = owner[r[1]]
    <3>1. r[1] \in Mail /\ owner[r[1]] \in Delivery
      BY DEF TypeInv, TypeOK, Owned, Report
    <3> QED BY <2>1, <3>1, Strangers DEF TypeInv, TypeOK
  <2> QED BY <2>1, <2>2 DEF Quiet
<1>2. ASSUME NEW m \in Mail, MarkSent(m) PROVE Quiet
  BY <1>2 DEF MarkSent, hook, Quiet
<1>3. ASSUME \/ \E d \in Delivery, s \in {"retrying", "failed"} : FailAttempt(d, s)
             \/ \E d \in Delivery : MarkSentBlank(d)
             \/ \E claimed \in SUBSET Delivery : Claim(claimed)
             \/ \E gone \in SUBSET Mail : LoseMail(gone)
      PROVE  Quiet
  BY <1>3 DEF FailAttempt, MarkSentBlank, Claim, LoseMail, hook, Quiet
<1>4. ASSUME NEW m \in Mail, NEW t \in EventType, Happen(m, t) PROVE Quiet
  BY <1>4 DEF Happen, rows, Quiet
<1>5. ASSUME NEW r \in Report, NEW heard \in BOOLEAN, Receive(r, heard)
      PROVE  \/ Quiet
             \/ \E d \in Delivery :
                  r[2] \in Relevant /\ emailId[d] = r[1] /\ Apply(d, r) /\ UNCHANGED owner
  BY <1>5, ReceiveCases DEF Quiet
<1>6. CASE UNCHANGED vars
  BY <1>6 DEF vars, rows, hook, Quiet
<1> QED BY <1>1, <1>2, <1>3, <1>4, <1>5, <1>6 DEF Next

LEMMA RecordedQuiet ==
  ASSUME Quiet, NEW d \in Delivery
  PROVE  Recorded(d)' = Recorded(d)
<1>1. log' = log /\ \A r \in log : owner'[r[1]] = owner[r[1]]
  BY DEF Quiet
<1>2. {q \in log' : owner'[q[1]] = d} = {q \in log : owner[q[1]] = d}
  BY <1>1
<1> QED BY <1>2 DEF Recorded

LEMMA RecordedApply ==
  ASSUME NEW d \in Delivery, NEW r \in Report, log' = log \cup {r}, owner' = owner,
         owner[r[1]] = d, NEW e \in Delivery
  PROVE  Recorded(e)' = IF e = d THEN Recorded(e) \cup {StatusForEvent[r[2]]} ELSE Recorded(e)
<1>1. CASE e = d
  <2>1. {q \in log' : owner'[q[1]] = e} = {q \in log : owner[q[1]] = e} \cup {r}
    BY <1>1
  <2> QED BY <1>1, <2>1 DEF Recorded
<1>2. CASE e # d
  <2>1. {q \in log' : owner'[q[1]] = e} = {q \in log : owner[q[1]] = e}
    BY <1>2
  <2> QED BY <1>2, <2>1 DEF Recorded
<1> QED BY <1>1, <1>2

LEMMA RecordedType ==
  ASSUME TypeInv, NEW d \in Delivery
  PROVE  Recorded(d) \subseteq ProviderStatus
  BY StatusOfEvent DEF Recorded, TypeInv, Owned
-----------------------------------------------------------------------------
(* The order of webhooks does not matter *)

LEMMA GravestStep ==
  ASSUME TypeInv, StatusIsGravest, [Next]_vars
  PROVE  StatusIsGravest'
<1>1. CASE Quiet
  <2>1. providerStatus' = providerStatus
    BY <1>1 DEF Quiet
  <2>2. \A d \in Delivery : Recorded(d)' = Recorded(d)
    BY <1>1, RecordedQuiet
  <2> QED BY <2>1, <2>2 DEF StatusIsGravest
<1>2. ASSUME NEW d \in Delivery, NEW r \in Report, r[2] \in Relevant,
             emailId[d] = r[1], Apply(d, r), UNCHANGED owner
      PROVE  StatusIsGravest'
  <2> DEFINE old == providerStatus[d]
             new == StatusForEvent[r[2]]
  <2>1. /\ log' = log \cup {r} /\ owner[r[1]] = d
        /\ providerStatus' = [providerStatus EXCEPT ![d] = Advance(old, new)]
    BY <1>2, ApplyType
  <2>2. old \in ProviderStatus \cup {""} /\ new \in ProviderStatus
    BY <1>2, StatusOfEvent DEF TypeInv, TypeOK
  <2>3. providerStatus \in [Delivery -> ProviderStatus \cup {""}]
    BY DEF TypeInv, TypeOK
  <2>4. ASSUME NEW e \in Delivery, e # d
        PROVE  /\ providerStatus'[e] \in Recorded(e)' \cup {""}
               /\ \A s \in Recorded(e)' : Rank(s) <= Rank(providerStatus'[e])
    <3>1. Recorded(e)' = Recorded(e) /\ providerStatus'[e] = providerStatus[e]
      BY <1>2, <2>1, <2>3, <2>4, RecordedApply
    <3> QED BY <3>1 DEF StatusIsGravest
  <2>5. /\ providerStatus'[d] \in Recorded(d)' \cup {""}
        /\ \A s \in Recorded(d)' : Rank(s) <= Rank(providerStatus'[d])
    <3>1. Recorded(d)' = Recorded(d) \cup {new} /\ providerStatus'[d] = Advance(old, new)
      BY <1>2, <2>1, <2>3, RecordedApply
    <3>2. old \in Recorded(d) \cup {""} /\ \A s \in Recorded(d) : Rank(s) <= Rank(old)
      BY DEF StatusIsGravest
    <3>3. CASE Advance(old, new) = old /\ Rank(new) <= Rank(old)
      <4>1. providerStatus'[d] = old
        BY <3>1, <3>3
      <4> QED BY <3>1, <3>2, <3>3, <4>1, Zenon
    <3>4. CASE Advance(old, new) = new /\ Rank(old) < Rank(new)
      <4>1. providerStatus'[d] = new
        BY <3>1, <3>4
      <4>2. ASSUME NEW s \in Recorded(d) PROVE Rank(s) <= Rank(new)
        <5>1. Rank(s) \in Nat /\ Rank(old) \in Nat /\ Rank(new) \in Nat
          BY <2>2, RankType, RecordedType
        <5>2. Rank(s) <= Rank(old)
          BY <3>2
        <5> QED BY <5>1, <5>2, <3>4, NatChain, Zenon
      <4>3. Rank(new) <= Rank(new)
        <5>1. Rank(new) \in Nat
          BY <2>2, RankType
        <5> QED BY <5>1, NatSelf, Zenon
      <4> QED BY <3>1, <4>1, <4>2, <4>3, Zenon
    <3> QED BY <2>2, <3>3, <3>4, AdvanceFact
  <2> QED BY <2>4, <2>5 DEF StatusIsGravest
<1> QED BY <1>1, <1>2, StepCases

\* Whatever order webhooks arrive in, and however often, a row's status is the
\* gravest that was recorded for it (emailevents/status.go, Advance).
THEOREM StatusIsAlwaysGravest == SafeSpec => []StatusIsGravest
<1>1. Init => TypeInv /\ StatusIsGravest
  <2>1. Init => StatusIsGravest
    BY DEF Init, StatusIsGravest, Recorded
  <2> QED BY <2>1, TypeInit
<1>2. (TypeInv /\ StatusIsGravest) /\ [Next]_vars => (TypeInv /\ StatusIsGravest)'
  BY TypeStep, GravestStep
<1> QED BY <1>1, <1>2, PTL DEF SafeSpec

LEMMA Fifty == \A n \in {0, 10, 20, 30, 40} : ~(50 <= n)
  OBVIOUS

\* Only the three undelivered statuses have the highest rank.
LEMMA GravestRank ==
  ASSUME NEW s \in ProviderStatus \cup {""}, NEW t \in Undelivered, Rank(t) <= Rank(s)
  PROVE  s \in Undelivered
<1>1. Rank(t) = 50
  BY DEF Rank
<1>2. s \in Undelivered \/ Rank(s) = 40 \/ Rank(s) = 30 \/ Rank(s) = 20
        \/ Rank(s) = 10 \/ Rank(s) = 0
  BY Zenon DEF Rank
<1>3. 50 <= Rank(s)
  BY <1>1, Zenon
<1> QED BY <1>2, <1>3, Fifty, Zenon

LEMMA ClientStep ==
  ASSUME TypeInv, StatusIsGravest
  PROVE  ClientSeesUndelivered
<1> SUFFICES ASSUME NEW d \in Delivery
             PROVE  DeriveState(queue[d], providerStatus[d]) \in Undelivered
                      <=> \/ Recorded(d) \cap Undelivered # {}
                          \/ Recorded(d) = {} /\ queue[d] = "failed"
  BY DEF ClientSeesUndelivered
<1> DEFINE ps == providerStatus[d]
<1>1. /\ ps \in Recorded(d) \cup {""} /\ ps \in ProviderStatus \cup {""}
      /\ \A s \in Recorded(d) : Rank(s) <= Rank(ps)
      /\ Recorded(d) \subseteq ProviderStatus
      /\ queue[d] \in Open \cup {"sent", "failed"}
  BY RecordedType DEF StatusIsGravest, TypeInv, TypeOK
<1>2. Recorded(d) \cap Undelivered # {} <=> ps \in Undelivered
  <2>1. ps \in Undelivered => ps \in Recorded(d)
    BY <1>1 DEF Undelivered
  <2>2. \A t \in Recorded(d) \cap Undelivered : ps \in Undelivered
    BY <1>1, GravestRank
  <2> QED BY <2>1, <2>2
<1>3. Recorded(d) = {} <=> ps = ""
  <2>1. "" \notin ProviderStatus
    BY DEF ProviderStatus
  <2>2. ASSUME NEW s \in Recorded(d), ps = "" PROVE FALSE
    <3>1. Rank(s) \in Nat /\ Rank(s) > 0
      BY <1>1, RankPositive
    <3>2. Rank(s) <= 0
      BY <1>1, <2>2, RankOfNone
    <3> QED BY <3>1, <3>2
  <2> QED BY <1>1, <2>1, <2>2
<1>4. CASE ps = ""
  <2>1. DeriveState(queue[d], ps) \in Undelivered <=> queue[d] = "failed"
    BY <1>1, <1>4 DEF DeriveState, ProviderStatus, Open, Undelivered
  <2>2. ps \notin Undelivered
    BY <1>4 DEF Undelivered
  <2> QED BY <1>2, <1>3, <1>4, <2>1, <2>2
<1>5. CASE ps \in ProviderStatus
  <2>1. DeriveState(queue[d], ps) \in Undelivered <=> ps \in Undelivered
    BY <1>5 DEF DeriveState, ProviderStatus, Undelivered
  <2>2. ps # ""
    BY <1>5 DEF ProviderStatus
  <2> QED BY <1>2, <1>3, <2>1, <2>2
<1> QED BY <1>1, <1>4, <1>5

\* What a client reads says that an email was not delivered exactly if such a
\* report was recorded, or the queue gave up before any (status.go,
\* DeriveState): no order of webhooks hides a bounce or invents one.
THEOREM ClientsSeeUndelivered == SafeSpec => []ClientSeesUndelivered
<1>1. Init => TypeInv /\ StatusIsGravest
  <2>1. Init => StatusIsGravest
    BY DEF Init, StatusIsGravest, Recorded
  <2> QED BY <2>1, TypeInit
<1>2. (TypeInv /\ StatusIsGravest) /\ [Next]_vars => (TypeInv /\ StatusIsGravest)'
  BY TypeStep, GravestStep
<1>3. TypeInv /\ StatusIsGravest => ClientSeesUndelivered
  BY ClientStep
<1> QED BY <1>1, <1>2, <1>3, PTL DEF SafeSpec
-----------------------------------------------------------------------------
(* The sender's alerts *)

\* No alert is graver than the row's status.
AlertsReached ==
  \A d \in Delivery : \A i \in 1..Len(alerts[d]) : Rank(alerts[d][i]) <= Rank(providerStatus[d])

AlertInv == AlertsReached /\ AlertsRise /\ ProblemIsAlerted

\* A status that changes to a problem is appended to the alerts of a sender;
\* any other change leaves them.
LEMMA AlertsApply ==
  ASSUME TypeInv, NEW d \in Delivery, NEW r \in Report, Apply(d, r),
         r[2] \in Relevant, emailId[d] = r[1]
  PROVE  \/ UNCHANGED <<providerStatus, alerts>>
         \/ \E t \in ProviderStatus :
              /\ Rank(providerStatus[d]) < Rank(t)
              /\ providerStatus' = [providerStatus EXCEPT ![d] = t]
              /\ \/ /\ t \in Problem /\ d \in HasActor
                    /\ alerts' = [alerts EXCEPT ![d] = Append(@, t)]
                 \/ ~(t \in Problem /\ d \in HasActor) /\ alerts' = alerts
<1> DEFINE old == providerStatus[d]
           new == StatusForEvent[r[2]]
<1>1. old \in ProviderStatus \cup {""} /\ new \in ProviderStatus
  BY StatusOfEvent DEF TypeInv, TypeOK
<1>2. /\ providerStatus' = [providerStatus EXCEPT ![d] = Advance(old, new)]
      /\ IF Advance(old, new) # old THEN RaiseAlert(d, Advance(old, new)) ELSE UNCHANGED alerts
  BY DEF Apply
<1>3. CASE Advance(old, new) = old
  <2>1. alerts' = alerts
    BY <1>2, <1>3
  <2>2. providerStatus' = providerStatus
    BY <1>2, <1>3 DEF TypeInv, TypeOK
  <2> QED BY <2>1, <2>2
<1>4. CASE Advance(old, new) # old
  <2>1. Advance(old, new) = new /\ Rank(old) < Rank(new)
    BY <1>1, <1>4, AdvanceFact
  <2>2. RaiseAlert(d, new)
    BY <1>2, <1>4, <2>1
  <2>3. providerStatus' = [providerStatus EXCEPT ![d] = new]
    BY <1>2, <2>1
  <2>4. \/ /\ new \in Problem /\ d \in HasActor
           /\ alerts' = [alerts EXCEPT ![d] = Append(@, new)]
        \/ ~(new \in Problem /\ d \in HasActor) /\ alerts' = alerts
    BY <2>2 DEF RaiseAlert
  <2> QED BY <1>1, <2>1, <2>3, <2>4, Zenon
<1> QED BY <1>3, <1>4

LEMMA AlertInvInit == Init => AlertInv
<1> SUFFICES ASSUME Init PROVE AlertInv
  OBVIOUS
<1>1. \A d \in Delivery : alerts[d] = <<>> /\ providerStatus[d] = ""
  BY DEF Init
<1>2. "" \notin Problem
  BY DEF Problem
<1>3. \A d \in Delivery : Len(alerts[d]) = 0
  BY <1>1, EmptyLen, Zenon
<1>4. AlertsReached /\ AlertsRise
  BY <1>3 DEF AlertsReached, AlertsRise
<1>5. ProblemIsAlerted
  BY <1>1, <1>2, EventAssumption DEF EventAssumption, ProblemIsAlerted
<1> QED BY <1>4, <1>5 DEF AlertInv

LEMMA AlertStep ==
  ASSUME TypeInv, AlertInv, [Next]_vars
  PROVE  AlertInv'
<1>1. CASE UNCHANGED <<providerStatus, alerts>>
  BY <1>1 DEF AlertInv, AlertsReached, AlertsRise, ProblemIsAlerted
<1>2. ASSUME NEW d \in Delivery, NEW t \in ProviderStatus,
             Rank(providerStatus[d]) < Rank(t),
             providerStatus' = [providerStatus EXCEPT ![d] = t],
             \/ /\ t \in Problem /\ d \in HasActor
                /\ alerts' = [alerts EXCEPT ![d] = Append(@, t)]
             \/ ~(t \in Problem /\ d \in HasActor) /\ alerts' = alerts
      PROVE  AlertInv'
  <2> DEFINE old == providerStatus[d]
             told == alerts[d]
  <2>1. /\ providerStatus'[d] = t
        /\ \A e \in Delivery : e # d => providerStatus'[e] = providerStatus[e] /\ alerts'[e] = alerts[e]
    BY <1>2 DEF TypeInv, TypeOK
  <2>2. told \in Seq(Problem) /\ alerts \in [Delivery -> Seq(Problem)]
    BY DEF TypeInv, TypeOK
  <2>3. Rank(old) \in Nat /\ Rank(t) \in Nat
    BY RankType DEF TypeInv, TypeOK
  <2>4. \A i \in 1..Len(told) : Rank(told[i]) < Rank(t)
    <3> SUFFICES ASSUME NEW i \in 1..Len(told) PROVE Rank(told[i]) < Rank(t)
      OBVIOUS
    <3>1. Rank(told[i]) <= Rank(old)
      BY DEF AlertInv, AlertsReached
    <3>2. told[i] \in ProviderStatus \cup {""}
      BY <2>2, SeqEntries, ProblemIsStatus
    <3>3. Rank(told[i]) \in Nat
      BY <3>2, RankType
    <3> QED BY <1>2, <2>3, <3>1, <3>3, NatClimb, Zenon
  <2>5. \A i, j \in 1..Len(told) : i < j => Rank(told[i]) < Rank(told[j])
    BY DEF AlertInv, AlertsRise
  <2>6. CASE t \in Problem /\ d \in HasActor /\ alerts' = [alerts EXCEPT ![d] = Append(@, t)]
    <3>1. alerts'[d] = Append(told, t)
      BY <2>2, <2>6
    <3>2. /\ Len(alerts'[d]) = Len(told) + 1 /\ Len(told) \in Nat
          /\ alerts'[d][Len(told) + 1] = t
          /\ \A i \in 1..Len(told) : alerts'[d][i] = told[i]
      BY <2>2, <3>1
    <3>3. \A i \in 1..Len(alerts'[d]) : Rank(alerts'[d][i]) <= Rank(t)
      <4> SUFFICES ASSUME NEW i \in 1..Len(alerts'[d]) PROVE Rank(alerts'[d][i]) <= Rank(t)
        OBVIOUS
      <4>1. CASE i \in 1..Len(told)
        <5>1. alerts'[d][i] = told[i] /\ Rank(told[i]) < Rank(t)
          BY <2>4, <3>2, <4>1
        <5>2. told[i] \in ProviderStatus \cup {""}
          BY <2>2, <4>1, SeqEntries, ProblemIsStatus
        <5>3. Rank(told[i]) \in Nat
          BY <5>2, RankType
        <5>4. Rank(told[i]) <= Rank(t)
          BY <2>3, <5>1, <5>3, NatBelow, Zenon
        <5> QED BY <5>1, <5>4, Zenon
      <4>2. CASE i = Len(told) + 1
        <5>1. alerts'[d][i] = t
          BY <3>2, <4>2
        <5>2. Rank(t) <= Rank(t)
          BY <2>3, NatSelf, Zenon
        <5> QED BY <5>1, <5>2, Zenon
      <4> QED BY <3>2, <4>1, <4>2
    <3>4. \A i, j \in 1..Len(alerts'[d]) : i < j => Rank(alerts'[d][i]) < Rank(alerts'[d][j])
      <4> SUFFICES ASSUME NEW i \in 1..Len(alerts'[d]), NEW j \in 1..Len(alerts'[d]), i < j
                   PROVE  Rank(alerts'[d][i]) < Rank(alerts'[d][j])
        OBVIOUS
      <4>1. i \in 1..Len(told) /\ (j \in 1..Len(told) \/ j = Len(told) + 1)
        BY <3>2
      <4>2. alerts'[d][i] = told[i]
        BY <3>2, <4>1
      <4>3. CASE j \in 1..Len(told)
        <5>1. alerts'[d][j] = told[j]
          BY <3>2, <4>3
        <5>2. Rank(told[i]) < Rank(told[j])
          BY <2>5, <4>1, <4>3
        <5> QED BY <4>2, <5>1, <5>2, Zenon
      <4>4. CASE j = Len(told) + 1
        <5>1. alerts'[d][j] = t
          BY <3>2, <4>4
        <5>2. Rank(told[i]) < Rank(t)
          BY <2>4, <4>1
        <5> QED BY <4>2, <5>1, <5>2, Zenon
      <4> QED BY <4>1, <4>3, <4>4
    <3>5. alerts'[d] # <<>> /\ alerts'[d][Len(alerts'[d])] = t
      <4>1. Len(alerts'[d]) # 0
        BY <3>2
      <4>2. alerts'[d] # <<>>
        BY <4>1, EmptyLen, Zenon
      <4> QED BY <3>2, <4>2
    <3>6. AlertsReached' /\ AlertsRise'
      BY <2>1, <3>3, <3>4 DEF AlertInv, AlertsReached, AlertsRise
    <3>7. ProblemIsAlerted'
      <4>1. HasActor \subseteq Delivery
        BY EventAssumption DEF EventAssumption
      <4> QED BY <2>1, <3>5, <4>1 DEF AlertInv, ProblemIsAlerted
    <3> QED BY <3>6, <3>7 DEF AlertInv
  <2>7. CASE ~(t \in Problem /\ d \in HasActor) /\ alerts' = alerts
    <3>1. ASSUME NEW i \in 1..Len(told) PROVE Rank(told[i]) <= Rank(t)
      <4>1. told[i] \in ProviderStatus \cup {""}
        BY <2>2, SeqEntries, ProblemIsStatus
      <4>2. Rank(told[i]) \in Nat
        BY <4>1, RankType
      <4>3. Rank(told[i]) < Rank(t)
        BY <2>4
      <4> QED BY <2>3, <4>2, <4>3, NatBelow, Zenon
    <3>2. AlertsReached'
      BY <2>1, <2>7, <3>1 DEF AlertInv, AlertsReached
    <3>3. AlertsRise'
      BY <2>7 DEF AlertInv, AlertsRise
    <3>4. ProblemIsAlerted'
      <4>1. HasActor \subseteq Delivery
        BY EventAssumption DEF EventAssumption
      <4> QED BY <2>1, <2>7, <4>1 DEF AlertInv, ProblemIsAlerted
    <3> QED BY <3>2, <3>3, <3>4 DEF AlertInv
  <2> QED BY <1>2, <2>6, <2>7
<1>3. CASE Quiet
  BY <1>1, <1>3 DEF Quiet
<1>4. ASSUME NEW d \in Delivery, NEW r \in Report, r[2] \in Relevant,
             emailId[d] = r[1], Apply(d, r)
      PROVE  AlertInv'
  BY <1>1, <1>2, <1>4, AlertsApply
<1> QED BY <1>3, <1>4, StepCases

\* However often webhooks are delivered and in whatever order, a sender is
\* alerted of each email in strictly rising gravity, and has been told of the
\* problem the email has now (emailevents/store.go, Apply and RaiseAlert).
THEOREM AlertsAreRight == SafeSpec => []AlertsEscalate
<1>1. (TypeInv /\ AlertInv) /\ [Next]_vars => (TypeInv /\ AlertInv)'
  BY TypeStep, AlertStep
<1>2. AlertInv => AlertsEscalate
  BY DEF AlertInv, AlertsEscalate
<1> QED BY <1>1, <1>2, TypeInit, AlertInvInit, PTL DEF SafeSpec
-----------------------------------------------------------------------------
(* No webhook is dropped once its row is known *)

\* The provider reports only what it has taken, and a report dropped, when its
\* message was in no loop's hand, is about a message no row will ever carry.
DropInv ==
  /\ \A r \in reported : owner[r[1]] # NoRow
  /\ \A r \in answered \ (log \cup early) :
       r[2] \in Relevant => r[1] \notin hand /\ \A d \in Delivery : emailId[d] # r[1]

LEMMA DropInit == Init => DropInv
  BY DEF Init, DropInv

LEMMA DropStep ==
  ASSUME TypeInv, DropInv, [Next]_vars
  PROVE  DropInv'
<1>1. /\ \A r \in reported : r[1] \in Mail /\ owner[r[1]] # NoRow
      /\ \A r \in answered \ (log \cup early) :
           r[2] \in Relevant => r[1] \notin hand /\ \A d \in Delivery : emailId[d] # r[1]
      /\ answered \subseteq reported
      /\ emailId \in [Delivery -> Mail \cup {NoMail}]
      /\ owner \in [Mail -> Delivery \cup {NoRow}]
      /\ hand \subseteq Mail
      /\ \A m \in hand : owner[m] \in Delivery
  BY DEF DropInv, TypeInv, TypeOK, Owned, Report
<1>2. ASSUME \/ \E claimed \in SUBSET Delivery : Claim(claimed)
             \/ \E gone \in SUBSET Mail : LoseMail(gone)
             \/ \E d \in Delivery, s \in {"retrying", "failed"} : FailAttempt(d, s)
      PROVE  DropInv'
  BY <1>1, <1>2 DEF Claim, LoseMail, FailAttempt, hook, DropInv
<1>3. ASSUME NEW d \in Delivery, NEW m \in Mail, NEW intime \in BOOLEAN, Send(d, m, intime)
      PROVE  DropInv'
  <2>1. /\ owner[m] = NoRow
        /\ owner' = [owner EXCEPT ![m] = d]
        /\ hand' \subseteq hand \cup {m}
        /\ UNCHANGED <<emailId, log, reported, answered, early>>
    BY <1>3 DEF Send, hook
  <2>2. \A r \in reported : r[1] # m /\ owner'[r[1]] = owner[r[1]]
    BY <1>1, <2>1
  <2> QED BY <1>1, <2>1, <2>2 DEF DropInv
<1>4. ASSUME NEW m \in Mail, MarkSent(m) PROVE DropInv'
  <2>1. /\ m \in hand /\ hand' = hand \ {m}
        /\ emailId' = [emailId EXCEPT ![owner[m]] = m]
        /\ UNCHANGED <<owner, log, reported, answered, early>>
    BY <1>4 DEF MarkSent, hook
  <2>2. \A e \in Delivery : emailId'[e] \in {emailId[e], m}
    BY <1>1, <2>1
  <2> QED BY <1>1, <2>1, <2>2 DEF DropInv
<1>8. ASSUME NEW d \in Delivery, MarkSentBlank(d) PROVE DropInv'
  <2>1. /\ emailId' = [emailId EXCEPT ![d] = NoMail]
        /\ UNCHANGED <<owner, hand, log, reported, answered, early>>
    BY <1>8 DEF MarkSentBlank, hook
  <2>2. \A r \in answered : r[1] # NoMail
    BY <1>1, Strangers
  <2>3. \A e \in Delivery : emailId'[e] \in {emailId[e], NoMail}
    BY <1>1, <2>1
  <2> QED BY <1>1, <2>1, <2>2, <2>3 DEF DropInv
<1>5. ASSUME NEW m \in Mail, NEW t \in EventType, Happen(m, t) PROVE DropInv'
  BY <1>1, <1>5 DEF Happen, rows, DropInv
<1>6. ASSUME NEW r \in Report, NEW heard \in BOOLEAN, Receive(r, heard) PROVE DropInv'
  <2>1. /\ UNCHANGED <<queue, emailId, owner, hand, reported>>
        /\ \/ UNCHANGED <<answered, early>>
           \/ /\ answered' = answered \cup {r}
              /\ early' = IF r[1] \in hand THEN early \cup {r} ELSE early
    BY <1>6, ReceiveCases
  <2>2. \/ log' = log \cup {r}
        \/ /\ log' = log
           /\ \/ r[2] \notin Relevant
              \/ r \in log
              \/ \A d \in Delivery : emailId[d] # r[1]
    BY <1>6 DEF Receive, Apply, Seen
  <2> QED BY <1>1, <2>1, <2>2 DEF DropInv
<1>7. CASE UNCHANGED vars
  BY <1>1, <1>7 DEF vars, rows, hook, DropInv
<1> QED BY <1>2, <1>3, <1>4, <1>5, <1>6, <1>7, <1>8 DEF Next

\* A report about the email a row carries is never answered and lost, except
\* before the row knows its email's id (emailevents/store.go:99).
THEOREM ReportsAreKept == SafeSpec => []MissedOnlyEarly
<1>1. (TypeInv /\ DropInv) /\ [Next]_vars => (TypeInv /\ DropInv)'
  BY TypeStep, DropStep
<1>2. DropInv => MissedOnlyEarly
  BY DEF DropInv, MissedOnlyEarly
<1> QED BY <1>1, <1>2, TypeInit, DropInit, PTL DEF SafeSpec
=============================================================================
