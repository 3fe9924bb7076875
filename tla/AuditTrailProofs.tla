--------------------------- MODULE AuditTrailProofs ---------------------------
(***************************************************************************)
(* Proofs about AuditTrail, for any actions, faults, number of faults and *)
(* page size.                                                              *)
(***************************************************************************)
EXTENDS AuditTrail, FiniteSetTheorems, TLAPS

LEMMA Bounds ==
  /\ IsFiniteSet(Action) /\ Action # {} /\ FaultBudget \in Nat
  /\ PageSize \in Nat /\ PageSize > 0
<1>1. Asked \in 1..200 => Asked \in Nat /\ Asked > 0
  OBVIOUS
<1> QED BY <1>1, AuditAssumption DEF AuditAssumption, PageSize, SizeOf

LEMMA SomeAction == Cardinality(Action) \in Nat /\ Cardinality(Action) > 0
  BY Bounds, FS_CardinalityType, FS_EmptySet
-----------------------------------------------------------------------------
(* Losses *)

\* Once the pool is closed, whatever has no connection yet was counted when it
\* was closed; until then the entry of a handler that has not recorded is none.
FlushInv ==
  /\ DOMAIN phase = Action /\ DOMAIN entry = Action
  /\ \A a \in Action : phase[a] \in {"none", "acting", "acted"} => entry[a] = "none"
  /\ mode = "closing" =>
       \A a \in Action : phase[a] # "none" /\ entry[a] \in {"none", "waiting"}
                           => a \in unflushed
  /\ LossesExplained

LEMMA FlushInit == Init => FlushInv
  BY DEF Init, FlushInv, LossesExplained

\* A step of one action, its handler's or its entry's.
LEMMA FlushAction ==
  ASSUME FlushInv, NEW a \in Action,
         Act(a) \/ ActEnds(a) \/ Record(a) \/ Answer(a)
           \/ WriteStarts(a) \/ WriteEnds(a) \/ WriteFails(a)
  PROVE  FlushInv'
<1> USE DEF FlushInv, LossesExplained, Connected
<1>1. CASE Act(a)
  BY <1>1 DEF Act
<1>2. CASE ActEnds(a)
  BY <1>2 DEF ActEnds
<1>3. CASE Record(a)
  BY <1>3 DEF Record
<1>4. CASE Answer(a)
  BY <1>4 DEF Answer
<1>5. CASE WriteStarts(a)
  BY <1>5 DEF WriteStarts
<1>6. CASE WriteEnds(a)
  BY <1>6 DEF WriteEnds
<1>7. CASE WriteFails(a)
  BY <1>7 DEF WriteFails
<1> QED BY <1>1, <1>2, <1>3, <1>4, <1>5, <1>6, <1>7

\* The end of the process costs the entries on their way and those of handlers
\* that had yet to record.
LEMMA FlushEnd ==
  ASSUME FlushInv, End, trouble \subseteq trouble',
         \A a \in Action : a \in OnTheWay \/ phase[a] = "acted"
           => a \in trouble' \cup unflushed
  PROVE  FlushInv'
<1>1. /\ mode' = "down" /\ unflushed' = unflushed
      /\ phase' = [a \in Action |-> IF phase[a] \in {"acting", "acted", "recorded"}
                                    THEN "cut" ELSE phase[a]]
      /\ entry' = [a \in Action |-> IF a \in OnTheWay \/ phase[a] = "acted"
                                    THEN "lost" ELSE entry[a]]
  BY DEF End
<1>2. \A a \in Action : phase'[a] \in {"none", "acting", "acted"} => entry'[a] = "none"
  BY <1>1 DEF FlushInv, OnTheWay
<1>3. LossesExplained'
  BY <1>1 DEF FlushInv, LossesExplained
<1> QED BY <1>1, <1>2, <1>3 DEF FlushInv

LEMMA FlushStep == FlushInv /\ [Next]_vars => FlushInv'
<1> SUFFICES ASSUME FlushInv, [Next]_vars PROVE FlushInv'
  OBVIOUS
<1>1. ASSUME NEW a \in Action,
             Act(a) \/ ActEnds(a) \/ Record(a) \/ Answer(a)
               \/ WriteStarts(a) \/ WriteEnds(a) \/ WriteFails(a)
      PROVE  FlushInv'
  BY <1>1, FlushAction
<1>2. CASE Signal \/ Restart
  BY <1>2 DEF Signal, Restart, writing, FlushInv, LossesExplained
<1>3. CASE Close
  BY <1>3 DEF Close, writing, FlushInv, LossesExplained
<1>4. CASE Exit
  <2>1. \A a \in Action : a \in OnTheWay \/ phase[a] = "acted" => a \in unflushed
    BY <1>4 DEF Exit, PoolIdle, OnTheWay, FlushInv
  <2> QED BY <1>4, <2>1, FlushEnd DEF Exit
<1>5. CASE Kill
  BY <1>5, FlushEnd DEF Kill
<1>6. CASE Open \/ Count \/ List
  BY <1>6 DEF Open, Count, List, writing, FlushInv, LossesExplained
<1>7. CASE UNCHANGED vars
  BY <1>7 DEF vars, writing, FlushInv, LossesExplained
<1> QED BY <1>1, <1>2, <1>3, <1>4, <1>5, <1>6, <1>7 DEF Next

\* No entry is lost because its request is over, nor once its INSERT has begun,
\* save to the database or a kill: a shutdown costs only what had no connection.
THEOREM LossesAreExplained == SafeSpec => []LossesExplained
<1>1. FlushInv => LossesExplained
  BY DEF FlushInv
<1> QED BY <1>1, FlushInit, FlushStep, PTL DEF SafeSpec
-----------------------------------------------------------------------------
(* Types *)

TypeInv == TypeOK /\ FlushInv

\* A step that writes no entry leaves the trail as it is.
LEMMA TypeAction ==
  ASSUME TypeInv, NEW a \in Action,
         Act(a) \/ ActEnds(a) \/ Record(a) \/ Answer(a)
           \/ WriteStarts(a) \/ WriteEnds(a) \/ WriteFails(a)
  PROVE  TypeOK'
<1> USE SomeAction DEF TypeInv, TypeOK, Trail, reading, screen
<1>1. CASE Act(a)
  BY <1>1 DEF Act
<1>2. CASE ActEnds(a)
  BY <1>2, Bounds DEF ActEnds, Spend
<1>3. CASE Record(a)
  BY <1>3 DEF Record, FlushInv
<1>4. CASE Answer(a)
  BY <1>4 DEF Answer
<1>5. CASE WriteStarts(a)
  BY <1>5 DEF WriteStarts
<1>6. CASE WriteEnds(a)
  BY <1>6 DEF WriteEnds
<1>7. CASE WriteFails(a)
  BY <1>7, Bounds DEF WriteFails, Spend
<1> QED BY <1>1, <1>2, <1>3, <1>4, <1>5, <1>6, <1>7

LEMMA TypeInit == Init => TypeOK
<1> SUFFICES ASSUME Init PROVE TypeOK
  OBVIOUS
<1>1. clock \in 1..Cardinality(Action) /\ createdAt \in [Action -> 0..clock]
  BY SomeAction DEF Init
<1>2. entry \in [Action -> {"none", "waiting", "writing", "written", "lost"}]
  BY DEF Init
<1>3. phase \in [Action -> {"none", "acting", "acted", "recorded", "answered", "cut"}]
  BY DEF Init
<1>4. shown \in [Action -> Nat] /\ \A a \in Action \ Trail : shown[a] = 0
  BY DEF Init
<1>5. /\ stage = "idle" /\ page = 1 /\ total = 0 /\ begun = {} /\ mode = "up"
      /\ flight = {} /\ unflushed = {} /\ trouble = {}
      /\ moved = FALSE /\ raced = FALSE /\ split = FALSE
      /\ faults \in 0..FaultBudget
  BY Bounds DEF Init
<1>6. {flight, unflushed, trouble} \subseteq SUBSET Action
  BY <1>5
<1>7. moved \in BOOLEAN /\ raced \in BOOLEAN /\ split \in BOOLEAN
  BY <1>5, Zenon
<1>8. {moved, raced, split} \subseteq BOOLEAN
  BY <1>7, Zenon
<1> QED BY <1>1, <1>2, <1>3, <1>4, <1>5, <1>6, <1>8 DEF TypeOK

LEMMA TypeEnd ==
  ASSUME TypeInv, End, trouble' \in SUBSET Action, faults' \in 0..FaultBudget
  PROVE  TypeOK'
<1>1. Trail' = Trail
  BY DEF End, Trail, TypeInv, TypeOK, FlushInv, OnTheWay
<1>2. phase' \in [Action -> {"none", "acting", "acted", "recorded", "answered", "cut"}]
  BY DEF End, TypeInv, TypeOK
<1>3. entry' \in [Action -> {"none", "waiting", "writing", "written", "lost"}]
  BY DEF End, TypeInv, TypeOK
<1> QED BY <1>1, <1>2, <1>3 DEF End, TypeInv, TypeOK

LEMMA TypeList == ASSUME TypeInv, List PROVE TypeOK'
<1>1. /\ stage' \in {"asked", "done"}
      /\ page' \in Nat \ {0}
  BY DEF List, TypeInv, TypeOK
<1>2. PICK o \in Orders :
        LET from   == Offset(page, PageSize)
            listed == {o[i] : i \in {j \in DOMAIN o : from < j /\ j <= from + PageSize}}
        IN /\ shown' = [a \in Action |-> IF a \in listed THEN shown[a] + 1 ELSE shown[a]]
           /\ split' = (split \/ Splits(o, from) \/ Splits(o, from + PageSize))
  BY DEF List
<1>3. \A i \in DOMAIN o : o[i] \in Trail
  BY DEF Orders
<1>4. /\ shown' \in [Action -> Nat]
      /\ \A a \in Action \ Trail : shown'[a] = 0
      /\ split' \in BOOLEAN
  BY <1>2, <1>3 DEF TypeInv, TypeOK, Splits
<1>5. Trail' = Trail
  BY DEF List, writing, Trail
<1> QED BY <1>1, <1>4, <1>5 DEF List, writing, TypeInv, TypeOK

LEMMA TypeStep == TypeInv /\ [Next]_vars => TypeInv'
<1> SUFFICES ASSUME TypeInv, [Next]_vars PROVE TypeOK'
  BY FlushStep DEF TypeInv
<1>1. ASSUME NEW a \in Action,
             Act(a) \/ ActEnds(a) \/ Record(a) \/ Answer(a)
               \/ WriteStarts(a) \/ WriteEnds(a) \/ WriteFails(a)
      PROVE  TypeOK'
  BY <1>1, TypeAction
<1>2. CASE Signal
  BY <1>2 DEF Signal, writing, reading, screen, Trail, OnTheWay, TypeInv, TypeOK
<1>3. CASE Close
  BY <1>3 DEF Close, writing, reading, screen, Trail, TypeInv, TypeOK
<1>4. CASE Exit
  BY <1>4, TypeEnd DEF Exit, TypeInv, TypeOK
<1>5. CASE Kill
  BY <1>5, TypeEnd, Bounds DEF Kill, Spend, OnTheWay, TypeInv, TypeOK
<1>6. CASE Restart
  BY <1>6 DEF Restart, writing, reading, screen, Trail, TypeInv, TypeOK
<1>7. CASE Open
  BY <1>7 DEF Open, writing, Trail, TypeInv, TypeOK
<1>8. CASE Count
  <2>1. Cardinality(Trail) \in Nat
    BY Bounds, FS_Subset, FS_CardinalityType DEF Trail
  <2> QED BY <1>8, <2>1 DEF Count, writing, Trail, TypeInv, TypeOK
<1>9. CASE List
  BY <1>9, TypeList
<1>10. CASE UNCHANGED vars
  BY <1>10 DEF vars, writing, reading, screen, Trail, TypeInv, TypeOK
<1> QED BY <1>1, <1>2, <1>3, <1>4, <1>5, <1>6, <1>7, <1>8, <1>9, <1>10 DEF Next

LEMMA TypeInvariant == SafeSpec => []TypeInv
<1>1. Init => TypeInv
  BY TypeInit, FlushInit DEF TypeInv
<1> QED BY <1>1, TypeStep, PTL DEF SafeSpec

\* The process, the entries and the administrator's screen are well typed;
\* only entries that are in the trail are shown.
THEOREM TypeCorrect == SafeSpec => []TypeOK
<1>1. TypeInv => TypeOK
  BY DEF TypeInv
<1> QED BY <1>1, TypeInvariant, PTL
-----------------------------------------------------------------------------
(* Shutdowns *)

\* What a shutdown found on its way has left its handler, and is not on its way
\* any more when the process is down.
DownInv ==
  /\ \A a \in flight : entry[a] # "none"
  /\ mode = "down" => OnTheWay = {}

\* What a shutdown found on its way is written when the process is down, but
\* for what FlushedOnShutdown is violated by.
FlushedIfConnected ==
  mode = "down" => \A a \in flight \ (trouble \cup unflushed) : entry[a] = "written"

LEMMA DownStep == TypeInv /\ DownInv /\ [Next]_vars => DownInv'
<1> SUFFICES ASSUME TypeInv, DownInv, [Next]_vars PROVE DownInv'
  OBVIOUS
<1> USE DEF DownInv, OnTheWay, TypeInv, TypeOK, FlushInv
<1>1. ASSUME NEW a \in Action, Act(a) \/ ActEnds(a) \/ Record(a) \/ Answer(a)
      PROVE  DownInv'
  BY <1>1 DEF Act, ActEnds, Record, Answer, Running
<1>2. ASSUME NEW a \in Action, WriteStarts(a) \/ WriteEnds(a) \/ WriteFails(a)
      PROVE  DownInv'
  BY <1>2 DEF WriteStarts, WriteEnds, WriteFails
<1>3. CASE Signal \/ Close \/ Restart
  BY <1>3 DEF Signal, Close, Restart, writing
<1>4. CASE Exit \/ Kill
  BY <1>4 DEF Exit, Kill, End
<1>5. CASE Open \/ Count \/ List \/ UNCHANGED vars
  BY <1>5 DEF Open, Count, List, vars, writing
<1> QED BY <1>1, <1>2, <1>3, <1>4, <1>5 DEF Next

\* README.md:181, for the entries it is true of: a shutdown flushes every entry
\* on its way, but one whose INSERT had no connection when the pool was closed
\* or one that the database or a kill cost.
THEOREM ConnectedEntriesAreFlushed == SafeSpec => []FlushedIfConnected
<1>1. Init => DownInv
  BY DEF Init, DownInv
<1>2. TypeInv /\ DownInv => FlushedIfConnected
  BY DEF TypeInv, TypeOK, FlushInv, LossesExplained, DownInv, OnTheWay, FlushedIfConnected
<1> QED BY <1>1, <1>2, DownStep, TypeInvariant, PTL DEF SafeSpec
-----------------------------------------------------------------------------
(* Pages *)

LEMMA NextOffset ==
  ASSUME NEW n \in Nat \ {0}, NEW size \in Nat
  PROVE  /\ Offset(n, size) \in Nat
         /\ Offset(n + 1, size) = Offset(n, size) + size
         /\ Offset(1, size) = 0
<1>1. n - 1 \in Nat /\ (n + 1) - 1 = n
  OBVIOUS
<1>2. (n - 1) * size \in Nat /\ n * size = (n - 1) * size + size
  BY <1>1
<1> QED BY <1>1, <1>2 DEF Offset

\* A page that is said to be the last one reaches the end.
LEMMA LastPageReachesEnd ==
  ASSUME NEW n \in Nat \ {0}, NEW all \in Nat, NEW size \in Nat, size > 0,
         ~HasMore(n, all, size)
  PROVE  all <= Offset(n, size) + size
<1> DEFINE q == (all + size - 1) \div size
<1>1. /\ q \in Int
      /\ size * q <= all + size - 1
      /\ all + size - 1 < size * q + size
  OBVIOUS
<1>2. q <= n
  BY <1>1 DEF HasMore, TotalPages
<1>3. size * q <= size * n
  BY <1>1, <1>2
<1>4. Offset(n, size) + size = size * n
  BY DEF Offset
<1> QED BY <1>1, <1>3, <1>4

\* The entries that every SELECT lists before a.
Earlier(a) == {b \in Trail : Before(b, a)}
Above(a)   == Cardinality(Earlier(a))

LEMMA Ranks ==
  ASSUME NEW a
  PROVE  /\ IsFiniteSet(Trail) /\ Cardinality(Trail) \in Nat
         /\ IsFiniteSet(Earlier(a)) /\ Above(a) \in Nat
         /\ a \in Trail /\ TypeOK => Above(a) < Cardinality(Trail)
<1>1. IsFiniteSet(Trail) /\ Cardinality(Trail) \in Nat
  BY Bounds, FS_Subset, FS_CardinalityType DEF Trail
<1>2. Earlier(a) \in SUBSET Trail
  BY DEF Earlier
<1>3. /\ IsFiniteSet(Earlier(a)) /\ Above(a) \in Nat
      /\ Above(a) <= Cardinality(Trail)
      /\ Above(a) = Cardinality(Trail) => Earlier(a) = Trail
  BY <1>1, <1>2, FS_Subset, FS_CardinalityType DEF Above
<1>4. a \in Trail /\ TypeOK => a \notin Earlier(a)
  BY DEF Earlier, Before, TypeOK, Trail
<1> QED BY <1>1, <1>3, <1>4

\* In a SELECT's order, what comes before an entry's place was written later or
\* at the same time; an order without a tie at a place is cut there as ranks
\* are.
LEMMA CutAtRank ==
  ASSUME TypeOK, NEW o \in Orders, NEW p \in Nat, ~Splits(o, p), NEW j \in DOMAIN o
  PROVE  p < j <=> p <= Above(o[j])
<1> DEFINE N == Cardinality(Trail)
           E == Earlier(o[j])
<1>1. /\ N \in Nat /\ IsFiniteSet(Trail) /\ DOMAIN o = 1..N
      /\ \A i \in 1..N : o[i] \in Trail
      /\ \A i, k \in 1..N : i < k => o[i] # o[k] /\ createdAt[o[k]] <= createdAt[o[i]]
  <2>1. N \in Nat /\ IsFiniteSet(Trail)
    BY Ranks
  <2>2. /\ o \in [1..N -> Trail]
        /\ \A i, k \in DOMAIN o : i < k => o[i] # o[k] /\ ~Before(o[k], o[i])
    BY DEF Orders
  <2>3. \A b \in Trail : createdAt[b] \in Nat
    BY DEF TypeOK, Trail
  <2> QED BY <2>1, <2>2, <2>3 DEF Before
<1>2. IsFiniteSet(E) /\ Above(o[j]) = Cardinality(E) /\ Cardinality(E) \in Nat
  BY Ranks DEF Above
<1>3. o \in Surjection(1..N, Trail)
  <2>1. o \in Injection(1..N, Trail)
    BY <1>1 DEF Injection, IsInjective, Orders
  <2> QED BY <2>1, <1>1, FS_Injection, FS_Interval
<1>4. \A b \in E : \E i \in 1..N : i < j /\ b = o[i]
  <2> SUFFICES ASSUME NEW b \in E PROVE \E i \in 1..N : i < j /\ b = o[i]
    OBVIOUS
  <2>1. PICK i \in 1..N : b = o[i]
    BY <1>3 DEF Surjection, Earlier
  <2>2. createdAt[b] > createdAt[o[j]] /\ createdAt[b] \in Nat /\ createdAt[o[j]] \in Nat
    BY <1>1 DEF Earlier, Before, TypeOK, Trail
  <2>3. i < j
    BY <1>1, <2>1, <2>2
  <2> QED BY <2>1, <2>3
<1>5. Above(o[j]) < j
  <2> DEFINE f == [i \in 1..(j - 1) |-> o[i]]
             R == {f[i] : i \in 1..(j - 1)}
  <2>1. f \in Surjection(1..(j - 1), R)
    BY DEF Surjection
  <2>2. E \in SUBSET R
    BY <1>1, <1>4
  <2> HIDE DEF R, f
  <2>3. j \in Nat /\ 1 \in Int /\ j - 1 \in Int /\ 1 <= j
    BY <1>1
  <2>4. IsFiniteSet(1..(j - 1)) /\ Cardinality(1..(j - 1)) = j - 1
    <3>1. Cardinality(1..(j - 1)) = IF 1 > j - 1 THEN 0 ELSE (j - 1) - 1 + 1
      BY <2>3, FS_Interval
    <3> QED BY <2>3, <3>1, FS_Interval
  <2>5. IsFiniteSet(R) /\ Cardinality(R) <= j - 1
    BY <2>1, <2>4, FS_Surjection
  <2>6. Cardinality(R) \in Nat /\ Cardinality(E) <= Cardinality(R)
    BY <2>2, <2>5, FS_Subset, FS_CardinalityType
  <2> QED BY <1>1, <1>2, <2>3, <2>5, <2>6
<1>6. ASSUME p < j PROVE p <= Above(o[j])
  <2>1. p + 1 \in 1..N /\ (p > 0 => p \in 1..N)
    BY <1>1, <1>6
  <2>2. \A i \in 1..p : o[i] \in E
    <3> SUFFICES ASSUME NEW i \in 1..p PROVE o[i] \in E
      OBVIOUS
    <3>1. createdAt[o[p]] # createdAt[o[p + 1]]
      BY <1>1, <2>1 DEF Splits
    <3>2. /\ createdAt[o[i]] \in Nat /\ createdAt[o[p]] \in Nat
          /\ createdAt[o[p + 1]] \in Nat /\ createdAt[o[j]] \in Nat
      BY <1>1, <2>1 DEF TypeOK, Trail
    <3>3. createdAt[o[p + 1]] < createdAt[o[p]]
      BY <1>1, <2>1, <3>1, <3>2
    <3>4. createdAt[o[p]] <= createdAt[o[i]]
      BY <1>1, <2>1, <3>2
    <3>5. createdAt[o[j]] <= createdAt[o[p + 1]]
      BY <1>1, <1>6, <2>1, <3>2
    <3> QED BY <1>1, <2>1, <3>2, <3>3, <3>4, <3>5 DEF Earlier, Before
  <2> DEFINE g == [i \in 1..p |-> o[i]]
  <2>3. g \in Injection(1..p, E)
    BY <1>1, <2>1, <2>2 DEF Injection, IsInjective
  <2>4. Cardinality(1..p) <= Cardinality(E)
    BY <1>2, <2>3, FS_Injection
  <2> QED BY <1>2, <2>4, FS_Interval
<1> QED BY <1>1, <1>2, <1>5, <1>6

LEMMA AboveGrows ==
  ASSUME Trail \subseteq Trail', \A b \in Trail : createdAt'[b] = createdAt[b],
         NEW a \in Trail
  PROVE  /\ Above(a) \in Nat /\ Above(a)' \in Nat /\ Above(a) <= Above(a)'
         /\ Trail' = Trail => Above(a)' = Above(a)
<1>1. Earlier(a) \in SUBSET Earlier(a)'
  BY DEF Earlier, Before
<1>2. IsFiniteSet(Earlier(a)')
  <2>1. Trail' \in SUBSET Action /\ Earlier(a)' \in SUBSET Trail'
    BY DEF Trail, Earlier
  <2> QED BY <2>1, Bounds, FS_Subset
<1>3. Trail' = Trail => Earlier(a)' = Earlier(a)
  BY DEF Earlier, Before
<1> QED BY <1>1, <1>2, <1>3, FS_Subset, FS_CardinalityType DEF Above

\* Before the screen is open it has shown nothing.
Unopened == stage = "idle" => page = 1 /\ \A a \in Action : shown[a] = 0

\* What was counted is there to be listed, unless an entry came in between.
CountKept == stage = "counted" /\ ~raced => total = Cardinality(Trail)

MidPaging == stage \in {"asked", "counted"}

\* What there was at first and has not been shown is on the pages to come; when
\* there are none, there is nothing.
LeftAhead ==
  ~split /\ ~raced /\ MidPaging =>
    \A a \in begun : shown[a] = 0 => Offset(page, PageSize) <= Above(a)

NoneLeft ==
  ~split /\ ~raced /\ stage = "done" => \A a \in begun : shown[a] > 0

\* What has been shown is on the pages that are over.
ShownBehind ==
  ~split /\ ~moved =>
    \A a \in Action : /\ shown[a] <= 1
                      /\ shown[a] > 0 /\ MidPaging => Above(a) < Offset(page, PageSize)

PageInv == TypeInv /\ Unopened /\ CountKept /\ LeftAhead /\ NoneLeft /\ ShownBehind

LEMMA PageInit == Init => Unopened /\ CountKept /\ LeftAhead /\ NoneLeft /\ ShownBehind
  BY DEF Init, Unopened, CountKept, MidPaging, LeftAhead, NoneLeft, ShownBehind

\* A step that leaves the trail alone, and of the screen at most ends a page
\* under way.
LEMMA PageSame ==
  ASSUME PageInv, Trail' = Trail, \A a \in Trail : createdAt'[a] = createdAt[a],
         UNCHANGED <<page, total, begun, shown, moved, raced, split>>,
         stage' = stage \/ (stage = "counted" /\ stage' = "asked")
  PROVE  Unopened' /\ CountKept' /\ LeftAhead' /\ NoneLeft' /\ ShownBehind'
<1>1. /\ begun \subseteq Trail
      /\ \A a \in Action : shown[a] \in Nat /\ (shown[a] > 0 => a \in Trail)
  BY DEF PageInv, TypeInv, TypeOK
<1>2. \A a \in Trail : Above(a)' = Above(a)
  BY AboveGrows
<1>3. Unopened' /\ CountKept'
  BY DEF PageInv, Unopened, CountKept
<1>4. LeftAhead' /\ NoneLeft'
  BY <1>1, <1>2 DEF PageInv, LeftAhead, NoneLeft, MidPaging
<1>5. ShownBehind'
  BY <1>1, <1>2 DEF PageInv, ShownBehind, MidPaging
<1> QED BY <1>3, <1>4, <1>5

\* An entry that is written pushes others back, onto pages to come.
LEMMA PageWrite ==
  ASSUME PageInv, NEW a \in Action, WriteEnds(a)
  PROVE  Unopened' /\ CountKept' /\ LeftAhead' /\ NoneLeft' /\ ShownBehind'
<1>1. /\ UNCHANGED <<createdAt, stage, page, total, begun, shown, split>>
      /\ moved' = TRUE /\ raced' = (raced \/ stage = "counted")
      /\ Trail \subseteq Trail'
  BY DEF WriteEnds, screen, Trail, PageInv, TypeInv, TypeOK
<1>2. begun \subseteq Trail /\ PageSize \in Nat /\ page \in Nat \ {0}
  BY Bounds DEF PageInv, TypeInv, TypeOK
<1>3. \A b \in Trail : Above(b) <= Above(b)' /\ Above(b) \in Nat /\ Above(b)' \in Nat
  BY <1>1, AboveGrows
<1>4. Unopened' /\ CountKept' /\ ShownBehind' /\ NoneLeft'
  BY <1>1 DEF PageInv, Unopened, CountKept, ShownBehind, NoneLeft
<1>5. Offset(page, PageSize) \in Nat
  BY <1>2, NextOffset
<1>6. LeftAhead'
  <2> SUFFICES ASSUME ~split', ~raced', MidPaging', NEW b \in begun', shown'[b] = 0
               PROVE  Offset(page', PageSize) <= Above(b)'
    BY DEF LeftAhead
  <2>1. ~split /\ ~raced /\ MidPaging /\ b \in begun /\ shown[b] = 0
    BY <1>1, Zenon DEF MidPaging
  <2>2. Offset(page, PageSize) <= Above(b)
    BY <2>1 DEF PageInv, LeftAhead
  <2> QED BY <1>1, <1>2, <1>3, <1>5, <2>1, <2>2
<1> QED BY <1>4, <1>6

LEMMA PageOpen ==
  ASSUME PageInv, Open
  PROVE  Unopened' /\ CountKept' /\ LeftAhead' /\ NoneLeft' /\ ShownBehind'
<1>1. /\ UNCHANGED <<createdAt, page, shown, entry>> /\ stage' = "asked"
      /\ page = 1 /\ \A a \in Action : shown[a] = 0
  BY DEF Open, writing, PageInv, Unopened
<1>2. begun' \subseteq Action /\ Offset(page, PageSize)' = 0
  BY <1>1, Bounds, NextOffset DEF Open, Trail
<1>3. Trail' = Trail /\ \A a \in Trail : Above(a)' \in Nat
  BY <1>1, AboveGrows DEF Trail
<1>4. begun' = Trail /\ \A a \in Action : shown'[a] = 0
  BY <1>1 DEF Open
<1>5. Unopened' /\ CountKept' /\ NoneLeft'
  BY <1>1 DEF Unopened, CountKept, NoneLeft
<1>6. LeftAhead'
  BY <1>2, <1>3, <1>4 DEF LeftAhead
<1>7. ShownBehind'
  BY <1>4 DEF ShownBehind
<1> QED BY <1>5, <1>6, <1>7

LEMMA PageCount ==
  ASSUME PageInv, Count
  PROVE  Unopened' /\ CountKept' /\ LeftAhead' /\ NoneLeft' /\ ShownBehind'
<1>1. /\ UNCHANGED <<createdAt, page, begun, shown, moved, raced, split>>
      /\ stage = "asked" /\ stage' = "counted"
      /\ total' = Cardinality(Trail) /\ Trail' = Trail
  BY DEF Count, writing, Trail
<1>2. \A a \in Trail : Above(a)' = Above(a)
  BY <1>1, AboveGrows
<1>3. /\ begun \subseteq Trail
      /\ \A a \in Action : shown[a] \in Nat /\ (shown[a] > 0 => a \in Trail)
  BY DEF PageInv, TypeInv, TypeOK
<1>4. Unopened' /\ CountKept' /\ NoneLeft'
  BY <1>1 DEF Unopened, CountKept, NoneLeft
<1>5. LeftAhead'
  BY <1>1, <1>2, <1>3 DEF PageInv, LeftAhead, MidPaging
<1>6. ShownBehind'
  BY <1>1, <1>2, <1>3 DEF PageInv, ShownBehind, MidPaging
<1> QED BY <1>4, <1>5, <1>6

\* A page that no tie is cut by lists the entries of its ranks.
LEMMA ListedByRank ==
  ASSUME TypeOK, NEW o \in Orders, NEW from \in Nat, NEW size \in Nat,
         ~Splits(o, from), ~Splits(o, from + size), NEW a \in Trail
  PROVE  a \in {o[i] : i \in {j \in DOMAIN o : from < j /\ j <= from + size}}
           <=> from <= Above(a) /\ Above(a) < from + size
<1>1. /\ DOMAIN o = 1..Cardinality(Trail) /\ Cardinality(Trail) \in Nat
      /\ Above(a) \in Nat
      /\ \A i, j \in DOMAIN o : i < j => o[i] # o[j]
  BY Ranks DEF Orders
<1>2. PICK j \in DOMAIN o : o[j] = a
  <2>1. o \in Injection(1..Cardinality(Trail), Trail)
    BY <1>1 DEF Injection, IsInjective, Orders
  <2>2. o \in Surjection(1..Cardinality(Trail), Trail)
    BY <2>1, <1>1, Ranks, FS_Injection, FS_Interval
  <2> QED BY <1>1, <2>2 DEF Surjection
<1>3. from < j <=> from <= Above(a)
  BY <1>2, CutAtRank
<1>4. from + size < j <=> from + size <= Above(a)
  BY <1>2, CutAtRank
<1>5. a \in {o[i] : i \in {k \in DOMAIN o : from < k /\ k <= from + size}}
        <=> from < j /\ j <= from + size
  BY <1>1, <1>2
<1> QED BY <1>1, <1>3, <1>4, <1>5

LEMMA PageList ==
  ASSUME PageInv, List
  PROVE  Unopened' /\ CountKept' /\ LeftAhead' /\ NoneLeft' /\ ShownBehind'
<1> DEFINE from == Offset(page, PageSize)
           Listed(a) == from <= Above(a) /\ Above(a) < from + PageSize
<1>1. /\ UNCHANGED <<createdAt, begun, moved, raced, total>> /\ stage = "counted"
      /\ Trail' = Trail
      /\ \/ HasMore(page, total, PageSize) /\ stage' = "asked" /\ page' = page + 1
         \/ ~HasMore(page, total, PageSize) /\ stage' = "done" /\ page' = page
  BY DEF List, writing, Trail
<1>2. /\ TypeOK /\ page \in Nat \ {0} /\ total \in Nat /\ begun \subseteq Trail
      /\ \A a \in Action : shown[a] \in Nat /\ (shown[a] > 0 => a \in Trail)
  BY DEF PageInv, TypeInv, TypeOK
<1>3. /\ PageSize \in Nat /\ PageSize > 0 /\ from \in Nat
      /\ Offset(page + 1, PageSize) = from + PageSize
  BY <1>2, Bounds, NextOffset
<1>4. \A a \in Trail : Above(a)' = Above(a) /\ Above(a) \in Nat
  BY <1>1, AboveGrows
<1>5. ~split' =>
        /\ ~split
        /\ \A a \in Action :
             shown'[a] = IF a \in Trail /\ Listed(a) THEN shown[a] + 1 ELSE shown[a]
  <2> SUFFICES ASSUME ~split'
               PROVE  /\ ~split
                      /\ \A a \in Action :
                           shown'[a] = IF a \in Trail /\ Listed(a)
                                       THEN shown[a] + 1 ELSE shown[a]
    OBVIOUS
  <2>1. PICK o \in Orders :
          LET listed == {o[i] : i \in {j \in DOMAIN o : from < j /\ j <= from + PageSize}}
          IN /\ shown' = [a \in Action |-> IF a \in listed THEN shown[a] + 1 ELSE shown[a]]
             /\ split' = (split \/ Splits(o, from) \/ Splits(o, from + PageSize))
    BY DEF List
  <2>2. ~split /\ ~Splits(o, from) /\ ~Splits(o, from + PageSize)
    BY <2>1, Zenon
  <2> DEFINE listed == {o[i] : i \in {j \in DOMAIN o : from < j /\ j <= from + PageSize}}
  <2>3. \A a \in Trail : a \in listed <=> Listed(a)
    BY <1>2, <1>3, <2>2, ListedByRank
  <2>4. listed \subseteq Trail
    BY DEF Orders
  <2> QED BY <2>1, <2>2, <2>3, <2>4
<1> HIDE DEF from
<1>6. Unopened' /\ CountKept'
  BY <1>1 DEF Unopened, CountKept
<1>7. LeftAhead'
  <2> SUFFICES ASSUME ~split', ~raced', stage' = "asked", NEW a \in begun, shown'[a] = 0
               PROVE  from + PageSize <= Above(a)
    BY <1>1, <1>2, <1>3, <1>4 DEF LeftAhead, MidPaging
  <2>1. a \in Trail /\ a \in Action /\ shown[a] = 0 /\ ~Listed(a)
    BY <1>2, <1>5 DEF Trail
  <2>2. from <= Above(a)
    BY <1>1, <1>5, <2>1 DEF PageInv, LeftAhead, MidPaging, from
  <2> QED BY <1>3, <1>4, <2>1, <2>2
<1>8. NoneLeft'
  <2> SUFFICES ASSUME ~split', ~raced', stage' = "done", NEW a \in begun, shown'[a] = 0
               PROVE  FALSE
    BY <1>1, <1>2, <1>5 DEF NoneLeft, Trail
  <2>1. a \in Trail /\ a \in Action /\ shown[a] = 0 /\ ~Listed(a)
    BY <1>2, <1>5 DEF Trail
  <2>2. from <= Above(a)
    BY <1>1, <1>5, <2>1 DEF PageInv, LeftAhead, MidPaging, from
  <2>3. total = Cardinality(Trail)
    BY <1>1 DEF PageInv, CountKept
  <2>4. total <= from + PageSize
    BY <1>1, <1>2, <1>3, LastPageReachesEnd DEF from
  <2>5. Above(a) < Cardinality(Trail) /\ Cardinality(Trail) \in Nat
    BY <1>2, <2>1, Ranks
  <2> QED BY <1>3, <1>4, <2>1, <2>2, <2>3, <2>4, <2>5
<1>9. ShownBehind'
  <2> SUFFICES ASSUME ~split', ~moved', NEW a \in Action
               PROVE  /\ shown'[a] <= 1
                      /\ shown'[a] > 0 /\ stage' = "asked" => Above(a)' < from + PageSize
    BY <1>1, <1>3 DEF ShownBehind, MidPaging
  <2>1. shown[a] <= 1 /\ (shown[a] > 0 => Above(a) < from)
    BY <1>1, <1>5 DEF PageInv, ShownBehind, MidPaging, from
  <2> QED BY <1>1, <1>2, <1>3, <1>4, <1>5, <2>1
<1> QED BY <1>6, <1>7, <1>8, <1>9

LEMMA PageStep == PageInv /\ [Next]_vars => PageInv'
<1> SUFFICES ASSUME PageInv, [Next]_vars
             PROVE  Unopened' /\ CountKept' /\ LeftAhead' /\ NoneLeft' /\ ShownBehind'
  BY TypeStep DEF PageInv
<1> USE DEF reading, screen
<1>1. ASSUME NEW a \in Action, Act(a) \/ ActEnds(a) \/ Record(a) \/ Answer(a)
                                 \/ WriteStarts(a) \/ WriteFails(a)
      PROVE  Unopened' /\ CountKept' /\ LeftAhead' /\ NoneLeft' /\ ShownBehind'
  <2>1. Trail' = Trail /\ \A b \in Trail : createdAt'[b] = createdAt[b]
    BY <1>1 DEF Act, ActEnds, Record, Answer, WriteStarts, WriteFails, Trail,
                PageInv, TypeInv, TypeOK, FlushInv
  <2>2. UNCHANGED <<stage, page, total, begun, shown, moved, raced, split>>
    BY <1>1 DEF Act, ActEnds, Record, Answer, WriteStarts, WriteFails
  <2> QED BY <2>1, <2>2, PageSame
<1>2. ASSUME NEW a \in Action, WriteEnds(a)
      PROVE  Unopened' /\ CountKept' /\ LeftAhead' /\ NoneLeft' /\ ShownBehind'
  BY <1>2, PageWrite
<1>3. CASE Signal \/ Close \/ Restart \/ UNCHANGED vars
  <2>1. Trail' = Trail /\ UNCHANGED createdAt /\ UNCHANGED reading
    BY <1>3 DEF Signal, Close, Restart, vars, writing, Trail
  <2> QED BY <2>1, PageSame
<1>4. CASE Exit \/ Kill
  <2>1. /\ Trail' = Trail /\ UNCHANGED createdAt
        /\ UNCHANGED <<page, total, begun, shown, moved, raced, split>>
        /\ stage' = stage \/ (stage = "counted" /\ stage' = "asked")
    BY <1>4 DEF Exit, Kill, End, OnTheWay, Trail, PageInv, TypeInv, TypeOK, FlushInv
  <2> QED BY <2>1, PageSame
<1>5. CASE Open
  BY <1>5, PageOpen
<1>6. CASE Count
  BY <1>6, PageCount
<1>7. CASE List
  BY <1>7, PageList
<1> QED BY <1>1, <1>2, <1>3, <1>4, <1>5, <1>6, <1>7 DEF Next

\* However many entries are written while an administrator reads, whatever the
\* page size and however the process is stopped between two pages, an entry
\* that was there at first is missed, or one is shown twice, only for a reason
\* that PagesExplained names.
THEOREM PagesAreExplained == SafeSpec => []PagesExplained
<1>1. Init => PageInv
  BY PageInit, TypeInit, FlushInit DEF PageInv, TypeInv
<1>2. PageInv => PagesExplained
  <2> SUFFICES ASSUME PageInv, ~split PROVE PagesExplained
    BY DEF PagesExplained
  <2>1. stage = "done" => raced \/ \A a \in begun : shown[a] > 0
    BY DEF PageInv, NoneLeft
  <2>2. (\E a \in Action : shown[a] > 1) => moved
    BY DEF PageInv, ShownBehind, TypeInv, TypeOK
  <2> QED BY <2>1, <2>2 DEF PagesExplained
<1> QED BY <1>1, <1>2, PageStep, PTL DEF SafeSpec
=============================================================================
