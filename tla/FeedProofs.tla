------------------------------ MODULE FeedProofs ------------------------------
(***************************************************************************)
(* Proofs about Feed, for any rows, resources, access and page size.       *)
(*                                                                         *)
(* A row's rank is how many rows of the list come before it, so a page     *)
(* lists the rows of its ranks.  Arrivals only push rows back, to pages to *)
(* come (LeftAhead); if nothing arrives, marking rows read only pulls      *)
(* others forward, to pages that are over (ShownBehind).                   *)
(***************************************************************************)
EXTENDS Feed, FiniteSetTheorems, TLAPS

LEMMA Bounds ==
  /\ Row \subseteq Nat /\ IsFiniteSet(Row)
  /\ PageSize \in Nat /\ PageSize > 0
<1>1. Asked \in 1..100 => Asked \in Nat /\ Asked > 0
  OBVIOUS
<1> QED BY <1>1, FeedAssumption DEF FeedAssumption, PageSize, SizeOf
-----------------------------------------------------------------------------
(* Types *)

LEMMA ListTyped ==
  ASSUME TypeOK, NEW unread
  PROVE  /\ Matching(unread) \subseteq visible /\ Matching(unread) \subseteq Row
         /\ IsFiniteSet(Matching(unread)) /\ Cardinality(Matching(unread)) \in Nat
<1>1. Matching(unread) \subseteq visible /\ Matching(unread) \in SUBSET Row
  BY DEF Matching, TypeOK
<1> QED BY <1>1, Bounds, FS_Subset, FS_CardinalityType

LEMMA TypeStep == TypeOK /\ [Next]_vars => TypeOK'
<1> SUFFICES ASSUME TypeOK, [Next]_vars PROVE TypeOK'
  OBVIOUS
<1> USE DEF TypeOK, rows, screen, history
<1>1. ASSUME NEW n \in Row, NEW v \in BOOLEAN, Create(n, v) PROVE TypeOK'
  BY <1>1 DEF Create
<1>2. ASSUME NEW n \in Row, MarkRead(n) PROVE TypeOK'
  BY <1>2 DEF MarkRead, Unread
<1>3. CASE MarkAllRead
  BY <1>3 DEF MarkAllRead, Unread
<1>4. ASSUME NEW unread \in BOOLEAN, Open(unread) PROVE TypeOK'
  BY <1>4, ListTyped DEF Open
<1>5. CASE CountForUser
  BY <1>5, ListTyped DEF CountForUser
<1>6. CASE ListForUser
  BY <1>6 DEF ListForUser
<1>7. CASE UNCHANGED vars
  BY <1>7 DEF vars
<1> QED BY <1>1, <1>2, <1>3, <1>4, <1>5, <1>6, <1>7 DEF Next

LEMMA InitTyped == Init => TypeOK
<1> SUFFICES ASSUME Init PROVE TypeOK
  OBVIOUS
<1>1. unreadOnly \in BOOLEAN /\ moved \in BOOLEAN /\ cleared \in BOOLEAN /\ raced \in BOOLEAN
  BY Zenon DEF Init
<1>2. shown \in [Row -> Nat] /\ stage = "idle" /\ page = 1 /\ total = 0
  BY DEF Init
<1>3. there = {} /\ visible = {} /\ read = {} /\ begun = {}
  BY DEF Init
<1> QED BY <1>1, <1>2, <1>3 DEF TypeOK

\* The table and the screen are well typed, and the reader had to see at first
\* only rows of the table.
THEOREM TypeCorrect == SafeSpec => []TypeOK
  BY InitTyped, TypeStep, PTL DEF SafeSpec
-----------------------------------------------------------------------------
(* Pages *)

LEMMA NextOffset ==
  ASSUME NEW n \in Nat \ {0}, NEW size \in Nat
  PROVE  /\ Offset(n, size) \in Nat
         /\ Offset(n + 1, size) = Offset(n, size) + size
         /\ Offset(1, size) = 0
<1>1. n - 1 \in Nat /\ (n + 1) - 1 = n
  OBVIOUS
<1>2. (n - 1) * size \in Nat /\ n * size = (n - 1) * size + size
  BY <1>1
<1> QED BY <1>1, <1>2 DEF Offset

\* A page that is said to be the last one reaches the end.
LEMMA LastPageReachesEnd ==
  ASSUME NEW n \in Nat \ {0}, NEW all \in Nat, NEW size \in Nat, size > 0,
         ~HasMore(n, all, size)
  PROVE  all <= Offset(n, size) + size
<1> DEFINE q == (all + size - 1) \div size
<1>1. /\ q \in Int
      /\ size * q <= all + size - 1
      /\ all + size - 1 < size * q + size
  OBVIOUS
<1>2. q <= n
  BY <1>1 DEF HasMore, TotalPages
<1>3. size * q <= size * n
  BY <1>1, <1>2
<1>4. Offset(n, size) + size = size * n
  BY DEF Offset
<1> QED BY <1>1, <1>3, <1>4

List     == Matching(unreadOnly)
Ahead(n) == {m \in List : m > n}

LEMMA Ranks ==
  ASSUME TypeOK, NEW n \in Row
  PROVE  /\ IsFiniteSet(Ahead(n)) /\ Rank(n) = Cardinality(Ahead(n)) /\ Rank(n) \in Nat
         /\ n \in List => Rank(n) < Cardinality(List)
<1>1. Ahead(n) \in SUBSET List /\ IsFiniteSet(List)
  BY ListTyped DEF Ahead, List
<1>2. Rank(n) = Cardinality(Ahead(n))
  BY DEF Rank, Ahead, List
<1>3. n \in Nat /\ n \notin Ahead(n)
  BY Bounds DEF Ahead
<1> QED BY <1>1, <1>2, <1>3, FS_Subset, FS_CardinalityType

\* A list that grows pushes rows back, one that shrinks pulls them forward.
LEMMA RankFollowsList ==
  ASSUME TypeOK, TypeOK', NEW n \in Row
  PROVE  /\ List \subseteq List' => Rank(n) <= Rank(n)'
         /\ List' \subseteq List => Rank(n)' <= Rank(n)
         /\ Rank(n) \in Nat /\ Rank(n)' \in Nat
<1>1. /\ List \subseteq List' => Ahead(n) \in SUBSET Ahead(n)'
      /\ List' \subseteq List => Ahead(n)' \in SUBSET Ahead(n)
  BY DEF Ahead
<1>2. IsFiniteSet(Ahead(n)) /\ Rank(n) = Cardinality(Ahead(n))
  BY Ranks
<1>3. IsFiniteSet(Ahead(n)') /\ Rank(n)' = Cardinality(Ahead(n)')
  <2>1. Ahead(n)' \in SUBSET Row
    BY DEF Ahead, List, Matching, TypeOK
  <2> QED BY <2>1, Bounds, FS_Subset DEF Rank, Ahead, List
<1> QED BY <1>1, <1>2, <1>3, FS_Subset, FS_CardinalityType

MidPaging == stage \in {"asked", "counted"}

\* The reasons for which a reader may miss rows.
Excused == raced \/ (unreadOnly /\ cleared)

\* Before the screen is open it has shown nothing.
Unopened == stage = "idle" => page = 1 /\ \A n \in Row : shown[n] = 0

\* What was counted is there to be listed, unless a row came in between.
CountKept == stage = "counted" /\ ~Excused => total = Cardinality(List)

\* What there was at first to see has not left the list.
InSight == stage # "idle" /\ ~Excused => begun \subseteq List

\* What there was and has not been shown is on the pages to come; when there
\* are none, there is nothing.
LeftAhead ==
  MidPaging /\ ~Excused =>
    \A n \in begun : shown[n] = 0 => Offset(page, PageSize) <= Rank(n)

NoneLeft == stage = "done" /\ ~Excused => \A n \in begun : shown[n] > 0

\* What has been shown, and is still in the list, is on the pages that are over.
ShownBehind ==
  ~moved => \A n \in Row :
    /\ shown[n] <= 1
    /\ MidPaging /\ shown[n] > 0 /\ n \in List => Rank(n) < Offset(page, PageSize)

\* Only rows of the feed have been shown, and they stay in it.
ShownVisible == \A n \in Row : shown[n] > 0 => n \in visible

PageParts ==
  Unopened /\ CountKept /\ InSight /\ LeftAhead /\ NoneLeft /\ ShownBehind /\ ShownVisible

PageInv == TypeOK /\ PageParts

LEMMA PageInit == Init => PageParts
<1> SUFFICES ASSUME Init PROVE PageParts
  OBVIOUS
<1>1. /\ stage = "idle" /\ page = 1 /\ \A n \in Row : shown[n] = 0
      /\ stage # "counted" /\ stage # "done" /\ ~MidPaging
  BY DEF Init, MidPaging
<1> QED BY <1>1 DEF PageParts, Unopened, CountKept, InSight, LeftAhead, NoneLeft,
                    ShownBehind, ShownVisible

\* What a change of the rows must not do to a screen that is open.
LEMMA RowsChange ==
  ASSUME PageInv, TypeOK', UNCHANGED <<screen, begun, shown>>, visible \subseteq visible',
         Excused => Excused', moved => moved',
         ~Excused' => List \subseteq List',
         ~Excused' /\ stage = "counted" => List' = List,
         ~moved' => List' \subseteq List
  PROVE  PageParts'
<1>1. TypeOK /\ Unopened /\ CountKept /\ InSight /\ LeftAhead /\ NoneLeft /\ ShownBehind
      /\ ShownVisible
  BY DEF PageInv, PageParts
<1>2. begun \subseteq Row /\ Offset(page, PageSize) \in Nat
  BY <1>1, Bounds, NextOffset DEF TypeOK
<1>3. UNCHANGED <<stage, page, total>>
  BY DEF screen
<1>4. MidPaging' <=> MidPaging
  BY <1>3 DEF MidPaging
<1>5. Unopened' /\ ShownVisible'
  BY <1>1, <1>3 DEF Unopened, ShownVisible
<1>6. CountKept' /\ InSight' /\ NoneLeft'
  BY <1>1, <1>3 DEF CountKept, InSight, NoneLeft
<1>7. LeftAhead'
  <2> SUFFICES ASSUME MidPaging, ~Excused', NEW n \in begun, shown[n] = 0
               PROVE  Offset(page, PageSize) <= Rank(n)'
    BY <1>3, <1>4 DEF LeftAhead
  <2>1. Offset(page, PageSize) <= Rank(n)
    BY <1>1 DEF LeftAhead
  <2>2. Rank(n) <= Rank(n)' /\ Rank(n) \in Nat /\ Rank(n)' \in Nat
    BY <1>1, <1>2, RankFollowsList
  <2> QED BY <1>2, <2>1, <2>2
<1>8. ShownBehind'
  <2> SUFFICES ASSUME ~moved', NEW n \in Row
               PROVE  /\ shown[n] <= 1
                      /\ MidPaging /\ shown[n] > 0 /\ n \in List'
                           => Rank(n)' < Offset(page, PageSize)
    BY <1>3, <1>4 DEF ShownBehind
  <2>1. /\ shown[n] <= 1
        /\ MidPaging /\ shown[n] > 0 /\ n \in List => Rank(n) < Offset(page, PageSize)
    BY <1>1 DEF ShownBehind
  <2>2. Rank(n)' <= Rank(n) /\ Rank(n) \in Nat /\ Rank(n)' \in Nat
    BY <1>1, RankFollowsList
  <2> QED BY <1>2, <2>1, <2>2
<1> QED BY <1>5, <1>6, <1>7, <1>8 DEF PageParts

LEMMA PageCreate ==
  ASSUME PageInv, TypeOK', NEW n \in Row, NEW v \in BOOLEAN, Create(n, v)
  PROVE  PageParts'
<1>1. /\ UNCHANGED <<read, screen, begun, shown, cleared, stage, unreadOnly>>
      /\ visible' = IF v THEN visible \cup {n} ELSE visible
      /\ moved' = (moved \/ (v /\ InReach(n)))
      /\ raced' = (raced \/ (v /\ InReach(n) /\ stage = "counted"))
  BY DEF Create, screen
<1>2. visible \subseteq visible' /\ List \subseteq List'
  BY <1>1 DEF List, Matching
<1>3. CASE v /\ InReach(n)
  <2>1. moved' /\ (stage = "counted" => raced')
    BY <1>1, <1>3, Zenon
  <2>2. Excused => Excused'
    BY <1>1, Zenon DEF Excused
  <2>3. stage = "counted" => Excused'
    BY <2>1 DEF Excused
  <2> QED BY <1>1, <1>2, <2>1, <2>2, <2>3, RowsChange
<1>4. CASE ~(v /\ InReach(n))
  <2>1. List' = List
    BY <1>1, <1>4 DEF List, Matching, InReach
  <2>2. (moved => moved') /\ (Excused => Excused')
    BY <1>1, Zenon DEF Excused
  <2> QED BY <1>1, <1>2, <2>1, <2>2, RowsChange
<1> QED BY <1>3, <1>4

LEMMA PageMark ==
  ASSUME PageInv, TypeOK', MarkAllRead \/ \E n \in Row : MarkRead(n)
  PROVE  PageParts'
<1>1. /\ UNCHANGED <<visible, screen, begun, shown, moved, raced, unreadOnly>>
      /\ read \subseteq read'
      /\ cleared => cleared'
  BY Zenon DEF MarkAllRead, MarkRead, screen
<1>2. List' \subseteq List
  BY <1>1 DEF List, Matching
<1>3. ~Excused' => List \subseteq List'
  <2> SUFFICES ASSUME ~Excused', unreadOnly PROVE Matching(TRUE) \subseteq Matching(TRUE)'
    BY <1>1 DEF List, Matching
  <2>1. ~cleared'
    BY <1>1 DEF Excused
  <2>2. CASE MarkAllRead
    <3>1. Matching(TRUE) = {}
      BY <2>1, <2>2, Zenon DEF MarkAllRead
    <3> QED BY <3>1
  <2>3. ASSUME NEW n \in Row, MarkRead(n) PROVE Matching(TRUE) \subseteq Matching(TRUE)'
    <3>1. n \notin Matching(TRUE)
      BY <2>1, <2>3, Zenon DEF MarkRead
    <3>2. read' = read \cup {n} /\ visible' = visible
      BY <2>3 DEF MarkRead
    <3> QED BY <3>1, <3>2 DEF Matching, InReach
  <2> QED BY <2>2, <2>3
<1>4. Excused => Excused'
  BY <1>1, Zenon DEF Excused
<1> QED BY <1>1, <1>2, <1>3, <1>4, RowsChange

LEMMA PageOpen ==
  ASSUME PageInv, TypeOK', NEW unread \in BOOLEAN, Open(unread)
  PROVE  PageParts'
<1>1. /\ stage' = "asked" /\ page' = 1 /\ begun' = List'
      /\ \A n \in Row : shown'[n] = 0
  BY DEF Open, rows, List, Matching, InReach, PageInv, PageParts, Unopened
<1>2. Offset(page', PageSize) = 0
  BY <1>1, Bounds, NextOffset
<1>3. \A n \in begun' : Rank(n)' \in Nat
  BY <1>1, RankFollowsList, ListTyped DEF PageInv, TypeOK
<1>4. Unopened' /\ CountKept' /\ InSight' /\ NoneLeft'
  BY <1>1 DEF Unopened, CountKept, InSight, NoneLeft
<1>5. LeftAhead'
  BY <1>1, <1>2, <1>3 DEF LeftAhead
<1>6. ShownBehind' /\ ShownVisible'
  BY <1>1 DEF ShownBehind, ShownVisible
<1> QED BY <1>4, <1>5, <1>6 DEF PageParts

\* The COUNT and the SELECT leave the rows, and the list, as they are.
LEMMA PageCount ==
  ASSUME PageInv, CountForUser
  PROVE  PageParts'
<1>1. /\ UNCHANGED <<rows, unreadOnly, page, history>> /\ UNCHANGED <<begun, shown, visible>>
      /\ stage = "asked" /\ stage' = "counted" /\ total' = Cardinality(List)
  BY DEF CountForUser, List, history, rows
<1>2. List' = List /\ (Excused' <=> Excused) /\ (moved' <=> moved) /\ MidPaging
  BY <1>1, Zenon DEF rows, history, List, Matching, InReach, Excused, MidPaging
<1>3. \A n \in Row : Rank(n)' = Rank(n)
  BY <1>2 DEF Rank, List
<1>4. /\ TypeOK /\ InSight /\ LeftAhead /\ ShownBehind /\ ShownVisible
      /\ begun \subseteq Row
  BY DEF PageInv, PageParts, TypeOK
<1>5. Unopened' /\ CountKept' /\ NoneLeft' /\ ShownVisible'
  BY <1>1, <1>2, <1>4 DEF Unopened, CountKept, NoneLeft, ShownVisible
<1>6. InSight'
  BY <1>1, <1>2, <1>4 DEF InSight
<1>7. LeftAhead'
  BY <1>1, <1>2, <1>3, <1>4 DEF LeftAhead
<1>8. ShownBehind'
  BY <1>1, <1>2, <1>3, <1>4 DEF ShownBehind
<1> QED BY <1>5, <1>6, <1>7, <1>8 DEF PageParts

LEMMA PageList ==
  ASSUME PageInv, ListForUser
  PROVE  PageParts'
<1> DEFINE from == Offset(page, PageSize)
<1>1. /\ UNCHANGED <<rows, unreadOnly, total, begun, moved, cleared, raced, visible>>
      /\ stage = "counted"
      /\ \/ HasMore(page, total, PageSize) /\ stage' = "asked" /\ page' = page + 1
         \/ ~HasMore(page, total, PageSize) /\ stage' = "done" /\ page' = page
      /\ \A n \in Row : shown'[n] = IF n \in Listed THEN shown[n] + 1 ELSE shown[n]
  BY DEF ListForUser, rows
<1>2. List' = List /\ (Excused' <=> Excused) /\ (moved' <=> moved) /\ MidPaging
  BY <1>1, Zenon DEF rows, List, Matching, InReach, Excused, MidPaging
<1>3. \A n \in Row : Rank(n)' = Rank(n)
  BY <1>2 DEF Rank, List
<1>4. /\ TypeOK /\ CountKept /\ InSight /\ LeftAhead /\ ShownBehind /\ ShownVisible
      /\ begun \subseteq Row /\ page \in Nat \ {0} /\ total \in Nat
      /\ \A n \in Row : shown[n] \in Nat
  BY DEF PageInv, PageParts, TypeOK
<1>5. /\ PageSize \in Nat /\ PageSize > 0 /\ from \in Nat
      /\ Offset(page + 1, PageSize) = from + PageSize
  BY <1>4, Bounds, NextOffset
<1>6. \A n \in Row : Rank(n) \in Nat /\ (n \in List => Rank(n) < Cardinality(List))
  BY <1>4, Ranks
<1>7. /\ Listed = {n \in List : from <= Rank(n) /\ Rank(n) < from + PageSize}
      /\ List \subseteq visible /\ List \subseteq Row /\ Cardinality(List) \in Nat
  BY <1>4, ListTyped DEF Listed, List
<1> HIDE DEF from
<1>8. Unopened' /\ CountKept' /\ InSight' /\ ShownVisible'
  BY <1>1, <1>2, <1>4, <1>7 DEF Unopened, CountKept, InSight, ShownVisible
<1>9. \A n \in begun : ~Excused => n \in List /\ (shown[n] = 0 => from <= Rank(n))
  BY <1>1, <1>2, <1>4 DEF InSight, LeftAhead, from
<1>10. LeftAhead'
  <2> SUFFICES ASSUME ~Excused, stage' = "asked", NEW n \in begun, shown'[n] = 0
               PROVE  from + PageSize <= Rank(n)
    BY <1>1, <1>2, <1>3, <1>4, <1>5 DEF LeftAhead, MidPaging
  <2>1. n \notin Listed /\ shown[n] = 0
    BY <1>1, <1>4
  <2> QED BY <1>4, <1>5, <1>6, <1>7, <1>9, <2>1
<1>11. NoneLeft'
  <2> SUFFICES ASSUME ~Excused, stage' = "done", NEW n \in begun, ~(shown'[n] > 0)
               PROVE  FALSE
    BY <1>1, <1>2 DEF NoneLeft
  <2>1. n \notin Listed /\ shown[n] = 0
    BY <1>1, <1>4
  <2>2. total = Cardinality(List)
    BY <1>1, <1>4 DEF CountKept
  <2>3. total <= from + PageSize
    BY <1>1, <1>4, <1>5, LastPageReachesEnd DEF from
  <2> QED BY <1>4, <1>5, <1>6, <1>7, <1>9, <2>1, <2>2, <2>3
<1>12. ShownBehind'
  <2> SUFFICES ASSUME ~moved, NEW n \in Row
               PROVE  /\ shown'[n] <= 1
                      /\ stage' = "asked" /\ shown'[n] > 0 /\ n \in List
                           => Rank(n) < from + PageSize
    BY <1>1, <1>2, <1>3, <1>5 DEF ShownBehind, MidPaging
  <2>1. shown[n] <= 1 /\ (shown[n] > 0 /\ n \in List => Rank(n) < from)
    BY <1>2, <1>4 DEF ShownBehind, from
  <2> QED BY <1>1, <1>4, <1>5, <1>6, <1>7, <2>1
<1> QED BY <1>8, <1>10, <1>11, <1>12 DEF PageParts

LEMMA PageStep == PageInv /\ [Next]_vars => PageInv'
<1> SUFFICES ASSUME PageInv, TypeOK', [Next]_vars PROVE PageParts'
  BY TypeStep DEF PageInv
<1>1. ASSUME NEW n \in Row, NEW v \in BOOLEAN, Create(n, v) PROVE PageParts'
  BY <1>1, PageCreate
<1>2. CASE MarkAllRead \/ \E n \in Row : MarkRead(n)
  BY <1>2, PageMark
<1>3. ASSUME NEW unread \in BOOLEAN, Open(unread) PROVE PageParts'
  BY <1>3, PageOpen
<1>4. CASE CountForUser
  BY <1>4, PageCount
<1>5. CASE ListForUser
  BY <1>5, PageList
<1>6. CASE UNCHANGED vars
  <2>1. List' = List /\ (Excused' <=> Excused)
    BY <1>6, Zenon DEF vars, rows, screen, history, List, Matching, InReach, Excused
  <2>2. /\ UNCHANGED <<screen, begun, shown, visible>>
        /\ moved => moved'
    BY <1>6, Zenon DEF vars, rows, history
  <2> QED BY <2>1, <2>2, RowsChange
<1> QED BY <1>1, <1>2, <1>3, <1>4, <1>5, <1>6 DEF Next

\* However many notifications arrive and are read while the user pages, and
\* whatever the page size, a row that was there to see is missed, or one is
\* shown twice, only for a reason that PagesExplained names.
THEOREM PagesAreExplained == SafeSpec => []PagesExplained
<1>1. Init => PageInv
  BY PageInit, InitTyped DEF PageInv
<1>2. PageInv => PagesExplained
  <2> SUFFICES ASSUME PageInv PROVE PagesExplained
    OBVIOUS
  <2>1. stage = "done" => \/ \A n \in begun : shown[n] > 0
                          \/ raced
                          \/ unreadOnly /\ cleared
    BY DEF PageInv, PageParts, NoneLeft, Excused
  <2>2. (\E n \in Row : shown[n] > 1) => moved
    BY DEF PageInv, PageParts, ShownBehind, TypeOK
  <2> QED BY <2>1, <2>2 DEF PagesExplained
<1> QED BY <1>1, <1>2, PageStep, PTL DEF SafeSpec
=============================================================================
