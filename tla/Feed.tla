--------------------------------- MODULE Feed ---------------------------------
(***************************************************************************)
(* One user's in-app feed (src/notifications/store.go) and the "view all"  *)
(* screen that pages through it (src/controllers/notifications.go,         *)
(* History): each page is one COUNT and one SELECT with an offset, while   *)
(* notifications arrive and are marked read.                               *)
(*                                                                         *)
(* A row is its sort key, created_at and id: the larger, the newer.  Rows  *)
(* may arrive out of key order, as created_at is when an INSERT began.     *)
(***************************************************************************)
EXTENDS Paging, FiniteSets

CONSTANTS
  Row,         \* bound: the notifications that ever arrive, by sort key
  ResourceOf,  \* the resource a notification is about
  Accessible,  \* resources the user's token names; none: no restriction
  Asked        \* the page size the screen asks for

ASSUME FeedAssumption == /\ Row \subseteq Nat /\ IsFiniteSet(Row)
                         /\ Row = DOMAIN ResourceOf
                         /\ Asked \in Nat

VARIABLES
  there, visible, read,  \* rows of the table, those in the feed, those read
  \* the screen, from its first page to its last
  stage,       \* idle, asked, counted or done
  unreadOnly,
  page, total,
  \* history, since the screen was opened
  begun,       \* what there was to see
  shown,       \* how often each row was shown
  moved,       \* a row has arrived
  cleared,     \* a row was marked read
  raced        \* a row arrived between a page's COUNT and its SELECT

rows    == <<there, visible, read>>
screen  == <<stage, unreadOnly, page, total>>
history == <<begun, shown, moved, cleared, raced>>
vars    == <<rows, screen, history>>

TypeOK ==
  /\ there \subseteq Row /\ visible \subseteq there /\ read \subseteq there
  /\ stage \in {"idle", "asked", "counted", "done"}
  /\ unreadOnly \in BOOLEAN
  /\ page \in Nat \ {0} /\ total \in Nat
  /\ begun \subseteq there
  /\ shown \in [Row -> Nat]
  /\ moved \in BOOLEAN /\ cleared \in BOOLEAN /\ raced \in BOOLEAN

Init ==
  /\ there = {} /\ visible = {} /\ read = {}
  /\ stage = "idle" /\ unreadOnly = FALSE /\ page = 1 /\ total = 0
  /\ begun = {} /\ shown = [n \in Row |-> 0]
  /\ moved = FALSE /\ cleared = FALSE /\ raced = FALSE
-----------------------------------------------------------------------------
(* The table *)

InReach(n) == Accessible = {} \/ ResourceOf[n] \in Accessible

\* The row is always written; visible_in_app is the recipient's setting.
Create(n, v) ==
  /\ n \notin there
  /\ there' = there \cup {n}
  /\ visible' = IF v THEN visible \cup {n} ELSE visible
  /\ moved' = (moved \/ (v /\ InReach(n)))
  /\ raced' = (raced \/ (v /\ InReach(n) /\ stage = "counted"))
  /\ UNCHANGED <<read, screen, begun, shown, cleared>>

Unread == there \ read

\* The rows both statements of a page range over.
Matching(unread) == {n \in visible : InReach(n) /\ (unread => n \notin read)}

\* One row, whether the feed shows it or not.
MarkRead(n) ==
  /\ n \in Unread
  /\ read' = read \cup {n}
  /\ cleared' = (cleared \/ n \in Matching(TRUE))
  /\ UNCHANGED <<there, visible, screen, begun, shown, moved, raced>>

MarkAllRead ==
  /\ read' = read \cup {n \in Unread : InReach(n)}
  /\ cleared' = (cleared \/ Matching(TRUE) # {})
  /\ UNCHANGED <<there, visible, screen, begun, shown, moved, raced>>

-----------------------------------------------------------------------------
(* The screen *)

Open(unread) ==
  /\ stage = "idle"
  /\ stage' = "asked"
  /\ unreadOnly' = unread
  /\ begun' = Matching(unread)
  /\ moved' = FALSE /\ cleared' = FALSE /\ raced' = FALSE
  /\ UNCHANGED <<rows, page, total, shown>>

CountForUser ==
  /\ stage = "asked"
  /\ stage' = "counted"
  /\ total' = Cardinality(Matching(unreadOnly))
  /\ UNCHANGED <<rows, unreadOnly, page, history>>

\* DefaultPageSize and MaxPageSize
PageSize == SizeOf(Asked, 20, 100)

\* How many rows of the list come before n.
Rank(n) == Cardinality({m \in Matching(unreadOnly) : m > n})

\* ORDER BY created_at DESC, id DESC LIMIT PageSize OFFSET ...
Listed ==
  LET from == Offset(page, PageSize)
  IN {n \in Matching(unreadOnly) : from <= Rank(n) /\ Rank(n) < from + PageSize}

\* The page is shown, and the next one asked for if the answer says so.
ListForUser ==
  /\ stage = "counted"
  /\ shown' = [n \in Row |-> IF n \in Listed THEN shown[n] + 1 ELSE shown[n]]
  /\ IF HasMore(page, total, PageSize)
     THEN stage' = "asked" /\ page' = page + 1
     ELSE stage' = "done" /\ UNCHANGED page
  /\ UNCHANGED <<rows, unreadOnly, total, begun, moved, cleared, raced>>

Next == \/ \E n \in Row : (\E v \in BOOLEAN : Create(n, v)) \/ MarkRead(n)
        \/ MarkAllRead
        \/ \E unread \in BOOLEAN : Open(unread)
        \/ CountForUser
        \/ ListForUser

SafeSpec == Init /\ [][Next]_vars
-----------------------------------------------------------------------------
(* Properties *)

\* Whoever pages to the end sees all there was to see at first, unless a row
\* arrived between a page's two statements, or read rows left a list of
\* unread ones: arrivals between pages shift rows back, never out of sight,
\* and only after one is a row shown twice.
PagesExplained ==
  /\ stage = "done" => \/ \A n \in begun : shown[n] > 0
                       \/ raced
                       \/ unreadOnly /\ cleared
  /\ (\E n \in Row : shown[n] > 1) => moved
=============================================================================
