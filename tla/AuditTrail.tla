------------------------------ MODULE AuditTrail ------------------------------
(***************************************************************************)
(* The audit trail (src/audit): entries are written by goroutines that no  *)
(* request waits for, a shutdown of the process (src/main.go) races with   *)
(* them, and an administrator pages through what was written.              *)
(*                                                                         *)
(* An action is a request or a delivery that leaves one entry.  External,  *)
(* as main uses it: closing the connection pool refuses every statement    *)
(* that has no connection yet and waits for those that have one.           *)
(***************************************************************************)
EXTENDS Paging, FiniteSets

CONSTANTS
  Action,     \* bound: the actions ever taken in the tenant
  Asked,      \* the page size the administrator asks for
  Fault,      \* the kinds of fault that may happen
  FaultBudget \* bound: how many faults happen in one behaviour

ASSUME AuditAssumption == /\ IsFiniteSet(Action) /\ Action # {}
                          /\ Asked \in Nat
                          /\ Fault \subseteq {"database", "kill"}
                          /\ FaultBudget \in Nat

VARIABLES
  mode,       \* of the process: up, stopping (signalled), closing, down
  phase,      \* how far the handler of each action is
  entry,      \* how far its entry is
  clock, createdAt,     \* the database's time, and column created_at
  \* the administrator's screen, from its first page to its last
  stage, page, total,
  \* history
  flight,     \* entries a shutdown found on their way
  unflushed,  \* actions whose entry had no connection when the pool closed
  trouble,    \* actions whose entry the database or a kill has cost
  begun, shown, moved, raced, split,
  faults

screen  == <<stage, page, total>>
reading == <<screen, begun, shown, moved, raced, split>>
writing == <<phase, entry, clock, createdAt, trouble>>
vars    == <<mode, flight, unflushed, writing, reading, faults>>

Trail == {a \in Action : entry[a] = "written"}

TypeOK ==
  /\ mode \in {"up", "stopping", "closing", "down"}
  /\ phase \in [Action -> {"none", "acting", "acted", "recorded", "answered", "cut"}]
  /\ entry \in [Action -> {"none", "waiting", "writing", "written", "lost"}]
  /\ clock \in 1..Cardinality(Action)
  /\ createdAt \in [Action -> 0..clock]
  /\ stage \in {"idle", "asked", "counted", "done"}
  /\ page \in Nat \ {0} /\ total \in Nat
  /\ begun \subseteq Trail
  /\ shown \in [Action -> Nat] /\ \A a \in Action \ Trail : shown[a] = 0
  /\ {flight, unflushed, trouble} \subseteq SUBSET Action
  /\ {moved, raced, split} \subseteq BOOLEAN
  /\ faults \in 0..FaultBudget

Init ==
  /\ mode = "up" /\ flight = {} /\ unflushed = {} /\ trouble = {}
  /\ phase = [a \in Action |-> "none"]
  /\ entry = [a \in Action |-> "none"]
  /\ clock = 1 /\ createdAt = [a \in Action |-> 0]
  /\ stage = "idle" /\ page = 1 /\ total = 0
  /\ begun = {} /\ shown = [a \in Action |-> 0]
  /\ moved = FALSE /\ raced = FALSE /\ split = FALSE
  /\ faults = FaultBudget

Spend(kind) == /\ kind \in Fault
               /\ faults > 0
               /\ faults' = faults - 1

Running   == mode # "down"
Connected == mode \in {"up", "stopping"}
-----------------------------------------------------------------------------
(* Slips: definitions below with a plausible bug each *)

\* The write uses the request's own context, which its answer cancels.
AnswerCancels(a) ==
  /\ phase[a] = "recorded" /\ Running
  /\ phase' = [phase EXCEPT ![a] = "answered"]
  /\ entry' = [entry EXCEPT ![a] = IF entry[a] = "written" THEN @ ELSE "lost"]
  /\ UNCHANGED <<mode, flight, unflushed, clock, createdAt, trouble, reading, faults>>

\* created_at is the service's time, which is ahead of the database's.
WriteStartsAhead(a) ==
  /\ entry[a] = "waiting" /\ Connected
  /\ entry' = [entry EXCEPT ![a] = "writing"]
  /\ createdAt' = [createdAt EXCEPT ![a] = clock + 1]
  /\ UNCHANGED <<mode, flight, unflushed, phase, clock, trouble, reading, faults>>
-----------------------------------------------------------------------------
(* An action and its entry *)

\* The action's statement takes a connection, then commits or fails.  What a
\* handler does is recorded only once it has succeeded; of a delivery's outcome
\* an entry is written even if the UPDATE of its row failed.
Act(a) ==
  /\ phase[a] = "none" /\ Connected
  /\ phase' = [phase EXCEPT ![a] = "acting"]
  /\ UNCHANGED <<mode, flight, unflushed, entry, clock, createdAt, trouble, reading, faults>>

ActEnds(a) ==
  /\ phase[a] = "acting"
  /\ \/ phase' = [phase EXCEPT ![a] = "acted"] /\ UNCHANGED faults
     \/ phase' = [phase EXCEPT ![a] = "cut"] /\ Spend("database")
     \/ phase' = [phase EXCEPT ![a] = "acted"] /\ Spend("database")
  /\ UNCHANGED <<mode, flight, unflushed, entry, clock, createdAt, trouble, reading>>

\* Record starts a goroutine; the handler goes on, and its end does not cancel
\* the write.
Record(a) ==
  /\ phase[a] = "acted" /\ Running
  /\ phase' = [phase EXCEPT ![a] = "recorded"]
  /\ entry' = [entry EXCEPT ![a] = "waiting"]
  /\ UNCHANGED <<mode, flight, unflushed, clock, createdAt, trouble, reading, faults>>

Answer(a) ==
  /\ phase[a] = "recorded" /\ Running
  /\ phase' = [phase EXCEPT ![a] = "answered"]
  /\ UNCHANGED <<mode, flight, unflushed, entry, clock, createdAt, trouble, reading, faults>>

\* The INSERT gets its connection; created_at is when it starts, and two may
\* start in one instant.
WriteStarts(a) ==
  /\ entry[a] = "waiting" /\ Connected
  /\ entry' = [entry EXCEPT ![a] = "writing"]
  /\ clock' \in {clock, clock + 1} /\ clock' <= Cardinality(Action)
  /\ createdAt' = [createdAt EXCEPT ![a] = clock']
  /\ UNCHANGED <<mode, flight, unflushed, phase, trouble, reading, faults>>

WriteEnds(a) ==
  /\ entry[a] = "writing"
  /\ entry' = [entry EXCEPT ![a] = "written"]
  /\ moved' = TRUE
  /\ raced' = (raced \/ stage = "counted")
  /\ UNCHANGED <<mode, flight, unflushed, phase, clock, createdAt, trouble, screen,
                 begun, shown, split, faults>>

\* The database fails the INSERT, or it takes longer than recordTimeout, or
\* the pool is closed: the error is only logged.
WriteFails(a) ==
  /\ \/ /\ entry[a] \in {"waiting", "writing"} /\ Spend("database")
        /\ trouble' = trouble \cup {a}
     \/ /\ entry[a] = "waiting" /\ mode = "closing"
        /\ UNCHANGED <<trouble, faults>>
  /\ entry' = [entry EXCEPT ![a] = "lost"]
  /\ UNCHANGED <<mode, flight, unflushed, phase, clock, createdAt, reading>>
-----------------------------------------------------------------------------
(* The process *)

OnTheWay == {a \in Action : entry[a] \in {"waiting", "writing"}}

\* SIGTERM: a goroutine of main's is told.
Signal ==
  /\ mode = "up"
  /\ mode' = "stopping"
  /\ flight' = OnTheWay
  /\ UNCHANGED <<unflushed, writing, reading, faults>>

\* It closes the server, which waits for requests and then for the recorder;
\* main, whose ListenAndServe returns at once, waits for neither and closes
\* the pool.
Close ==
  /\ mode = "stopping"
  /\ mode' = "closing"
  /\ unflushed' = unflushed \cup
       {a \in Action : phase[a] # "none" /\ entry[a] \in {"none", "waiting"}}
  /\ UNCHANGED <<flight, writing, reading, faults>>

PoolIdle == \A a \in Action : phase[a] # "acting" /\ entry[a] # "writing"

\* The process ends, with it every handler, goroutine and page under way.
End ==
  /\ mode' = "down"
  /\ phase' = [a \in Action |-> IF phase[a] \in {"acting", "acted", "recorded"}
                                THEN "cut" ELSE phase[a]]
  /\ entry' = [a \in Action |-> IF a \in OnTheWay \/ phase[a] = "acted"
                                THEN "lost" ELSE entry[a]]
  /\ stage' = IF stage = "counted" THEN "asked" ELSE stage
  /\ UNCHANGED <<flight, unflushed, clock, createdAt, page, total, begun, shown,
                 moved, raced, split>>

Exit == mode = "closing" /\ PoolIdle /\ End /\ UNCHANGED <<trouble, faults>>

Kill ==
  /\ Running
  /\ Spend("kill")
  /\ trouble' = trouble \cup OnTheWay \cup {a \in Action : phase[a] = "acted"}
  /\ End

Restart ==
  /\ mode = "down"
  /\ mode' = "up"
  /\ flight' = {} /\ UNCHANGED <<unflushed, writing, reading, faults>>
-----------------------------------------------------------------------------
(* The administrator's screen *)

\* audit.DefaultLimit and audit.MaxLimit
PageSize == SizeOf(Asked, 50, 200)

Open ==
  /\ stage = "idle"
  /\ stage' = "asked"
  /\ begun' = Trail
  /\ moved' = FALSE
  /\ UNCHANGED <<mode, flight, unflushed, writing, page, total, shown, raced, split, faults>>

Count ==
  /\ stage = "asked" /\ Connected
  /\ stage' = "counted"
  /\ total' = Cardinality(Trail)
  /\ UNCHANGED <<mode, flight, unflushed, writing, page, begun, shown, moved, raced, split,
                 faults>>

Before(a, b) == createdAt[a] > createdAt[b]

\* ORDER BY created_at DESC: entries of one instant come in any order, one
\* SELECT not as the other.
Orders ==
  {o \in [1..Cardinality(Trail) -> Trail] :
     \A i, j \in DOMAIN o : i < j => o[i] # o[j] /\ ~Before(o[j], o[i])}

\* A page ends, or begins, between entries of one instant.
Splits(o, i) == i \in DOMAIN o /\ i + 1 \in DOMAIN o /\ createdAt[o[i]] = createdAt[o[i + 1]]

List ==
  /\ stage = "counted" /\ Connected
  /\ \E o \in Orders :
       LET from   == Offset(page, PageSize)
           listed == {o[i] : i \in {j \in DOMAIN o : from < j /\ j <= from + PageSize}}
       IN /\ shown' = [a \in Action |-> IF a \in listed THEN shown[a] + 1 ELSE shown[a]]
          /\ split' = (split \/ Splits(o, from) \/ Splits(o, from + PageSize))
  /\ IF HasMore(page, total, PageSize)
     THEN stage' = "asked" /\ page' = page + 1
     ELSE stage' = "done" /\ UNCHANGED page
  /\ UNCHANGED <<mode, flight, unflushed, writing, total, begun, moved, raced, faults>>

Next ==
  \/ \E a \in Action : \/ Act(a) \/ ActEnds(a) \/ Record(a) \/ Answer(a)
                       \/ WriteStarts(a) \/ WriteEnds(a) \/ WriteFails(a)
  \/ Signal \/ Close \/ Exit \/ Kill \/ Restart
  \/ Open \/ Count \/ List

SafeSpec == Init /\ [][Next]_vars
-----------------------------------------------------------------------------
(* Properties *)

\* The entry of an action that was taken is lost only to the database, to a
\* kill, or to a shutdown that closed the pool before the entry's INSERT had a
\* connection: never because the request is over, and never once the INSERT
\* has started.
LossesExplained ==
  \A a \in Action : entry[a] = "lost" => a \in trouble \cup unflushed

\* Whoever pages through the trail to its end sees all there was at first, and
\* nothing twice, unless entries were written meanwhile or a page ended between
\* entries of one instant; only one written between a page's two statements
\* makes the reader miss any.
PagesExplained ==
  split \/ /\ stage = "done" => raced \/ \A a \in begun : shown[a] > 0
           /\ (\E a \in Action : shown[a] > 1) => moved

\* README.md:181, "On shutdown the server flushes in-flight entries before
\* exiting": what a signal found on its way is written when the process is down.
FlushedOnShutdown ==
  mode = "down" => \A a \in flight \ trouble : entry[a] = "written"
=============================================================================
