-------------------------- MODULE CreateNotification --------------------------
(***************************************************************************)
(* POST /api/notifications/internal (src/controllers/notifications.go): a  *)
(* service reports one event for several recipients; each gets a           *)
(* notification and one delivery row for each channel that is wanted and   *)
(* that the recipient's settings allow, written statement by statement.    *)
(* The service sends the request again while it has not been told of a     *)
(* success: nothing in a request identifies the event.                     *)
(*                                                                         *)
(* Settings change while requests are handled (Preferences), and the email *)
(* worker claims a row as soon as it is there (DeliveryQueue).             *)
(***************************************************************************)
EXTENDS Preferences, Naturals, FiniteSets, Sequences

CONSTANTS
  Wish,          \* requests: [to : Seq(Target), email, file, fits : BOOLEAN]
  Patch,         \* bound: the overrides users set
  Tenant,        \* bound: the defaults tenants set
  ChangeBudget,  \* bound: how often settings change in one behaviour
  Fault,         \* the kinds of fault that may happen
  FaultBudget,   \* bound: how many faults happen in one behaviour
  Outside, Invalid  \* a recipient without an account, one without an address

Target    == User \cup {Outside, Invalid}
FaultKind == {"prefs", "create", "unheard", "file", "row", "load", "abandon", "answer"}

ASSUME CreateAssumption ==
  /\ Channel = {"email", "in_app", "push"}
  /\ \A r \in Reader : r \in Nat \ {0}
  /\ \A w \in Wish : /\ w.to \in Seq(Target) /\ w.to # <<>>
                     /\ {w.email, w.file, w.fits} \subseteq BOOLEAN
  /\ Patch \subseteq Override
  /\ Tenant \subseteq Prefs
  /\ ChangeBudget \in Nat
  /\ Fault \subseteq FaultKind
  /\ FaultBudget \in Nat
  /\ Outside \notin User /\ Invalid \notin User

\* The service's attempts to report the event, one request each.
Request == Reader

VARIABLES
  wish, config,  \* what is asked for; the channels this process can serve
  call,          \* a request as the service sees it: its answer, once there is one
  step,          \* what the request's handler does next
  plan,          \* the settings it has resolved, by recipient
  at,            \* the recipient it is at
  notes,         \* notifications: the request and the recipient's position
  visible,       \* those shown in the feed
  files,         \* those whose attachment is saved
  rows,          \* notification_deliveries
  mailed,        \* how a notification's email went out
  \* history
  ghosts,        \* notifications whose INSERT the handler believes failed
  excused,       \* what a fault has prevented
  seen,          \* a recipient's settings in force during its lookup
  changes, faults  \* changes of settings and faults left

handler == <<step, plan, at>>
tables  == <<notes, visible, files, rows>>
vars    == <<prefsVars, wish, config, call, handler, tables, mailed,
             ghosts, excused, seen, changes, faults>>

Count  == Len(wish.to)
Note   == Request \X (1..Count)
Refused == {"400", "500", "503"}

TypeOK ==
  /\ PrefsTypeOK
  /\ wish \in Wish /\ config \in [sendable : BOOLEAN, push : BOOLEAN]
  /\ call \in [Request -> {"unsent", "open", "lost", "201"} \cup Refused]
  /\ step \in [Request -> {"idle", "plan", "create", "file", "in_app", "email", "push"}]
  /\ plan \in [Request -> Seq(Prefs)]
  /\ at \in [Request -> 1..(Count + 1)]
  /\ visible \subseteq notes /\ files \subseteq notes /\ notes \subseteq Note
  /\ rows \in [Note -> [Channel -> {"none", "pending", "sent", "skipped"}]]
  /\ \A n \in Note : rows[n]["in_app"] # "pending"
  /\ mailed \in [Note -> {"no", "plain", "whole"}]
  /\ ghosts \subseteq notes
  /\ excused \subseteq Note \X (Channel \cup {"note", "file"})
  /\ seen \in [Note -> [Channel -> SUBSET Switch]]
  /\ changes \in 0..ChangeBudget
  /\ faults \in 0..FaultBudget

Init ==
  /\ PrefsInit
  /\ wish \in Wish
  /\ config \in [sendable : BOOLEAN, push : BOOLEAN]
  /\ call = [q \in Request |-> "unsent"]
  /\ step = [q \in Request |-> "idle"]
  /\ plan = [q \in Request |-> <<>>]
  /\ at = [q \in Request |-> 1]
  /\ notes = {} /\ visible = {} /\ files = {}
  /\ rows = [n \in Note |-> [c \in Channel |-> "none"]]
  /\ mailed = [n \in Note |-> "no"]
  /\ ghosts = {} /\ excused = {}
  /\ seen = [n \in Note |-> [c \in Channel |-> {}]]
  /\ changes = ChangeBudget /\ faults = FaultBudget

Spend(kind) == /\ kind \in Fault
               /\ faults > 0
               /\ faults' = faults - 1

\* The notification the handler of q is at, and the settings it goes by.
Cur(q)     == <<q, at[q]>>
Allowed(q) == plan[q][at[q]]
Mark(n, c, status) == rows' = [rows EXCEPT ![n][c] = status]
Excuse(q, what) == excused' = excused \cup {<<Cur(q), what>>}
-----------------------------------------------------------------------------
(* Slips: definitions below with a plausible bug each *)

\* in_app is enqueued like the other channels.
InAppStatusPending(q) == "pending"

\* The settings are looked up afresh for the delivery log.
InAppStatusAfresh(q) ==
  IF wish.to[at[q]] \in User /\ Merge(defaults, override[wish.to[at[q]]])["in_app"] = "off"
  THEN "skipped" ELSE "sent"

\* The attachment is saved once the rows are there.
OrderFileLast == <<"in_app", "email", "push", "file">>

\* One recipient's failure fails the request.
StatusStrict(q) ==
  IF \A k \in 1..Count : <<q, k>> \in notes \ ghosts THEN "201" ELSE "500"

\* Push is only enqueued for emails.
PushRowWithEmail(q) == wish.email /\ config.push /\ Allowed(q)["push"] = "on"

\* Push goes by the process's configuration alone.
PushRowAlways(q) == config.push
-----------------------------------------------------------------------------
(* The service and the settings *)

\* A request is sent, or sent again after one that was refused by an error or
\* never answered.
Send(q) ==
  /\ call[q] = "unsent"
  /\ \A p \in Request : p < q => call[p] \in {"lost", "500", "503"}
  /\ call' = [call EXCEPT ![q] = "open"]
  /\ step' = [step EXCEPT ![q] = "plan"]
  /\ UNCHANGED <<prefsVars, wish, config, plan, at, tables, mailed,
                 ghosts, excused, seen, changes, faults>>

\* The service gives up waiting, while the handler goes on.
GiveUp(q) ==
  /\ call[q] = "open"
  /\ Spend("abandon")
  /\ call' = [call EXCEPT ![q] = "lost"]
  /\ UNCHANGED <<prefsVars, wish, config, handler, tables, mailed, ghosts, excused, seen,
                 changes>>

Change ==
  /\ changes > 0
  /\ changes' = changes - 1
  /\ \/ \E u \in User, p \in Patch : SetUserOverride(u, p)
     \/ \E d \in Tenant : SetTenantDefaults(d)
  /\ UNCHANGED <<wish, config, call, handler, tables, mailed, ghosts, excused,
                 seen, faults>>

\* The handler is done: the answer, if the service still waits for one, and its
\* memory gone.
Answer(q, a) ==
  /\ call' = [call EXCEPT ![q] = IF @ = "open" THEN a ELSE @]
  /\ step' = [step EXCEPT ![q] = "idle"]
  /\ plan' = [plan EXCEPT ![q] = <<>>]
  /\ at' = [at EXCEPT ![q] = 1]
-----------------------------------------------------------------------------
(* Planning: validation and settings, recipient by recipient *)

Planning(q, t) == wish.fits /\ step[q] = "plan" /\ at[q] <= Count /\ wish.to[at[q]] = t

\* The body does not parse, a field, a header or the attachments are not within
\* their limits: found before any recipient is looked at.
Malformed(q) == step[q] = "plan" /\ ~wish.fits

\* The settings to go by, and those that were in force meanwhile.
Planned(q, prefs, force) ==
  /\ plan' = [plan EXCEPT ![q] = Append(@, prefs)]
  /\ at' = [at EXCEPT ![q] = @ + 1]
  /\ seen' = [seen EXCEPT ![Cur(q)] = force]
  /\ UNCHANGED <<wish, config, call, step, tables, mailed, ghosts, excused, changes>>

Only(prefs) == [c \in Channel |-> {prefs[c]}]

Rejectable(q) == Malformed(q) \/ Planning(q, Invalid)

Reject(q) ==
  /\ Rejectable(q)
  /\ Answer(q, "400")
  /\ UNCHANGED <<prefsVars, wish, config, tables, mailed, ghosts, excused, seen,
                 changes, faults>>

\* Someone without an account can only get email.
EmailOnly == [c \in Channel |-> IF c = "email" THEN "on" ELSE "off"]

PlanOutside(q) ==
  /\ Planning(q, Outside)
  /\ Planned(q, EmailOnly, Only(EmailOnly))
  /\ UNCHANGED <<prefsVars, faults>>

PlanLookup(q) ==
  /\ \E u \in User : Planning(q, u) /\ GetTenantDefaults(q, u)
  /\ UNCHANGED <<wish, config, call, handler, tables, mailed, ghosts, excused, seen,
                 changes, faults>>

PlanUser(q) ==
  /\ step[q] = "plan"
  /\ GetUserOverride(q)
  /\ Planned(q, resolved'[q], inForce[q])
  /\ UNCHANGED faults

\* Settings that cannot be read count as on.
FailOpen == AllOn

PlanFails(q) ==
  /\ \E u \in User : Planning(q, u)
  /\ Spend("prefs")
  /\ LookupEnds(q)
  /\ Planned(q, FailOpen, Only(AllOn))

\* Every recipient is planned.  Nobody could receive the message at all if
\* all are to get an email only and none can be sent.
Doomed == /\ wish.email
          /\ \A k \in 1..Count : wish.to[k] = Outside
          /\ ~config.sendable

PlanEnds(q) ==
  /\ step[q] = "plan" /\ at[q] > Count
  /\ \/ Doomed /\ Answer(q, "503")
     \/ /\ ~Doomed
        /\ step' = [step EXCEPT ![q] = "create"]
        /\ at' = [at EXCEPT ![q] = 1]
        /\ UNCHANGED <<call, plan>>
  /\ UNCHANGED <<prefsVars, wish, config, tables, mailed, ghosts, excused, seen,
                 changes, faults>>
-----------------------------------------------------------------------------
(* Creating: statement by statement; whatever fails is logged and passed *)

NextRecipient(q) == /\ step' = [step EXCEPT ![q] = "create"]
                    /\ at' = [at EXCEPT ![q] = @ + 1]

\* The statements that follow a notification's own.
Order == <<"file", "in_app", "email", "push">>

Proceed(q) ==
  LET i == CHOOSE j \in DOMAIN Order : Order[j] = step[q]
  IN IF i = Len(Order) THEN NextRecipient(q)
     ELSE step' = [step EXCEPT ![q] = Order[i + 1]] /\ UNCHANGED at

\* The notification, which the feed shows unless the channel is off.
Insert(q) ==
  /\ step[q] = "create" /\ at[q] <= Count
  /\ \/ /\ notes' = notes \cup {Cur(q)}
        /\ step' = [step EXCEPT ![q] = Order[1]]
        /\ UNCHANGED <<at, ghosts, excused, faults>>
     \/ /\ UNCHANGED <<notes, ghosts>> /\ Spend("create")
        /\ Excuse(q, "note") /\ NextRecipient(q)
     \/ /\ notes' = notes \cup {Cur(q)} /\ ghosts' = ghosts \cup {Cur(q)} /\ Spend("unheard")
        /\ Excuse(q, "note") /\ NextRecipient(q)
  /\ visible' = visible \cup (IF Allowed(q)["in_app"] = "on" THEN notes' \ notes ELSE {})
  /\ UNCHANGED <<prefsVars, wish, config, call, plan, files, rows, mailed, seen, changes>>

WantsEmail(q) == wish.email /\ Allowed(q)["email"] = "on"

SaveFile(q) ==
  /\ step[q] = "file"
  /\ IF wish.file /\ WantsEmail(q)
     THEN \/ files' = files \cup {Cur(q)} /\ UNCHANGED <<excused, faults>>
          \/ Spend("file") /\ Excuse(q, "file") /\ UNCHANGED files
     ELSE UNCHANGED <<files, excused, faults>>
  /\ Proceed(q)
  /\ UNCHANGED <<prefsVars, wish, config, call, plan, notes, visible, rows, mailed,
                 ghosts, seen, changes>>

\* The row of one channel, or none if the channel is not wanted.
Enqueue(q, c, wanted, status) ==
  /\ IF wanted
     THEN \/ Mark(Cur(q), c, status) /\ UNCHANGED <<excused, faults>>
          \/ Spend("row") /\ Excuse(q, c) /\ UNCHANGED rows
     ELSE UNCHANGED <<rows, excused, faults>>
  /\ Proceed(q)
  /\ UNCHANGED <<prefsVars, wish, config, call, plan, notes, visible, files, mailed,
                 ghosts, seen, changes>>

InAppStatus(q) == IF Allowed(q)["in_app"] = "on" THEN "sent" ELSE "skipped"
PushRow(q) == config.push /\ Allowed(q)["push"] = "on"

EnqueueInApp(q) ==
  /\ step[q] = "in_app"
  /\ Enqueue(q, "in_app", TRUE, InAppStatus(q))

EnqueueEmail(q) ==
  /\ step[q] = "email"
  /\ Enqueue(q, "email", WantsEmail(q), "pending")

EnqueuePush(q) ==
  /\ step[q] = "push"
  /\ Enqueue(q, "push", PushRow(q), "pending")

\* A request fails only if it has created nothing.
Status(q) == IF \E k \in 1..Count : <<q, k>> \in notes \ ghosts THEN "201" ELSE "500"

Finish(q) ==
  /\ step[q] = "create" /\ at[q] > Count
  /\ \/ Answer(q, Status(q)) /\ UNCHANGED faults
     \/ Answer(q, "lost") /\ Spend("answer")
  /\ UNCHANGED <<prefsVars, wish, config, tables, mailed, ghosts, excused, seen, changes>>

\* Once it is noticed that the service has gone the statements still to come
\* are cancelled; or the process ends.
Abandon(q) ==
  /\ step[q] # "idle"
  /\ \/ call[q] = "lost" /\ UNCHANGED faults
     \/ Spend("abandon")
  /\ Answer(q, "lost")
  /\ LookupEnds(q)
  /\ UNCHANGED <<wish, config, tables, mailed, ghosts, excused, seen, changes>>
-----------------------------------------------------------------------------
(* The email worker *)

\* It reads the attachment at each attempt, and sends the message without it
\* if it cannot.  Rows whose email cannot be sent end otherwise (DeliveryQueue).
Mail(n) ==
  /\ config.sendable
  /\ rows[n]["email"] = "pending"
  /\ Mark(n, "email", "sent")
  /\ \/ /\ mailed' = [mailed EXCEPT ![n] = IF n \in files THEN "whole" ELSE "plain"]
        /\ UNCHANGED <<excused, faults>>
     \/ /\ mailed' = [mailed EXCEPT ![n] = "plain"] /\ Spend("load")
        /\ excused' = excused \cup {<<n, "file">>}
  /\ UNCHANGED <<prefsVars, wish, config, call, handler, notes, visible, files,
                 ghosts, seen, changes>>

Handle(q) ==
  \/ Reject(q) \/ PlanOutside(q) \/ PlanLookup(q) \/ PlanUser(q) \/ PlanFails(q) \/ PlanEnds(q)
  \/ Insert(q) \/ SaveFile(q) \/ EnqueueInApp(q) \/ EnqueueEmail(q) \/ EnqueuePush(q)
  \/ Finish(q) \/ Abandon(q)

\* Nothing is left to do once the service has had its answer.
Next == \/ \E q \in Request : Send(q) \/ GiveUp(q) \/ Handle(q)
        \/ \E n \in Note : Mail(n)
        \/ Change

SafeSpec == Init /\ [][Next]_vars
-----------------------------------------------------------------------------
(* Properties *)

\* A refused request has created nothing, save what it was told had failed.
RefusalLeavesNothing ==
  \A q \in Request : call[q] \in Refused =>
    \A k \in 1..Count : <<q, k>> \in notes => <<q, k>> \in ghosts

\* The service's repeated requests give a recipient a second notification of
\* the event only if an answer, or that of an INSERT, did not arrive.
DuplicatesExplained ==
  \A k \in 1..Count :
    Cardinality({q \in Request : <<q, k>> \in notes})
      <= 1 + Cardinality({q \in Request : call[q] = "lost" \/ <<q, k>> \in ghosts})

\* An email goes out without the attachment it was to have only if saving or
\* loading the attachment failed: the worker never overtakes the handler.
EmailIsWhole ==
  wish.file => \A n \in Note : mailed[n] = "plain" => <<n, "file">> \in excused

\* The delivery log says of the in-app channel what the feed does.
LogAgreesWithFeed ==
  \A n \in Note : rows[n]["in_app"] # "none" => (rows[n]["in_app"] = "sent" <=> n \in visible)

\* After a success each recipient has a notification, and it a row for each
\* channel that is asked for, served and was on throughout the recipient's
\* lookup, or a fault has cost it.
NothingMissing ==
  \A n \in Note : call[n[1]] = "201" =>
    \/ <<n, "note">> \in excused
    \/ /\ n \in notes
       /\ \A c \in Channel : rows[n][c] = "none" =>
            \/ <<n, c>> \in excused
            \/ c = "email" /\ ~wish.email
            \/ c = "push" /\ ~config.push
            \/ "off" \in seen[n][c]

\* Nobody is notified on a channel that was off throughout the lookup of the
\* settings, however they change while the request is handled; a setting that
\* cannot be read counts as on.
OptOutHonoured ==
  \A n \in Note : \A c \in Channel :
    rows[n][c] \in {"pending", "sent"} => "on" \in seen[n][c]
=============================================================================
