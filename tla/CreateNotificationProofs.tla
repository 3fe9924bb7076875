----------------------- MODULE CreateNotificationProofs -----------------------
(***************************************************************************)
(* What holds of creating notifications for any recipients, settings,      *)
(* requests, budgets and faults.                                           *)
(*                                                                         *)
(* A request's settings are decided while it plans and acted on while it   *)
(* creates.  The invariant therefore says where its handler is (Progress), *)
(* what may be written by then (RowsOfNotes, NotesBehind), that what it    *)
(* plans was in force (PlanSeen, by what holds of lookups) and that the    *)
(* note in hand is shown as planned (ShownAsPlanned).                      *)
(*                                                                         *)
(* Three more invariants ride on this one.  FileInv: the attachment is     *)
(* there before the email's row is, for the worker to find.  WorkInv: what *)
(* the statements so far should have written is there or has an excuse.    *)
(* TurnInv: of the requests sent, finitely many, at most one has not been  *)
(* given up or failed.                                                     *)
(***************************************************************************)
EXTENDS CreateNotification, FiniteSetTheorems, TLAPS
-----------------------------------------------------------------------------
(* Lookups of settings, for any users, channels and readers (Preferences).  *)
(* HalfwayWitness speaks of those that have read the defaults and not yet   *)
(* the overrides: what is in force now is among what they have seen in      *)
(* force, and so are the defaults they have read, for the channels the user *)
(* still inherits.  The latter survives every change because no statement   *)
(* ever turns an override back into "inherit".                              *)

HalfwayWitness ==
  \A r \in Reader : stage[r] = "half" =>
    \A c \in Channel :
      /\ Merge(defaults, override[subject[r]])[c] \in inForce[r][c]
      /\ override[subject[r]][c] = "inherit" => read[r][c] \in inForce[r][c]

PrefsInv == PrefsTypeOK /\ HalfwayWitness /\ ResolvedWasInForce

\* Settings merged are settings.
LEMMA MergeType ==
  ASSUME NEW d \in Prefs, NEW o \in Override
  PROVE  Merge(d, o) \in Prefs
BY DEF Merge, Prefs, Override, Switch

\* A patched override is an override, and inherits no channel it did not
\* inherit before.
LEMMA CoalesceKeeps ==
  ASSUME NEW new \in Override, NEW old \in Override
  PROVE  /\ Coalesce(new, old) \in Override
         /\ \A c \in Channel : Coalesce(new, old)[c] = "inherit" => old[c] = "inherit"
BY DEF Coalesce, Override, Switch

LEMMA PrefsInitHolds == PrefsInit => PrefsInv
BY DEF PrefsInit, PrefsInv, PrefsTypeOK, HalfwayWitness, ResolvedWasInForce,
       AllOn, Prefs, Override, Switch

\* What a change of settings does to the lookups under way, whichever it is.
LEMMA ChangeKeeps ==
  ASSUME PrefsInv, Witness,
         defaults' \in Prefs, override' \in [User -> Override],
         \A u \in User : \A c \in Channel :
           override'[u][c] = "inherit" => override[u][c] = "inherit",
         UNCHANGED <<stage, subject, read, resolved>>
  PROVE  PrefsInv'
<1> USE DEF PrefsInv
<1> DEFINE now(r) == Merge(defaults', override'[subject[r]])
<1>1. \A r \in Reader : now(r) \in Prefs
  BY MergeType DEF PrefsTypeOK
<1>2. \A r \in Reader : \A c \in Channel :
        inForce'[r][c] = IF stage[r] = "half" THEN inForce[r][c] \cup {now(r)[c]}
                                              ELSE inForce[r][c]
  BY DEF Witness, PrefsTypeOK
<1>3. inForce' \in [Reader -> [Channel -> SUBSET Switch]]
  <2>1. \A r \in Reader : \A c \in Channel : now(r)[c] \in Switch
    BY <1>1 DEF Prefs
  <2> HIDE DEF now
  <2>2. inForce' = [r \in Reader |->
                      IF stage[r] = "half"
                      THEN [c \in Channel |-> inForce[r][c] \cup {now(r)[c]}]
                      ELSE inForce[r]]
    BY DEF Witness, now
  <2> QED BY <2>1, <2>2 DEF PrefsTypeOK
<1>4. PrefsTypeOK'
  BY <1>3 DEF PrefsTypeOK
<1>5. HalfwayWitness'
  <2> SUFFICES ASSUME NEW r \in Reader, stage[r] = "half", NEW c \in Channel
               PROVE  /\ now(r)[c] \in inForce'[r][c]
                      /\ override'[subject[r]][c] = "inherit" => read[r][c] \in inForce'[r][c]
    BY DEF HalfwayWitness
  <2>1. subject[r] \in User
    BY DEF PrefsTypeOK
  <2>2. inForce'[r][c] = inForce[r][c] \cup {now(r)[c]}
    BY <1>2
  <2>3. override'[subject[r]][c] = "inherit" => read[r][c] \in inForce[r][c]
    BY <2>1 DEF HalfwayWitness
  <2> HIDE DEF now
  <2> QED BY <2>2, <2>3
<1>6. ResolvedWasInForce'
  BY <1>2 DEF ResolvedWasInForce
<1> QED BY <1>4, <1>5, <1>6

LEMMA PrefsStep == PrefsInv /\ [PrefsNext]_prefsVars => PrefsInv'
<1> SUFFICES ASSUME PrefsInv, [PrefsNext]_prefsVars PROVE PrefsInv'
  OBVIOUS
<1>1. ASSUME NEW u \in User, NEW patch \in Override, SetUserOverride(u, patch)
      PROVE  PrefsInv'
  <2>1. /\ override' \in [User -> Override]
        /\ \A v \in User : \A c \in Channel :
             override'[v][c] = "inherit" => override[v][c] = "inherit"
    BY <1>1, CoalesceKeeps DEF SetUserOverride, PrefsInv, PrefsTypeOK
  <2>2. defaults' \in Prefs
    BY <1>1 DEF SetUserOverride, PrefsInv, PrefsTypeOK
  <2> QED BY <1>1, <2>1, <2>2, ChangeKeeps DEF SetUserOverride
<1>2. ASSUME NEW d \in Prefs, SetTenantDefaults(d)
      PROVE  PrefsInv'
  BY <1>2, ChangeKeeps DEF SetTenantDefaults, PrefsInv, PrefsTypeOK
<1>3. ASSUME NEW r \in Reader, NEW u \in User, GetTenantDefaults(r, u)
      PROVE  PrefsInv'
  <2> DEFINE now == [c \in Channel |-> {Merge(defaults, override[u])[c]}]
  <2>1. Merge(defaults, override[u]) \in Prefs
    BY MergeType DEF PrefsInv, PrefsTypeOK
  <2>2. now \in [Channel -> SUBSET Switch]
    BY <2>1 DEF Prefs
  <2>3. PrefsTypeOK'
    BY <1>3, <2>2 DEF GetTenantDefaults, settings, PrefsInv, PrefsTypeOK
  <2>4. HalfwayWitness'
    <3> SUFFICES ASSUME NEW q \in Reader, stage'[q] = "half", NEW c \in Channel
                 PROVE  /\ Merge(defaults, override[subject'[q]])[c] \in inForce'[q][c]
                        /\ override[subject'[q]][c] = "inherit" => read'[q][c] \in inForce'[q][c]
      BY <1>3 DEF HalfwayWitness, GetTenantDefaults, settings
    <3>1. CASE q = r
      BY <1>3, <3>1 DEF GetTenantDefaults, Merge, PrefsInv, PrefsTypeOK
    <3>2. CASE q # r
      BY <1>3, <3>2 DEF GetTenantDefaults, HalfwayWitness, PrefsInv, PrefsTypeOK
    <3> QED BY <3>1, <3>2
  <2>5. ResolvedWasInForce'
    BY <1>3 DEF GetTenantDefaults, ResolvedWasInForce, PrefsInv, PrefsTypeOK
  <2> QED BY <2>3, <2>4, <2>5 DEF PrefsInv
<1>4. ASSUME NEW r \in Reader, GetUserOverride(r)
      PROVE  PrefsInv'
  <2>1. /\ subject[r] \in User
        /\ Merge(read[r], override[subject[r]]) \in Prefs
    BY MergeType DEF PrefsInv, PrefsTypeOK
  <2>2. PrefsTypeOK'
    BY <1>4, <2>1 DEF GetUserOverride, settings, PrefsInv, PrefsTypeOK
  <2>3. HalfwayWitness'
    BY <1>4 DEF GetUserOverride, settings, HalfwayWitness, PrefsInv, PrefsTypeOK
  <2>4. \A c \in Channel : Merge(read[r], override[subject[r]])[c] \in inForce[r][c]
    BY <1>4 DEF GetUserOverride, HalfwayWitness, Merge, PrefsInv
  <2>5. ResolvedWasInForce'
    BY <1>4, <2>4 DEF GetUserOverride, ResolvedWasInForce, PrefsInv, PrefsTypeOK
  <2> QED BY <2>2, <2>3, <2>5 DEF PrefsInv
<1>5. ASSUME NEW r \in Reader, LookupEnds(r)
      PROVE  PrefsInv'
  BY <1>5 DEF LookupEnds, settings, HalfwayWitness, ResolvedWasInForce, PrefsInv, PrefsTypeOK
<1>6. CASE UNCHANGED prefsVars
  BY <1>6 DEF prefsVars, settings, lookup, PrefsInv, PrefsTypeOK, HalfwayWitness,
              ResolvedWasInForce
<1> QED
  BY <1>1, <1>2, <1>3, <1>4, <1>5, <1>6 DEF PrefsNext

\* Whatever users, tenants and readers do, and in whatever order, each
\* channel's setting in a lookup's result was in force during the lookup.
THEOREM LookupsAreInForce == PrefsSpec => []ResolvedWasInForce
<1>1. PrefsInv => ResolvedWasInForce
  BY DEF PrefsInv
<1> QED
  BY <1>1, PrefsInitHolds, PrefsStep, PTL DEF PrefsSpec
-----------------------------------------------------------------------------
(* Creating notifications *)

Stmt == {"file", "in_app", "email", "push"}

Progress ==
  \A q \in Request :
    /\ step[q] # "idle" => call[q] \in {"open", "lost"}
    /\ call[q] = "open" => step[q] # "idle"
    /\ step[q] \in {"idle", "plan"} => Len(plan[q]) = at[q] - 1
    /\ step[q] \in Stmt \cup {"create"} => Len(plan[q]) = Count
    /\ step[q] \in Stmt => at[q] <= Count /\ Cur(q) \in notes

RowsOfNotes ==
  \A n \in Note : \A c \in Channel : rows[n][c] # "none" => n \in notes

NotesBehind ==
  \A q \in Request : \A k \in 1..Count : <<q, k>> \in notes =>
    /\ call[q] # "unsent"
    /\ step[q] # "plan"
    /\ step[q] = "create" => k < at[q]
    /\ step[q] \in Stmt => k <= at[q]

ShownAsPlanned ==
  \A q \in Request : step[q] \in Stmt =>
    (Cur(q) \in visible <=> Allowed(q)["in_app"] = "on")

PlanSeen ==
  \A q \in Request : \A k \in 1..Len(plan[q]) : \A c \in Channel :
    k <= Count => plan[q][k][c] \in seen[<<q, k>>][c]

CreateInv ==
  /\ TypeOK /\ PrefsInv
  /\ Progress /\ RowsOfNotes /\ NotesBehind /\ ShownAsPlanned /\ PlanSeen
  /\ OptOutHonoured /\ LogAgreesWithFeed /\ RefusalLeavesNothing

\* A lookup under way is about the recipient its handler is at.
LookupUnderWay ==
  \A q \in Request : stage[q] = "half" =>
    wish.fits /\ step[q] = "plan" /\ at[q] <= Count /\ wish.to[at[q]] \in User

USE CreateAssumption DEF Request
-----------------------------------------------------------------------------
(* The settings *)

\* A request's handler uses the settings only as Preferences allows.
LEMMA StepIsPrefsStep == [Next]_vars => [PrefsNext]_prefsVars
<1> SUFFICES ASSUME [Next]_vars PROVE [PrefsNext]_prefsVars
  OBVIOUS
<1>1. CASE Change
  BY <1>1 DEF Change, PrefsNext
<1>2. ASSUME NEW q \in Request, Handle(q) PROVE [PrefsNext]_prefsVars
  <2>1. CASE PlanLookup(q)
    BY <2>1 DEF PlanLookup, PrefsNext
  <2>2. CASE PlanUser(q)
    BY <2>2 DEF PlanUser, PrefsNext
  <2>3. CASE PlanFails(q)
    BY <2>3 DEF PlanFails, PrefsNext
  <2>4. CASE Abandon(q)
    BY <2>4 DEF Abandon, PrefsNext
  <2>5. CASE Reject(q) \/ PlanOutside(q) \/ PlanEnds(q) \/ Insert(q) \/ SaveFile(q)
    BY <2>5 DEF Reject, PlanOutside, PlanEnds, Insert, SaveFile
  <2>6. CASE EnqueueInApp(q) \/ EnqueueEmail(q) \/ EnqueuePush(q) \/ Finish(q)
    BY <2>6 DEF EnqueueInApp, EnqueueEmail, EnqueuePush, Enqueue, Finish
  <2> QED BY <1>2, <2>1, <2>2, <2>3, <2>4, <2>5, <2>6 DEF Handle
<1>3. CASE \E q \in Request : Send(q) \/ GiveUp(q)
  BY <1>3 DEF Send, GiveUp
<1>4. CASE \E n \in Note : Mail(n)
  BY <1>4 DEF Mail
<1>5. CASE UNCHANGED vars
  BY <1>5 DEF vars
<1> QED BY <1>1, <1>2, <1>3, <1>4, <1>5 DEF Next

\* Creating notifications reads and changes the settings as Preferences says.
THEOREM CreatingFollowsPreferences == SafeSpec => PrefsSpec
<1>1. Init => PrefsInit
  BY DEF Init
<1> QED BY <1>1, StepIsPrefsStep, PTL DEF SafeSpec, PrefsSpec
-----------------------------------------------------------------------------
(* The initial states *)

LEMMA CountIsPositive == wish \in Wish => Count \in Nat \ {0}
BY DEF Count

LEMMA InitHolds == Init => CreateInv
<1> SUFFICES ASSUME Init PROVE CreateInv
  OBVIOUS
<1>1. PrefsInv
  BY PrefsInitHolds DEF Init
<1>2. Count \in Nat \ {0}
  BY CountIsPositive DEF Init
<1>3. TypeOK
  BY <1>1, <1>2 DEF Init, TypeOK, PrefsInv, Note, Refused
<1>4. Progress /\ RowsOfNotes /\ NotesBehind /\ ShownAsPlanned /\ PlanSeen
  BY <1>2 DEF Init, Progress, RowsOfNotes, NotesBehind, ShownAsPlanned, PlanSeen, Stmt, Note
<1>5. OptOutHonoured /\ LogAgreesWithFeed /\ RefusalLeavesNothing
  BY DEF Init, OptOutHonoured, LogAgreesWithFeed, RefusalLeavesNothing, Refused, Note
<1> QED BY <1>1, <1>3, <1>4, <1>5 DEF CreateInv
-----------------------------------------------------------------------------
(* A handler's walk through the statements of one notification *)

\* Each statement leads to a later one of the same note or to the next note.
LEMMA ProceedCases ==
  ASSUME NEW q \in Request, TypeOK, step[q] \in Stmt, Proceed(q)
  PROVE  /\ step' \in [Request -> {"idle", "plan", "create"} \cup Stmt]
         /\ at' \in [Request -> Nat]
         /\ \A p \in Request : p # q => step'[p] = step[p] /\ at'[p] = at[p]
         /\ \/ step'[q] \in Stmt /\ at'[q] = at[q]
            \/ step'[q] = "create" /\ at'[q] = at[q] + 1
<1>0. /\ step \in [Request -> {"idle", "plan", "create"} \cup Stmt]
      /\ at \in [Request -> Nat]
  BY CountIsPositive DEF TypeOK, Stmt
<1> DEFINE i == CHOOSE j \in DOMAIN Order : Order[j] = step[q]
<1>1. /\ DOMAIN Order = 1..4 /\ Len(Order) = 4
      /\ Order[1] = "file" /\ Order[2] = "in_app" /\ Order[3] = "email" /\ Order[4] = "push"
  BY DEF Order
<1>2. \E j \in DOMAIN Order : Order[j] = step[q]
  BY <1>1 DEF Stmt
<1>3. i \in 1..4
  BY <1>1, <1>2
<1>4. IF i = 4 THEN NextRecipient(q)
      ELSE step' = [step EXCEPT ![q] = Order[i + 1]] /\ UNCHANGED at
  BY <1>1 DEF Proceed
<1> HIDE DEF i
<1>5. CASE i = 4
  <2>1. step' = [step EXCEPT ![q] = "create"] /\ at' = [at EXCEPT ![q] = at[q] + 1]
    BY <1>4, <1>5 DEF NextRecipient
  <2>2. at[q] + 1 \in Nat
    BY <1>0
  <2> QED BY <1>0, <2>1, <2>2
<1>6. CASE i # 4
  <2>1. Order[i + 1] \in Stmt
    BY <1>1, <1>3, <1>6 DEF Stmt
  <2> QED BY <1>0, <1>4, <1>6, <2>1
<1> QED BY <1>5, <1>6

\* What a statement that writes no note keeps.
LEMMA StatementKeeps ==
  ASSUME NEW q \in Request, CreateInv, step[q] \in Stmt, Proceed(q),
         UNCHANGED <<wish, call, plan, notes, visible, ghosts, seen>>
  PROVE  /\ step' \in [Request -> {"idle", "plan", "create"} \cup Stmt]
         /\ at' \in [Request -> 1..(Count + 1)]
         /\ Progress' /\ NotesBehind' /\ ShownAsPlanned' /\ PlanSeen'
         /\ RefusalLeavesNothing'
<1> USE DEF CreateInv
<1>1. Count \in Nat /\ Count' = Count /\ Note' = Note
  BY CountIsPositive DEF Count, Note, TypeOK
<1>2. /\ step' \in [Request -> {"idle", "plan", "create"} \cup Stmt]
      /\ at' \in [Request -> Nat]
      /\ \A p \in Request : p # q => step'[p] = step[p] /\ at'[p] = at[p]
      /\ \/ step'[q] \in Stmt /\ at'[q] = at[q]
         \/ step'[q] = "create" /\ at'[q] = at[q] + 1
  BY ProceedCases
<1>3. at[q] \in 1..Count /\ Cur(q) \in notes /\ call[q] \in {"open", "lost"}
  BY DEF Progress, TypeOK, Stmt
<1>4. at' \in [Request -> 1..(Count + 1)]
  <2>1. \A p \in Request : at'[p] \in 1..(Count + 1)
    <3>1. \A p \in Request : at[p] \in 1..(Count + 1)
      BY DEF TypeOK
    <3>2. \A p \in Request : p # q => at'[p] = at[p]
      BY <1>2
    <3>3. at'[q] \in 1..(Count + 1)
      <4>1. at'[q] = at[q] \/ at'[q] = at[q] + 1
        BY <1>2
      <4> QED BY <1>1, <1>3, <4>1
    <3> QED BY <3>1, <3>2, <3>3
  <2>2. at' \in [Request -> Nat]
    BY <1>2
  <2> QED BY <2>1, <2>2
<1>5. Progress'
  BY <1>1, <1>2, <1>3 DEF Progress, Stmt, Cur, TypeOK
<1>6. NotesBehind'
  <2>1. \A p \in Request : at[p] \in Nat
    BY DEF TypeOK
  <2>2. ASSUME NEW p \in Request, NEW k \in 1..Count, <<p, k>> \in notes
        PROVE  /\ call[p] # "unsent" /\ step'[p] # "plan"
               /\ step'[p] = "create" => k < at'[p]
               /\ step'[p] \in Stmt => k <= at'[p]
    <3>1. CASE p # q
      BY <1>2, <2>2, <3>1 DEF NotesBehind
    <3>2. CASE p = q
      <4>1. call[q] # "unsent" /\ k <= at[q] /\ k \in Nat
        BY <1>1, <2>2, <3>2 DEF NotesBehind
      <4> QED BY <1>2, <2>1, <3>2, <4>1 DEF Stmt
    <3> QED BY <3>1, <3>2
  <2> QED BY <1>1, <2>2 DEF NotesBehind
<1>7. ShownAsPlanned'
  BY <1>1, <1>2 DEF ShownAsPlanned, Stmt, Cur, Allowed
<1>8. PlanSeen' /\ RefusalLeavesNothing'
  BY <1>1 DEF PlanSeen, RefusalLeavesNothing
<1> QED BY <1>2, <1>4, <1>5, <1>6, <1>7, <1>8

\* What marking a row of the delivery log changes.
RowsType == [Note -> [Channel -> {"none", "pending", "sent", "skipped"}]]

LEMMA MarkChanges ==
  ASSUME NEW n \in Note, NEW c \in Channel, NEW status \in {"none", "pending", "sent", "skipped"},
         rows \in RowsType, Mark(n, c, status)
  PROVE  /\ rows' \in RowsType
         /\ \A m \in Note : \A d \in Channel :
              \/ rows'[m][d] = rows[m][d]
              \/ m = n /\ d = c /\ rows'[m][d] = status
BY DEF Mark, RowsType

\* A row that goes by what is planned keeps the log and the settings' word.
LEMMA EnqueueKeeps ==
  ASSUME NEW q \in Request, NEW c \in Channel, NEW wanted \in BOOLEAN,
         NEW status \in {"pending", "sent", "skipped"},
         CreateInv, PrefsInv', step[q] \in Stmt,
         Enqueue(q, c, wanted, status),
         wanted /\ status # "skipped" => Allowed(q)[c] = "on",
         c = "in_app" => /\ status # "pending"
                         /\ status = "sent" <=> Allowed(q)["in_app"] = "on"
  PROVE  CreateInv'
<1> USE DEF CreateInv
<1>1. Count \in Nat /\ Count' = Count /\ Note' = Note
  BY CountIsPositive DEF Count, Note, TypeOK, Enqueue
<1>2. /\ step' \in [Request -> {"idle", "plan", "create"} \cup Stmt]
      /\ at' \in [Request -> 1..(Count + 1)]
      /\ Progress' /\ NotesBehind' /\ ShownAsPlanned' /\ PlanSeen'
      /\ RefusalLeavesNothing'
  BY StatementKeeps DEF Enqueue
<1>3. at[q] \in 1..Count /\ Cur(q) \in notes /\ Cur(q) \in Note
  <2>1. at[q] \in 1..(Count + 1) /\ at[q] <= Count /\ Cur(q) \in notes
    BY DEF Progress, TypeOK
  <2> QED BY <1>1, <2>1 DEF Note, Cur
<1>4. /\ rows \in RowsType
      /\ \A n \in Note : rows[n]["in_app"] # "pending"
  BY DEF TypeOK, RowsType
<1>5. /\ rows' \in RowsType
      /\ \A n \in Note : \A d \in Channel :
           \/ rows'[n][d] = rows[n][d]
           \/ n = Cur(q) /\ d = c /\ rows'[n][d] = status /\ wanted
  <2>1. CASE UNCHANGED rows
    BY <1>4, <2>1
  <2>2. CASE wanted /\ Mark(Cur(q), c, status)
    BY <1>3, <1>4, <2>2, MarkChanges
  <2> QED BY <2>1, <2>2 DEF Enqueue
<1>6. TypeOK'
  <2>1. \A n \in Note : rows'[n]["in_app"] # "pending"
    BY <1>4, <1>5
  <2>2. /\ excused' \subseteq Note \X (Channel \cup {"note", "file"})
        /\ faults' \in 0..FaultBudget
    BY <1>3 DEF Enqueue, Spend, Excuse, TypeOK
  <2>3. PrefsTypeOK'
    BY DEF PrefsInv
  <2> QED BY <1>1, <1>2, <1>5, <2>1, <2>2, <2>3 DEF Enqueue, TypeOK, Stmt, RowsType
<1>7. RowsOfNotes'
  BY <1>1, <1>3, <1>5 DEF RowsOfNotes, Enqueue
<1>8. OptOutHonoured'
  <2>1. wanted /\ status # "skipped" => "on" \in seen[Cur(q)][c]
    BY <1>3 DEF Progress, PlanSeen, Allowed, Cur, Stmt
  <2> QED BY <1>1, <1>5, <2>1 DEF OptOutHonoured, Enqueue
<1>9. LogAgreesWithFeed'
  BY <1>1, <1>5 DEF LogAgreesWithFeed, ShownAsPlanned, Enqueue
<1> QED BY <1>2, <1>6, <1>7, <1>8, <1>9

LEMMA EnqueueSteps ==
  ASSUME NEW q \in Request, CreateInv, PrefsInv',
         EnqueueInApp(q) \/ EnqueueEmail(q) \/ EnqueuePush(q)
  PROVE  CreateInv'
<1>1. /\ "in_app" \in Channel /\ "email" \in Channel /\ "push" \in Channel
      /\ config.push \in BOOLEAN /\ wish.email \in BOOLEAN
  BY DEF CreateInv, TypeOK
<1>2. CASE EnqueueInApp(q)
  <2>1. InAppStatus(q) \in {"sent", "skipped"}
    BY DEF InAppStatus
  <2> QED BY <1>1, <1>2, <2>1, EnqueueKeeps DEF EnqueueInApp, InAppStatus, Stmt
<1>3. CASE EnqueueEmail(q)
  <2>1. WantsEmail(q) \in BOOLEAN
    BY <1>1 DEF WantsEmail
  <2> QED BY <1>1, <1>3, <2>1, EnqueueKeeps DEF EnqueueEmail, WantsEmail, Stmt
<1>4. CASE EnqueuePush(q)
  <2>1. PushRow(q) \in BOOLEAN
    BY <1>1 DEF PushRow
  <2> QED BY <1>1, <1>4, <2>1, EnqueueKeeps DEF EnqueuePush, PushRow, Stmt
<1> QED BY <1>2, <1>3, <1>4

LEMMA SaveFileKeeps ==
  ASSUME NEW q \in Request, CreateInv, PrefsInv', SaveFile(q)
  PROVE  CreateInv'
<1> USE DEF CreateInv
<1>1. Count \in Nat /\ Count' = Count /\ Note' = Note
  BY CountIsPositive DEF Count, Note, TypeOK, SaveFile
<1>2. /\ step' \in [Request -> {"idle", "plan", "create"} \cup Stmt]
      /\ at' \in [Request -> 1..(Count + 1)]
      /\ Progress' /\ NotesBehind' /\ ShownAsPlanned' /\ PlanSeen'
      /\ RefusalLeavesNothing'
  BY StatementKeeps DEF SaveFile, Stmt
<1>3. Cur(q) \in notes /\ Cur(q) \in Note
  BY DEF Progress, TypeOK, SaveFile, Stmt
<1>4. TypeOK'
  <2>1. /\ excused' \subseteq Note \X (Channel \cup {"note", "file"})
        /\ faults' \in 0..FaultBudget /\ files' \subseteq notes
    BY <1>3 DEF SaveFile, Spend, Excuse, TypeOK
  <2>2. PrefsTypeOK'
    BY DEF PrefsInv
  <2> QED BY <1>1, <1>2, <2>1, <2>2 DEF SaveFile, TypeOK, Stmt
<1>5. RowsOfNotes' /\ OptOutHonoured' /\ LogAgreesWithFeed'
  BY <1>1 DEF RowsOfNotes, OptOutHonoured, LogAgreesWithFeed, SaveFile
<1> QED BY <1>2, <1>4, <1>5

\* The note's INSERT: what is written is the note in hand, shown as planned.
LEMMA InsertKeeps ==
  ASSUME NEW q \in Request, CreateInv, PrefsInv', Insert(q)
  PROVE  CreateInv'
<1> USE DEF CreateInv
<1>1. Count \in Nat /\ Count' = Count /\ Note' = Note
  BY CountIsPositive DEF Count, Note, TypeOK, Insert
<1>2. /\ at \in [Request -> 1..(Count + 1)]
      /\ step \in [Request -> {"idle", "plan", "create"} \cup Stmt]
      /\ notes \subseteq Note /\ visible \subseteq notes
  BY DEF TypeOK, Stmt
<1>3. step[q] = "create" /\ at[q] \in 1..Count /\ call[q] \in {"open", "lost"} /\ Cur(q) \in Note
  BY <1>1, <1>2 DEF Insert, Progress, Cur, Note
<1>4. Cur(q) \notin notes
  BY <1>3 DEF NotesBehind, Cur
<1>5. /\ step' \in [Request -> {"idle", "plan", "create"} \cup Stmt]
      /\ at' \in [Request -> Nat]
      /\ \A p \in Request : p # q => step'[p] = step[p] /\ at'[p] = at[p]
      /\ \/ step'[q] = "file" /\ at'[q] = at[q] /\ notes' = notes \cup {Cur(q)}
         \/ step'[q] = "create" /\ at'[q] = at[q] + 1 /\ notes' \subseteq notes \cup {Cur(q)}
      /\ notes \subseteq notes'
  <2>1. CASE notes' = notes \cup {Cur(q)} /\ step' = [step EXCEPT ![q] = "file"] /\ UNCHANGED at
    BY <1>2, <2>1 DEF Stmt
  <2>2. CASE notes' \in {notes, notes \cup {Cur(q)}} /\ NextRecipient(q)
    <3>1. step' = [step EXCEPT ![q] = "create"] /\ at' = [at EXCEPT ![q] = at[q] + 1]
      BY <2>2 DEF NextRecipient
    <3>2. at \in [Request -> Nat] /\ at[q] + 1 \in Nat
      BY <1>1, <1>2
    <3> QED BY <1>2, <2>2, <3>1, <3>2
  <2>3. Order[1] = "file"
    BY DEF Order
  <2> QED BY <2>1, <2>2, <2>3 DEF Insert
<1>6. at' \in [Request -> 1..(Count + 1)]
  <2>1. at'[q] \in 1..(Count + 1)
    BY <1>1, <1>3, <1>5
  <2>2. \A p \in Request : p # q => at'[p] \in 1..(Count + 1)
    BY <1>2, <1>5
  <2> QED BY <1>5, <2>1, <2>2
<1>7. visible' = visible \cup (IF Allowed(q)["in_app"] = "on" THEN notes' \ notes ELSE {})
  BY DEF Insert
<1>8. TypeOK'
  <2>1. /\ excused' \subseteq Note \X (Channel \cup {"note", "file"})
        /\ faults' \in 0..FaultBudget /\ ghosts' \subseteq notes'
    BY <1>3 DEF Insert, Spend, Excuse, TypeOK
  <2>2. visible' \subseteq notes' /\ files' \subseteq notes' /\ notes' \subseteq Note
    BY <1>2, <1>3, <1>5, <1>7 DEF Insert, TypeOK
  <2>3. PrefsTypeOK'
    BY DEF PrefsInv
  <2>4. step' \in [Request -> {"idle", "plan", "create", "file", "in_app", "email", "push"}]
    BY <1>5 DEF Stmt
  <2>5. UNCHANGED <<wish, config, call, plan, rows, mailed, seen, changes>>
    BY DEF Insert
  <2> QED BY <1>1, <1>6, <2>1, <2>2, <2>3, <2>4, <2>5 DEF TypeOK
<1>9. Progress'
  BY <1>1, <1>2, <1>3, <1>5 DEF Insert, Progress, Stmt, Cur
<1>10. RowsOfNotes' /\ OptOutHonoured'
  BY <1>1, <1>5 DEF RowsOfNotes, OptOutHonoured, Insert
<1>11. NotesBehind'
  BY <1>1, <1>2, <1>3, <1>5 DEF NotesBehind, Insert, Stmt, Cur
<1>12. ShownAsPlanned'
  <2> SUFFICES ASSUME NEW p \in Request, step'[p] \in Stmt
               PROVE  Cur(p)' \in visible' <=> Allowed(p)'["in_app"] = "on"
    BY DEF ShownAsPlanned
  <2>1. CASE p = q
    BY <1>2, <1>3, <1>4, <1>5, <1>7, <2>1 DEF Cur, Allowed, Insert, Stmt
  <2>2. CASE p # q
    <3>1. Cur(p)' = Cur(p) /\ Allowed(p)' = Allowed(p) /\ Cur(p) # Cur(q)
      BY <1>5, <2>2 DEF Cur, Allowed, Insert
    <3>2. Cur(p) \in visible' <=> Cur(p) \in visible
      BY <1>5, <1>7, <3>1
    <3> QED BY <1>5, <2>2, <3>1, <3>2 DEF ShownAsPlanned
  <2> QED BY <2>1, <2>2
<1>13. PlanSeen'
  BY <1>1 DEF PlanSeen, Insert
<1>14. LogAgreesWithFeed'
  <2> SUFFICES ASSUME NEW n \in Note, rows[n]["in_app"] # "none"
               PROVE  rows[n]["in_app"] = "sent" <=> n \in visible'
    BY <1>1 DEF LogAgreesWithFeed, Insert
  <2>1. n \in notes
    BY DEF RowsOfNotes
  <2>2. n \in visible' <=> n \in visible
    BY <1>7, <2>1
  <2> QED BY <2>2 DEF LogAgreesWithFeed
<1>15. RefusalLeavesNothing'
  BY <1>1, <1>3, <1>5 DEF RefusalLeavesNothing, Insert, Refused, Cur
<1> QED BY <1>8, <1>9, <1>10, <1>11, <1>12, <1>13, <1>14, <1>15
-----------------------------------------------------------------------------
(* The other steps *)

\* A handler that ends leaves what it has written and forgets the rest.
LEMMA AnswerKeeps ==
  ASSUME NEW q \in Request, NEW a \in {"400", "500", "503", "201", "lost"},
         CreateInv, PrefsInv', step[q] # "idle", Answer(q, a),
         a \in Refused => \A k \in 1..Count : <<q, k>> \in notes => <<q, k>> \in ghosts,
         UNCHANGED <<wish, config, tables, mailed, ghosts, excused, seen, changes>>,
         faults' \in 0..FaultBudget
  PROVE  CreateInv'
<1> USE DEF CreateInv
<1>1. Count \in Nat /\ Count' = Count /\ Note' = Note
  BY CountIsPositive DEF Count, Note, TypeOK
<1> DEFINE b == IF call[q] = "open" THEN a ELSE call[q]
<1>2. b \in {a, "lost"}
  BY DEF Progress
<1>3. /\ call' = [call EXCEPT ![q] = b]
      /\ step' = [step EXCEPT ![q] = "idle"]
      /\ plan' = [plan EXCEPT ![q] = <<>>]
      /\ at' = [at EXCEPT ![q] = 1]
  BY DEF Answer
<1> HIDE DEF b
<1>4. TypeOK'
  <2>1. /\ call' \in [Request -> {"unsent", "open", "lost", "201"} \cup Refused]
        /\ step' \in [Request -> {"idle", "plan", "create", "file", "in_app", "email", "push"}]
        /\ plan' \in [Request -> Seq(Prefs)]
        /\ at' \in [Request -> 1..(Count + 1)]
    <3>1. b \in {"unsent", "open", "lost", "201"} \cup Refused
      BY <1>2 DEF Refused
    <3>2. <<>> \in Seq(Prefs) /\ 1 \in 1..(Count + 1)
      BY <1>1
    <3> QED BY <1>1, <1>3, <3>1, <3>2 DEF TypeOK
  <2>2. PrefsTypeOK'
    BY DEF PrefsInv
  <2> QED BY <1>1, <2>1, <2>2 DEF TypeOK, tables
<1>5. Progress' /\ NotesBehind' /\ ShownAsPlanned' /\ PlanSeen'
  <2>1. /\ call'[q] = b /\ step'[q] = "idle" /\ plan'[q] = <<>> /\ at'[q] = 1
        /\ b # "open" /\ b # "unsent"
    BY <1>2, <1>3 DEF TypeOK
  <2>2. \A p \in Request : p # q => /\ call'[p] = call[p] /\ step'[p] = step[p]
                                   /\ plan'[p] = plan[p] /\ at'[p] = at[p]
    BY <1>3 DEF TypeOK
  <2>3. Progress'
    BY <1>1, <2>1, <2>2 DEF Progress, Stmt, Cur, tables
  <2>4. NotesBehind'
    BY <1>1, <2>1, <2>2 DEF NotesBehind, Stmt, tables
  <2>5. ShownAsPlanned'
    BY <2>1, <2>2 DEF ShownAsPlanned, Stmt, Cur, Allowed, tables
  <2>6. PlanSeen'
    BY <1>1, <2>1, <2>2 DEF PlanSeen
  <2> QED BY <2>3, <2>4, <2>5, <2>6
<1>6. RowsOfNotes' /\ OptOutHonoured' /\ LogAgreesWithFeed'
  BY <1>1 DEF RowsOfNotes, OptOutHonoured, LogAgreesWithFeed, tables
<1>7. RefusalLeavesNothing'
  BY <1>1, <1>2, <1>3 DEF RefusalLeavesNothing, Refused, tables, TypeOK
<1> QED BY <1>4, <1>5, <1>6, <1>7

\* The service gives up, of which the handler and the tables know nothing.
LEMMA GiveUpKeeps ==
  ASSUME NEW q \in Request, CreateInv, PrefsInv', GiveUp(q)
  PROVE  CreateInv'
<1> USE DEF CreateInv
<1>1. Count' = Count /\ Note' = Note /\ Count \in Nat
  BY CountIsPositive DEF Count, Note, GiveUp, TypeOK
<1>2. /\ call \in [Request -> {"unsent", "open", "lost", "201"} \cup Refused]
      /\ call[q] = "open" /\ call' = [call EXCEPT ![q] = "lost"]
      /\ UNCHANGED <<handler, tables, mailed, ghosts, excused, seen>>
  BY DEF GiveUp, TypeOK
<1>3. /\ call'[q] = "lost"
      /\ \A p \in Request : p # q => call'[p] = call[p]
  BY <1>2
<1>4. TypeOK'
  <2>1. call' \in [Request -> {"unsent", "open", "lost", "201"} \cup Refused]
    BY <1>2
  <2>2. faults' \in 0..FaultBudget
    BY DEF GiveUp, Spend, TypeOK
  <2> QED BY <1>1, <2>1, <2>2 DEF GiveUp, TypeOK, handler, tables, PrefsInv
<1>5. Progress'
  BY <1>1, <1>2, <1>3 DEF Progress, handler, tables, Cur
<1>6. NotesBehind'
  BY <1>1, <1>2, <1>3 DEF NotesBehind, handler, tables
<1>7. RefusalLeavesNothing'
  BY <1>1, <1>2, <1>3 DEF RefusalLeavesNothing, tables, Refused
<1>8. ShownAsPlanned' /\ PlanSeen'
  BY <1>1, <1>2 DEF ShownAsPlanned, PlanSeen, handler, tables, Cur, Allowed
<1>9. RowsOfNotes' /\ OptOutHonoured' /\ LogAgreesWithFeed'
  BY <1>1, <1>2 DEF RowsOfNotes, OptOutHonoured, LogAgreesWithFeed, tables
<1> QED BY <1>4, <1>5, <1>6, <1>7, <1>8, <1>9

\* A recipient planned by settings that were in force.
LEMMA PlannedKeeps ==
  ASSUME NEW q \in Request, NEW prefs \in Prefs, NEW force \in [Channel -> SUBSET Switch],
         CreateInv, PrefsInv', step[q] = "plan", at[q] <= Count,
         Planned(q, prefs, force),
         \A c \in Channel : prefs[c] \in force[c],
         faults' \in 0..FaultBudget
  PROVE  CreateInv'
<1> USE DEF CreateInv
<1>1. Count \in Nat /\ Count' = Count /\ Note' = Note
  BY CountIsPositive DEF Count, Note, TypeOK, Planned
<1>2. at[q] \in 1..Count /\ Cur(q) \in Note /\ Cur(q) \notin notes
  <2>1. at[q] \in 1..Count
    BY <1>1 DEF TypeOK
  <2> QED BY <2>1 DEF NotesBehind, Cur, Note
<1>3. Len(plan[q]) = at[q] - 1 /\ plan[q] \in Seq(Prefs)
  BY DEF Progress, TypeOK
<1>4. /\ plan' = [plan EXCEPT ![q] = Append(plan[q], prefs)]
      /\ at' = [at EXCEPT ![q] = at[q] + 1]
      /\ seen' = [seen EXCEPT ![Cur(q)] = force]
  BY DEF Planned
<1>5. TypeOK'
  <2>1. /\ plan' \in [Request -> Seq(Prefs)]
        /\ seen' \in [Note -> [Channel -> SUBSET Switch]]
    BY <1>2, <1>3, <1>4 DEF TypeOK
  <2>2. at' \in [Request -> 1..(Count + 1)]
    <3>1. at[q] + 1 \in 1..(Count + 1) /\ at \in [Request -> 1..(Count + 1)]
      BY <1>1, <1>2 DEF TypeOK
    <3> QED BY <1>4, <3>1
  <2>3. PrefsTypeOK'
    BY DEF PrefsInv
  <2> QED BY <1>1, <2>1, <2>2, <2>3 DEF Planned, TypeOK, tables
<1>6. /\ at'[q] = at[q] + 1
      /\ Len(plan'[q]) = at[q]
      /\ \A k \in 1..(at[q] - 1) : plan'[q][k] = plan[q][k]
      /\ plan'[q][at[q]] = prefs
      /\ \A p \in Request : p # q => plan'[p] = plan[p] /\ at'[p] = at[p]
  BY <1>2, <1>3, <1>4 DEF TypeOK
<1>7. \A n \in Note : seen'[n] = IF n = Cur(q) THEN force ELSE seen[n]
  BY <1>2, <1>4 DEF TypeOK
<1>8. Progress'
  BY <1>1, <1>2, <1>6 DEF Progress, Planned, Stmt, Cur, tables
<1>9. NotesBehind' /\ ShownAsPlanned'
  BY <1>1, <1>6 DEF NotesBehind, ShownAsPlanned, Planned, Stmt, Cur, Allowed, tables
<1>10. PlanSeen'
  <2> SUFFICES ASSUME NEW p \in Request, NEW k \in 1..Len(plan'[p]), NEW c \in Channel, k <= Count
               PROVE  plan'[p][k][c] \in seen'[<<p, k>>][c]
    BY <1>1 DEF PlanSeen
  <2>1. <<p, k>> \in Note /\ (<<p, k>> = Cur(q) <=> p = q /\ k = at[q])
    <3>1. Len(plan'[p]) \in Nat
      BY <1>5 DEF TypeOK
    <3> QED BY <1>1, <3>1 DEF Note, Cur
  <2>2. CASE p = q /\ k = at[q]
    BY <1>6, <1>7, <2>1, <2>2
  <2>3. CASE p # q
    BY <1>6, <1>7, <2>1, <2>3 DEF PlanSeen
  <2>4. CASE p = q /\ k # at[q]
    <3>1. k \in 1..(at[q] - 1) /\ k \in 1..Len(plan[q])
      BY <1>2, <1>3, <1>6, <2>4
    <3> QED BY <1>6, <1>7, <2>1, <2>4, <3>1 DEF PlanSeen
  <2> QED BY <2>2, <2>3, <2>4
<1>11. RowsOfNotes' /\ LogAgreesWithFeed'
  BY <1>1 DEF RowsOfNotes, LogAgreesWithFeed, Planned, tables
<1>12. OptOutHonoured'
  BY <1>1, <1>2, <1>7 DEF OptOutHonoured, RowsOfNotes, Planned, tables
<1>13. RefusalLeavesNothing'
  BY <1>1 DEF RefusalLeavesNothing, Planned, tables
<1> QED BY <1>5, <1>8, <1>9, <1>10, <1>11, <1>12, <1>13

LEMMA PlanSteps ==
  ASSUME NEW q \in Request, CreateInv, LookupUnderWay, PrefsInv',
         PlanOutside(q) \/ PlanUser(q) \/ PlanFails(q)
  PROVE  CreateInv'
<1>1. /\ faults \in 0..FaultBudget /\ FaultBudget \in Nat
      /\ inForce \in [Request -> [Channel -> SUBSET Switch]]
      /\ resolved' \in [Request -> Prefs]
      /\ stage \in [Request -> {"idle", "half", "done"}]
  BY DEF CreateInv, TypeOK, PrefsInv, PrefsTypeOK
<1>2. CASE PlanOutside(q)
  <2>1. /\ EmailOnly \in Prefs /\ Only(EmailOnly) \in [Channel -> SUBSET Switch]
        /\ \A c \in Channel : EmailOnly[c] \in Only(EmailOnly)[c]
    BY DEF EmailOnly, Only, Prefs, Switch
  <2> QED BY <1>1, <1>2, <2>1, PlannedKeeps DEF PlanOutside, Planning
<1>3. CASE PlanUser(q)
  <2>1. stage[q] = "half" /\ stage'[q] = "done" /\ UNCHANGED inForce
    BY <1>1, <1>3 DEF PlanUser, GetUserOverride
  <2>2. at[q] <= Count
    BY <2>1 DEF LookupUnderWay
  <2>3. \A c \in Channel : resolved'[q][c] \in inForce[q][c]
    BY <2>1 DEF PrefsInv, ResolvedWasInForce
  <2> QED BY <1>1, <1>3, <2>2, <2>3, PlannedKeeps DEF PlanUser
<1>4. CASE PlanFails(q)
  <2>1. /\ FailOpen \in Prefs /\ Only(AllOn) \in [Channel -> SUBSET Switch]
        /\ \A c \in Channel : FailOpen[c] \in Only(AllOn)[c]
    BY DEF FailOpen, AllOn, Only, Prefs, Switch
  <2>2. faults' \in 0..FaultBudget
    BY <1>1, <1>4 DEF PlanFails, Spend
  <2> QED BY <1>4, <2>1, <2>2, PlannedKeeps DEF PlanFails, Planning
<1> QED BY <1>2, <1>3, <1>4

LEMMA AnswerSteps ==
  ASSUME NEW q \in Request, CreateInv, PrefsInv',
         \/ Reject(q) \/ Finish(q) \/ Abandon(q)
         \/ PlanEnds(q) /\ Doomed
  PROVE  CreateInv'
<1>1. faults \in 0..FaultBudget /\ FaultBudget \in Nat
  BY DEF CreateInv, TypeOK
<1>2. step[q] = "plan" => \A k \in 1..Count : <<q, k>> \notin notes
  BY DEF CreateInv, NotesBehind
<1>3. CASE Reject(q)
  BY <1>1, <1>2, <1>3, AnswerKeeps DEF Reject, Rejectable, Malformed, Planning
<1>4. CASE PlanEnds(q) /\ Doomed
  BY <1>1, <1>2, <1>4, AnswerKeeps DEF PlanEnds
<1>5. CASE Finish(q)
  <2>1. faults' \in 0..FaultBudget
    BY <1>1, <1>5 DEF Finish, Spend
  <2>2. CASE Answer(q, Status(q))
    <3>1. /\ Status(q) \in {"201", "500"}
          /\ Status(q) \in Refused =>
               \A k \in 1..Count : <<q, k>> \in notes => <<q, k>> \in ghosts
      BY DEF Status, Refused
    <3> QED BY <1>5, <2>1, <2>2, <3>1, AnswerKeeps DEF Finish
  <2>3. CASE Answer(q, "lost")
    BY <1>5, <2>1, <2>3, AnswerKeeps DEF Finish, Refused
  <2> QED BY <1>5, <2>2, <2>3 DEF Finish
<1>6. CASE Abandon(q)
  <2>1. faults' \in 0..FaultBudget
    BY <1>1, <1>6 DEF Abandon, Spend
  <2> QED BY <1>6, <2>1, AnswerKeeps DEF Abandon, Refused
<1> QED BY <1>3, <1>4, <1>5, <1>6

\* The request is sent, or planned to its end.
LEMMA MoveSteps ==
  ASSUME NEW q \in Request, CreateInv, PrefsInv',
         \/ Send(q)
         \/ PlanEnds(q) /\ ~Doomed
  PROVE  CreateInv'
<1> USE DEF CreateInv
<1>1. Count \in Nat \ {0} /\ Count' = Count /\ Note' = Note
  BY CountIsPositive DEF Count, Note, TypeOK, Send, PlanEnds
<1>2. PrefsTypeOK'
  BY DEF PrefsInv
<1>3. CASE Send(q)
  <2>1. step[q] = "idle" /\ \A k \in 1..Count : <<q, k>> \notin notes
    BY <1>3 DEF Send, Progress, NotesBehind
  <2>2. TypeOK'
    BY <1>1, <1>2, <1>3 DEF Send, TypeOK, tables
  <2>3. Progress' /\ NotesBehind' /\ ShownAsPlanned'
    <3>1. /\ call'[q] = "open" /\ step'[q] = "plan"
          /\ \A p \in Request : p # q => call'[p] = call[p] /\ step'[p] = step[p]
          /\ UNCHANGED <<plan, at, notes, visible>>
      BY <1>3 DEF Send, TypeOK, tables
    <3>2. Len(plan[q]) = at[q] - 1
      BY <2>1 DEF Progress
    <3>3. Progress'
      BY <1>1, <3>1, <3>2 DEF Progress, Stmt, Cur
    <3>4. NotesBehind' /\ ShownAsPlanned'
      BY <1>1, <2>1, <3>1 DEF NotesBehind, ShownAsPlanned, Stmt, Cur, Allowed
    <3> QED BY <3>3, <3>4
  <2>4. RowsOfNotes' /\ PlanSeen' /\ OptOutHonoured' /\ LogAgreesWithFeed' /\ RefusalLeavesNothing'
    BY <1>1, <1>3 DEF Send, RowsOfNotes, PlanSeen, OptOutHonoured, LogAgreesWithFeed,
                      RefusalLeavesNothing, Refused, tables, TypeOK
  <2> QED BY <2>2, <2>3, <2>4
<1>4. CASE PlanEnds(q) /\ ~Doomed
  <2>1. /\ step[q] = "plan" /\ at[q] > Count /\ at[q] \in 1..(Count + 1)
        /\ \A k \in 1..Count : <<q, k>> \notin notes
        /\ step' = [step EXCEPT ![q] = "create"] /\ at' = [at EXCEPT ![q] = 1]
        /\ UNCHANGED <<wish, config, call, plan, tables, mailed, ghosts, excused, seen,
                       changes, faults>>
    BY <1>4 DEF PlanEnds, NotesBehind, TypeOK
  <2>2. TypeOK'
    BY <1>1, <1>2, <2>1 DEF TypeOK, tables
  <2>3. Progress'
    BY <1>1, <2>1 DEF Progress, Stmt, Cur, tables, TypeOK
  <2>4. NotesBehind' /\ ShownAsPlanned'
    BY <1>1, <2>1 DEF NotesBehind, ShownAsPlanned, Stmt, Cur, Allowed, tables, TypeOK
  <2>5. RowsOfNotes' /\ PlanSeen' /\ OptOutHonoured' /\ LogAgreesWithFeed' /\ RefusalLeavesNothing'
    BY <1>1, <2>1 DEF RowsOfNotes, PlanSeen, OptOutHonoured, LogAgreesWithFeed,
                      RefusalLeavesNothing, tables
  <2> QED BY <2>2, <2>3, <2>4, <2>5
<1> QED BY <1>3, <1>4

LEMMA MailKeeps ==
  ASSUME CreateInv, PrefsInv', NEW n \in Note, Mail(n)
  PROVE  CreateInv'
<1> USE DEF CreateInv
<1>1. Count' = Count /\ Note' = Note
  BY DEF Count, Note, Mail
<1>2. rows \in RowsType /\ rows[n]["email"] = "pending" /\ "email" \in Channel
  BY DEF TypeOK, Mail, RowsType
<1>3. /\ rows' \in RowsType
      /\ \A m \in Note : \A c \in Channel :
           \/ rows'[m][c] = rows[m][c]
           \/ m = n /\ c = "email" /\ rows'[m][c] = "sent"
  BY <1>2, MarkChanges DEF Mail
<1>4. TypeOK'
  <2>1. \A m \in Note : rows'[m]["in_app"] # "pending"
    BY <1>3 DEF TypeOK
  <2>2. mailed' \in [Note -> {"no", "plain", "whole"}]
    <3>1. mailed \in [Note -> {"no", "plain", "whole"}]
      BY DEF TypeOK
    <3>2. mailed' \in {[mailed EXCEPT ![n] = "whole"], [mailed EXCEPT ![n] = "plain"]}
      BY DEF Mail
    <3> QED BY <3>1, <3>2
  <2>3. /\ faults' \in 0..FaultBudget
        /\ excused' \subseteq Note \X (Channel \cup {"note", "file"})
    BY DEF Mail, Spend, TypeOK
  <2>4. PrefsTypeOK'
    BY DEF PrefsInv
  <2> QED BY <1>1, <1>3, <2>1, <2>2, <2>3, <2>4 DEF Mail, TypeOK, handler, RowsType
<1>5. Progress' /\ NotesBehind' /\ ShownAsPlanned' /\ PlanSeen' /\ RefusalLeavesNothing'
  BY <1>1 DEF Progress, NotesBehind, ShownAsPlanned, PlanSeen, RefusalLeavesNothing, Mail,
              handler, Cur, Allowed
<1>6. RowsOfNotes' /\ OptOutHonoured' /\ LogAgreesWithFeed'
  BY <1>1, <1>2, <1>3 DEF RowsOfNotes, OptOutHonoured, LogAgreesWithFeed, Mail
<1> QED BY <1>4, <1>5, <1>6

\* Nothing of a request changes.
LEMMA QuietSteps ==
  ASSUME CreateInv, PrefsInv', changes' \in 0..ChangeBudget,
         UNCHANGED <<wish, config, call, handler, tables, mailed, ghosts, excused, seen, faults>>
  PROVE  CreateInv'
<1> USE DEF CreateInv
<1>1. Count' = Count /\ Note' = Note
  BY DEF Count, Note
<1>2. TypeOK'
  BY <1>1 DEF TypeOK, handler, tables, PrefsInv
<1>3. Progress' /\ NotesBehind' /\ ShownAsPlanned' /\ PlanSeen' /\ RefusalLeavesNothing'
  BY <1>1 DEF Progress, NotesBehind, ShownAsPlanned, PlanSeen, RefusalLeavesNothing,
              handler, tables, Cur, Allowed
<1>4. RowsOfNotes' /\ OptOutHonoured' /\ LogAgreesWithFeed'
  BY <1>1 DEF RowsOfNotes, OptOutHonoured, LogAgreesWithFeed, tables
<1> QED BY <1>2, <1>3, <1>4
-----------------------------------------------------------------------------
(* The invariant and the theorems *)

Inv == CreateInv /\ LookupUnderWay

LEMMA LookupStep == Inv /\ [Next]_vars => LookupUnderWay'
<1> SUFFICES ASSUME Inv, [Next]_vars PROVE LookupUnderWay'
  OBVIOUS
<1> USE DEF Inv, CreateInv
<1>1. /\ stage \in [Request -> {"idle", "half", "done"}]
      /\ step \in [Request -> {"idle", "plan", "create"} \cup Stmt]
      /\ at \in [Request -> 1..(Count + 1)] /\ Count \in Nat
  BY CountIsPositive DEF PrefsInv, PrefsTypeOK, TypeOK, Stmt
<1>2. Count' = Count /\ wish' = wish
  BY DEF Next, vars, Count, Send, Mail, Change, Handle, Reject, PlanOutside, PlanLookup, PlanUser,
         PlanFails, PlanEnds, Insert, SaveFile, EnqueueInApp, EnqueueEmail, EnqueuePush, Enqueue,
         Finish, Abandon, Planned, GiveUp
<1>3. CASE UNCHANGED <<stage, step, at>>
  BY <1>2, <1>3 DEF LookupUnderWay
<1>4. ASSUME NEW q \in Request, stage'[q] # "half",
             \A p \in Request : p # q => /\ stage'[p] = stage[p]
                                         /\ step'[p] = step[p] /\ at'[p] = at[p]
      PROVE  LookupUnderWay'
  BY <1>2, <1>4 DEF LookupUnderWay
<1>5. ASSUME NEW q \in Request, PlanLookup(q) PROVE LookupUnderWay'
  BY <1>1, <1>2, <1>5 DEF PlanLookup, Planning, GetTenantDefaults, LookupUnderWay, handler
<1>6. ASSUME NEW q \in Request, Reject(q) \/ PlanOutside(q) \/ PlanEnds(q) \/ Finish(q)
      PROVE  LookupUnderWay'
  <2>1. stage[q] # "half"
    BY <1>1, <1>6 DEF Reject, Rejectable, Malformed, PlanOutside, Planning, PlanEnds,
                         Finish, LookupUnderWay
  <2>2. /\ stage' = stage
        /\ \A p \in Request : p # q => step'[p] = step[p] /\ at'[p] = at[p]
    BY <1>1, <1>6 DEF Reject, PlanOutside, PlanEnds, Finish, Planned, Answer, prefsVars, lookup
  <2> QED BY <1>4, <2>1, <2>2
<1>7. ASSUME NEW q \in Request, PlanUser(q) \/ PlanFails(q) \/ Abandon(q)
      PROVE  LookupUnderWay'
  <2>1. /\ stage'[q] # "half"
        /\ \A p \in Request : p # q => stage'[p] = stage[p]
    BY <1>1, <1>7 DEF PlanUser, PlanFails, Abandon, GetUserOverride, LookupEnds
  <2>2. \A p \in Request : p # q => step'[p] = step[p] /\ at'[p] = at[p]
    BY <1>1, <1>7 DEF PlanUser, PlanFails, Abandon, Planned, Answer
  <2> QED BY <1>4, <2>1, <2>2
<1>8. ASSUME NEW q \in Request,
             SaveFile(q) \/ EnqueueInApp(q) \/ EnqueueEmail(q) \/ EnqueuePush(q)
      PROVE  LookupUnderWay'
  <2>1. step[q] \in Stmt /\ Proceed(q) /\ stage' = stage
    BY <1>8 DEF SaveFile, EnqueueInApp, EnqueueEmail, EnqueuePush, Enqueue, Stmt, prefsVars, lookup
  <2>2. stage[q] # "half"
    BY <2>1 DEF LookupUnderWay, Stmt
  <2> QED BY <1>4, <2>1, <2>2, ProceedCases
<1>9. ASSUME NEW q \in Request, Insert(q) PROVE LookupUnderWay'
  <2>1. stage[q] # "half" /\ stage' = stage
    BY <1>9 DEF Insert, LookupUnderWay, prefsVars, lookup
  <2>2. \A p \in Request : p # q => step'[p] = step[p] /\ at'[p] = at[p]
    BY <1>1, <1>9 DEF Insert, NextRecipient
  <2> QED BY <1>4, <2>1, <2>2
<1>10. ASSUME NEW q \in Request, Send(q) PROVE LookupUnderWay'
  <2>1. step[q] = "idle" /\ stage' = stage
    BY <1>10 DEF Send, Progress, prefsVars, lookup
  <2>2. \A p \in Request : p # q => step'[p] = step[p] /\ at'[p] = at[p]
    BY <1>1, <1>10 DEF Send
  <2>3. stage[q] # "half"
    BY <2>1 DEF LookupUnderWay
  <2> QED BY <1>4, <2>1, <2>2, <2>3
<1>11. CASE Change
  BY <1>3, <1>11 DEF Change, SetUserOverride, SetTenantDefaults, handler
<1>12. CASE \E n \in Note : Mail(n)
  BY <1>3, <1>12 DEF Mail, handler, prefsVars, lookup
<1>13. CASE UNCHANGED vars \/ \E q \in Request : GiveUp(q)
  BY <1>3, <1>13 DEF vars, GiveUp, handler, prefsVars, lookup
<1> QED
  BY <1>5, <1>6, <1>7, <1>8, <1>9, <1>10, <1>11, <1>12, <1>13 DEF Next, Handle

LEMMA CreateStep == Inv /\ [Next]_vars => Inv'
<1> SUFFICES ASSUME Inv, [Next]_vars PROVE CreateInv'
  BY LookupStep DEF Inv
<1> USE DEF Inv
<1>1. PrefsInv'
  BY StepIsPrefsStep, PrefsStep DEF CreateInv
<1>2. changes \in 0..ChangeBudget
  BY DEF CreateInv, TypeOK
<1>3. ASSUME NEW q \in Request, Handle(q) PROVE CreateInv'
  <2>1. CASE PlanOutside(q) \/ PlanUser(q) \/ PlanFails(q)
    BY <1>1, <2>1, PlanSteps
  <2>2. CASE Reject(q) \/ Finish(q) \/ Abandon(q)
    BY <1>1, <2>2, AnswerSteps
  <2>3. CASE PlanEnds(q)
    BY <1>1, <2>3, AnswerSteps, MoveSteps
  <2>4. CASE Insert(q)
    BY <1>1, <2>4, InsertKeeps
  <2>5. CASE SaveFile(q)
    BY <1>1, <2>5, SaveFileKeeps
  <2>6. CASE EnqueueInApp(q) \/ EnqueueEmail(q) \/ EnqueuePush(q)
    BY <1>1, <2>6, EnqueueSteps
  <2>7. CASE PlanLookup(q)
    BY <1>1, <1>2, <2>7, QuietSteps DEF PlanLookup
  <2> QED BY <1>3, <2>1, <2>2, <2>3, <2>4, <2>5, <2>6, <2>7 DEF Handle
<1>4. ASSUME NEW q \in Request, Send(q) \/ GiveUp(q) PROVE CreateInv'
  BY <1>1, <1>4, MoveSteps, GiveUpKeeps
<1>5. CASE Change
  <2>1. changes' \in 0..ChangeBudget
    BY <1>2, <1>5 DEF Change
  <2> QED BY <1>1, <1>5, <2>1, QuietSteps DEF Change
<1>6. CASE \E n \in Note : Mail(n)
  BY <1>1, <1>6, MailKeeps
<1>7. CASE UNCHANGED vars
  BY <1>1, <1>2, <1>7, QuietSteps DEF vars
<1> QED BY <1>3, <1>4, <1>5, <1>6, <1>7 DEF Next

LEMMA Invariance == SafeSpec => []Inv
<1>1. Init => Inv
  BY InitHolds DEF Init, PrefsInit, Inv, LookupUnderWay
<1> QED BY <1>1, CreateStep, PTL DEF SafeSpec

\* The state of creating notifications is well typed.
THEOREM TypeCorrect == SafeSpec => []TypeOK
<1>1. Inv => TypeOK
  BY DEF Inv, CreateInv
<1> QED BY <1>1, Invariance, PTL

\* However settings change while requests plan and create, nobody is notified
\* on a channel that was off throughout the lookup of their settings.
THEOREM OptOutsAreHonoured == SafeSpec => []OptOutHonoured
<1>1. Inv => OptOutHonoured
  BY DEF Inv, CreateInv
<1> QED BY <1>1, Invariance, PTL

\* The delivery log and the feed, written from one lookup in two statements,
\* agree on the in-app channel.
THEOREM LogAgrees == SafeSpec => []LogAgreesWithFeed
<1>1. Inv => LogAgreesWithFeed
  BY DEF Inv, CreateInv
<1> QED BY <1>1, Invariance, PTL

\* A request refused by validation, for want of a channel or because every
\* INSERT failed has left nothing it knows of.
THEOREM RefusalsLeaveNothing == SafeSpec => []RefusalLeavesNothing
<1>1. Inv => RefusalLeavesNothing
  BY DEF Inv, CreateInv
<1> QED BY <1>1, Invariance, PTL
-----------------------------------------------------------------------------
(* What a step adds, and what it leaves of the requests it is not about *)

\* No statement takes back what another has written.
Grows ==
  /\ UNCHANGED <<wish, config>>
  /\ notes \subseteq notes' /\ files \subseteq files'
  /\ excused \subseteq excused'
  /\ \A n \in Note : \A c \in Channel : rows[n][c] # "none" => rows'[n][c] # "none"

LEMMA StepGrows == Inv /\ [Next]_vars => Grows
<1> SUFFICES ASSUME Inv, [Next]_vars PROVE Grows
  OBVIOUS
<1> USE DEF Grows
<1>1. rows \in RowsType /\ {"email", "in_app", "push"} = Channel
  BY DEF Inv, CreateInv, TypeOK, RowsType
<1>2. ASSUME NEW q \in Request, Handle(q) PROVE Grows
  <2>1. CASE \/ PlanOutside(q) \/ PlanLookup(q) \/ PlanUser(q) \/ PlanFails(q) \/ PlanEnds(q)
             \/ Reject(q) \/ Finish(q) \/ Abandon(q)
    BY <2>1 DEF PlanOutside, PlanLookup, PlanUser, PlanFails, PlanEnds, Planned, Reject, Finish,
                Abandon, tables
  <2>2. CASE Insert(q)
    BY <2>2 DEF Insert, Excuse
  <2>3. CASE SaveFile(q)
    BY <2>3 DEF SaveFile, Excuse
  <2>4. ASSUME NEW c \in Channel, NEW wanted, NEW status \in {"pending", "sent", "skipped"},
               Enqueue(q, c, wanted, status), step[q] \in Stmt
        PROVE  Grows
    <3>1. Cur(q) \in Note
      BY <2>4 DEF Inv, CreateInv, Progress, TypeOK
    <3>2. \A n \in Note : \A d \in Channel : rows[n][d] # "none" => rows'[n][d] # "none"
      BY <1>1, <2>4, <3>1, MarkChanges DEF Enqueue
    <3> QED BY <2>4, <3>2 DEF Enqueue, Excuse
  <2>5. CASE EnqueueInApp(q) \/ EnqueueEmail(q) \/ EnqueuePush(q)
    BY <1>1, <2>4, <2>5 DEF EnqueueInApp, EnqueueEmail, EnqueuePush, InAppStatus, Stmt
  <2> QED BY <1>2, <2>1, <2>2, <2>3, <2>5 DEF Handle
<1>3. CASE \E q \in Request : Send(q) \/ GiveUp(q)
  BY <1>3 DEF Send, GiveUp, tables
<1>4. CASE \E n \in Note : Mail(n)
  BY <1>1, <1>4, MarkChanges DEF Mail
<1>5. CASE Change \/ UNCHANGED vars
  BY <1>5 DEF Change, tables, vars
<1> QED BY <1>2, <1>3, <1>4, <1>5 DEF Next

\* What a handler knows of request p.
SameRequest(p) ==
  /\ call'[p] = call[p] /\ step'[p] = step[p] /\ at'[p] = at[p] /\ plan'[p] = plan[p]
  /\ \A k \in 1..Count : seen'[<<p, k>>] = seen[<<p, k>>]

LEMMA OtherRequests ==
  ASSUME Inv, NEW q \in Request, Send(q) \/ GiveUp(q) \/ Handle(q), NEW p \in Request, p # q
  PROVE  SameRequest(p)
<1>1. /\ call \in [Request -> {"unsent", "open", "lost", "201"} \cup Refused]
      /\ step \in [Request -> {"idle", "plan", "create"} \cup Stmt]
      /\ at \in [Request -> Nat] /\ plan \in [Request -> Seq(Prefs)]
      /\ seen \in [Note -> [Channel -> SUBSET Switch]]
      /\ \A k \in 1..Count : <<p, k>> \in Note /\ <<p, k>> # Cur(q)
  BY CountIsPositive DEF Inv, CreateInv, TypeOK, Stmt, Note, Cur
<1>2. ASSUME NEW a, Answer(q, a), UNCHANGED seen PROVE SameRequest(p)
  BY <1>1, <1>2 DEF Answer, SameRequest
<1>3. ASSUME NEW prefs, NEW force, Planned(q, prefs, force) PROVE SameRequest(p)
  BY <1>1, <1>3 DEF Planned, SameRequest
<1>4. CASE Reject(q) \/ Finish(q) \/ Abandon(q)
  BY <1>2, <1>4 DEF Reject, Finish, Abandon
<1>5. CASE PlanOutside(q) \/ PlanUser(q) \/ PlanFails(q)
  BY <1>3, <1>5 DEF PlanOutside, PlanUser, PlanFails
<1>6. CASE PlanEnds(q)
  BY <1>1, <1>2, <1>6 DEF PlanEnds, SameRequest
<1>7. CASE PlanLookup(q)
  BY <1>7 DEF PlanLookup, SameRequest, handler
<1>8. CASE Insert(q)
  BY <1>1, <1>8 DEF Insert, NextRecipient, SameRequest
<1>9. CASE SaveFile(q) \/ EnqueueInApp(q) \/ EnqueueEmail(q) \/ EnqueuePush(q)
  <2>1. /\ step[q] \in Stmt /\ Proceed(q) /\ UNCHANGED <<call, plan, seen>>
    BY <1>9 DEF SaveFile, EnqueueInApp, EnqueueEmail, EnqueuePush, Enqueue, Stmt
  <2> QED BY <2>1, ProceedCases DEF SameRequest, Inv, CreateInv
<1>10. CASE Send(q) \/ GiveUp(q)
  BY <1>1, <1>10 DEF Send, GiveUp, SameRequest, handler
<1> QED BY <1>4, <1>5, <1>6, <1>7, <1>8, <1>9, <1>10 DEF Handle

\* What the email worker and the settings' users leave alone.
LEMMA OutsideSteps ==
  ASSUME Change \/ (\E n \in Note : Mail(n)) \/ UNCHANGED vars, NEW p \in Request
  PROVE  SameRequest(p) /\ UNCHANGED <<call, step, at, plan>>
BY DEF Change, Mail, vars, handler, SameRequest

\* The statements' order.
LEMMA ProceedOrder ==
  ASSUME NEW q \in Request, TypeOK, step[q] \in Stmt, Proceed(q)
  PROVE  /\ step[q] = "file" => step'[q] = "in_app" /\ at'[q] = at[q]
         /\ step[q] = "in_app" => step'[q] = "email" /\ at'[q] = at[q]
         /\ step[q] = "email" => step'[q] = "push" /\ at'[q] = at[q]
         /\ step[q] = "push" => step'[q] = "create" /\ at'[q] = at[q] + 1
<1>0. /\ step \in [Request -> {"idle", "plan", "create"} \cup Stmt]
      /\ at \in [Request -> Nat]
  BY CountIsPositive DEF TypeOK, Stmt
<1> DEFINE i == CHOOSE j \in DOMAIN Order : Order[j] = step[q]
<1>1. /\ DOMAIN Order = 1..4 /\ Len(Order) = 4
      /\ Order[1] = "file" /\ Order[2] = "in_app" /\ Order[3] = "email" /\ Order[4] = "push"
  BY DEF Order
<1>2. \E j \in DOMAIN Order : Order[j] = step[q]
  BY <1>1 DEF Stmt
<1>3. i \in 1..4 /\ Order[i] = step[q]
  BY <1>1, <1>2
<1>4. IF i = 4 THEN NextRecipient(q)
      ELSE step' = [step EXCEPT ![q] = Order[i + 1]] /\ UNCHANGED at
  BY <1>1 DEF Proceed
<1> HIDE DEF i
<1> QED BY <1>0, <1>1, <1>3, <1>4 DEF NextRecipient, Stmt
-----------------------------------------------------------------------------
(* The attachment is there before the email worker may look for it *)

\* A note whose email is to be whole has its file, or a fault has cost it.
FileKept(n) == n \in files \/ <<n, "file">> \in excused

FileReady(q) == step[q] \in {"in_app", "email"} /\ wish.file /\ WantsEmail(q) => FileKept(Cur(q))

FilesFirst ==
  /\ \A q \in Request : FileReady(q)
  /\ wish.file => \A n \in Note : rows[n]["email"] = "pending" => FileKept(n)

FileInv == FilesFirst /\ EmailIsWhole

\* Only the email's own statement makes it pending.
EmailRow(q) ==
  /\ UNCHANGED mailed
  /\ \/ \A n \in Note : rows'[n]["email"] = rows[n]["email"]
     \/ /\ wish.file => FileKept(Cur(q))
        /\ \A n \in Note : n # Cur(q) => rows'[n]["email"] = rows[n]["email"]

LEMMA FileSteps ==
  ASSUME Inv, FilesFirst, Grows, NEW q \in Request, Send(q) \/ GiveUp(q) \/ Handle(q)
  PROVE  FileReady(q)' /\ EmailRow(q)
<1> USE DEF Inv, CreateInv
<1>1. /\ step \in [Request -> {"idle", "plan", "create"} \cup Stmt]
      /\ rows \in RowsType /\ {"email", "in_app", "push"} = Channel
  BY DEF TypeOK, Stmt, RowsType
<1>2. ASSUME step'[q] \notin {"in_app", "email"}, UNCHANGED <<rows, mailed>>
      PROVE  FileReady(q)' /\ EmailRow(q)
  BY <1>2 DEF FileReady, EmailRow
<1>3. CASE Reject(q) \/ Finish(q) \/ Abandon(q)
  BY <1>1, <1>2, <1>3 DEF Reject, Finish, Abandon, Answer, tables
<1>4. CASE PlanOutside(q) \/ PlanUser(q) \/ PlanFails(q) \/ PlanLookup(q)
  <2>1. step[q] = "plan" /\ UNCHANGED <<step, rows, mailed>>
    BY <1>4 DEF PlanOutside, PlanUser, PlanFails, PlanLookup, Planning, Planned, tables, handler
  <2> QED BY <1>2, <2>1
<1>5. CASE PlanEnds(q)
  BY <1>1, <1>2, <1>5 DEF PlanEnds, Answer, tables
<1>6. CASE Send(q)
  BY <1>1, <1>2, <1>6 DEF Send, tables
<1>7. CASE Insert(q)
  BY <1>1, <1>2, <1>7 DEF Insert, NextRecipient, Order
<1>8. CASE SaveFile(q)
  <2>1. step[q] = "file" /\ UNCHANGED <<wish, plan, at, rows, mailed>>
    BY <1>8, ProceedOrder DEF SaveFile, Stmt, Proceed, Order
  <2>2. wish.file /\ WantsEmail(q) => FileKept(Cur(q))'
    BY <1>8, <2>1 DEF SaveFile, Excuse, FileKept, Cur
  <2> QED BY <2>1, <2>2 DEF FileReady, EmailRow, WantsEmail, Allowed, Cur
<1>9. ASSUME NEW c \in Channel, NEW wanted, NEW status \in {"pending", "sent", "skipped"},
             Enqueue(q, c, wanted, status), step[q] \in Stmt
      PROVE  /\ Proceed(q) /\ UNCHANGED <<wish, plan, mailed>>
             /\ \A n \in Note : n # Cur(q) \/ c # "email" \/ ~wanted => rows'[n]["email"] = rows[n]["email"]
  <2>1. Cur(q) \in Note
    BY <1>9 DEF Progress, TypeOK
  <2> QED BY <1>1, <1>9, <2>1, MarkChanges DEF Enqueue
<1>10. CASE EnqueueInApp(q)
  <2>1. /\ Proceed(q) /\ UNCHANGED <<wish, plan, mailed>> /\ step[q] = "in_app"
        /\ \A n \in Note : rows'[n]["email"] = rows[n]["email"]
    BY <1>1, <1>9, <1>10 DEF EnqueueInApp, InAppStatus, Stmt
  <2>2. at'[q] = at[q]
    BY <2>1, ProceedOrder DEF Stmt
  <2> QED BY <2>1, <2>2 DEF FilesFirst, FileReady, EmailRow, Grows, WantsEmail, Allowed, Cur, FileKept
<1>11. CASE EnqueueEmail(q)
  <2>1. /\ Proceed(q) /\ UNCHANGED mailed /\ step[q] = "email"
        /\ \A n \in Note : n # Cur(q) \/ ~WantsEmail(q) => rows'[n]["email"] = rows[n]["email"]
    BY <1>1, <1>9, <1>11 DEF EnqueueEmail, Stmt
  <2>2. step'[q] = "push"
    BY <2>1, ProceedOrder DEF Stmt
  <2> QED BY <2>1, <2>2 DEF FilesFirst, FileReady, EmailRow
<1>12. CASE EnqueuePush(q)
  <2>1. /\ Proceed(q) /\ UNCHANGED mailed /\ step[q] = "push"
        /\ \A n \in Note : rows'[n]["email"] = rows[n]["email"]
    BY <1>1, <1>9, <1>12 DEF EnqueuePush, Stmt
  <2>2. step'[q] = "create"
    BY <2>1, ProceedOrder DEF Stmt
  <2> QED BY <2>1, <2>2 DEF FileReady, EmailRow
<1>13. CASE GiveUp(q)
  <2>1. UNCHANGED <<wish, step, plan, at, files, rows, mailed>> /\ excused' = excused
    BY <1>13 DEF GiveUp, handler, tables
  <2> QED BY <2>1 DEF FilesFirst, FileReady, EmailRow, FileKept, WantsEmail, Allowed, Cur
<1> QED BY <1>3, <1>4, <1>5, <1>6, <1>7, <1>8, <1>10, <1>11, <1>12, <1>13 DEF Handle

LEMMA FileStep == Inv /\ FileInv /\ [Next]_vars => FileInv'
<1> SUFFICES ASSUME Inv, FileInv, [Next]_vars PROVE FileInv'
  OBVIOUS
<1> USE DEF FileInv
<1>1. Grows /\ Note' = Note
  BY StepGrows DEF Grows, Note, Count
<1>2. \A n \in Note : FileKept(n) => FileKept(n)'
  BY <1>1 DEF Grows, FileKept
<1>3. ASSUME NEW p \in Request, SameRequest(p) PROVE FileReady(p)'
  BY <1>1, <1>3 DEF SameRequest, FilesFirst, FileReady, Grows, FileKept, WantsEmail, Allowed, Cur
<1>4. ASSUME NEW q \in Request, Send(q) \/ GiveUp(q) \/ Handle(q) PROVE FileInv'
  <2>1. FileReady(q)' /\ EmailRow(q)
    BY <1>1, <1>4, FileSteps
  <2>2. \A p \in Request : FileReady(p)'
    BY <1>3, <1>4, <2>1, OtherRequests
  <2>3. wish'.file => \A n \in Note : rows'[n]["email"] = "pending" => FileKept(n)'
    BY <1>1, <1>2, <2>1 DEF EmailRow, FilesFirst, Grows
  <2>4. EmailIsWhole'
    BY <1>1, <2>1 DEF EmailIsWhole, EmailRow, Grows
  <2> QED BY <1>1, <2>2, <2>3, <2>4 DEF FilesFirst
<1>5. ASSUME NEW n \in Note, Mail(n) PROVE FileInv'
  <2>1. /\ rows \in RowsType /\ "email" \in Channel
        /\ mailed \in [Note -> {"no", "plain", "whole"}]
    BY DEF Inv, CreateInv, TypeOK, RowsType
  <2>2. \A q \in Request : FileReady(q)'
    BY <1>3, <1>5, OutsideSteps
  <2>3. \A m \in Note : rows'[m]["email"] = "pending" => rows[m]["email"] = "pending"
    BY <1>5, <2>1, MarkChanges DEF Mail
  <2>4. EmailIsWhole'
    <3>1. \A m \in Note : m # n => mailed'[m] = mailed[m]
      BY <1>5, <2>1 DEF Mail
    <3>2. wish.file /\ mailed'[n] = "plain" => <<n, "file">> \in excused'
      BY <1>5, <2>1 DEF Mail, FilesFirst, FileKept
    <3> QED BY <1>1, <3>1, <3>2 DEF EmailIsWhole, Grows
  <2> QED BY <1>1, <1>2, <2>2, <2>3, <2>4 DEF FilesFirst, Grows
<1>6. CASE Change \/ UNCHANGED vars
  <2>1. UNCHANGED <<rows, mailed>>
    BY <1>6 DEF Change, vars, tables
  <2>2. \A q \in Request : FileReady(q)'
    BY <1>3, <1>6, OutsideSteps
  <2> QED BY <1>1, <1>2, <2>1, <2>2 DEF FilesFirst, EmailIsWhole, Grows
<1> QED BY <1>4, <1>5, <1>6 DEF Next

\* An email loses its attachment only to a fault: the worker, who may take the
\* row as soon as it is there, never finds it ahead of the file.
THEOREM EmailsAreWhole == SafeSpec => []EmailIsWhole
<1>1. Init => FileInv
  BY DEF Init, FileInv, FilesFirst, FileReady, EmailIsWhole, PrefsInit
<1>2. FileInv => EmailIsWhole
  BY DEF FileInv
<1> QED BY <1>1, <1>2, FileStep, Invariance, PTL DEF SafeSpec
-----------------------------------------------------------------------------
(* Nothing that a successful request should have written is missing *)

\* Channel c of note n has its row, or a reason not to.
Served(n, c) ==
  \/ rows[n][c] # "none"
  \/ <<n, c>> \in excused
  \/ c = "email" /\ ~wish.email
  \/ c = "push" /\ ~config.push
  \/ "off" \in seen[n][c]

Done(n) == <<n, "note">> \in excused \/ (n \in notes /\ \A c \in Channel : Served(n, c))

\* What a handler has done by the time it is where it is.
WorkDone(q) ==
  /\ step[q] \in Stmt \cup {"create"} => \A k \in 1..Count : k < at[q] => Done(<<q, k>>)
  /\ step[q] \in {"email", "push"} => Served(Cur(q), "in_app")
  /\ step[q] = "push" => Served(Cur(q), "email")
  /\ call[q] = "201" => \A k \in 1..Count : Done(<<q, k>>)

WorkInv == \A q \in Request : WorkDone(q)

LEMMA DoneStays ==
  ASSUME Inv, Grows, NEW n \in Note, seen'[n] = seen[n]
  PROVE  /\ \A c \in Channel : Served(n, c) => Served(n, c)'
         /\ Done(n) => Done(n)'
BY DEF Grows, Done, Served

LEMMA WorkStays ==
  ASSUME Inv, Grows, NEW q \in Request, SameRequest(q), WorkDone(q)
  PROVE  WorkDone(q)'
<1>1. /\ Count' = Count /\ Cur(q)' = Cur(q)
      /\ \A k \in 1..Count : <<q, k>> \in Note /\ seen'[<<q, k>>] = seen[<<q, k>>]
      /\ "in_app" \in Channel /\ "email" \in Channel
  BY DEF SameRequest, Cur, Count, Note, Grows
<1>2. \A k \in 1..Count : Done(<<q, k>>) => Done(<<q, k>>)'
  BY <1>1, DoneStays
<1>3. ASSUME step[q] \in Stmt, NEW c \in Channel, Served(Cur(q), c) PROVE Served(Cur(q), c)'
  <2>1. \E k \in 1..Count : Cur(q) = <<q, k>>
    BY <1>3, CountIsPositive DEF Inv, CreateInv, Progress, TypeOK, Cur
  <2>2. PICK k \in 1..Count : Cur(q) = <<q, k>>
    BY <2>1
  <2>3. seen'[Cur(q)'] = seen[Cur(q)] /\ Cur(q) \in Note
    BY <1>1, <2>2
  <2> QED BY <1>1, <1>3, <2>3 DEF Served, Grows
<1> QED BY <1>1, <1>2, <1>3 DEF WorkDone, SameRequest, Stmt

\* The planned setting of a channel that was left out was in force.
LEMMA LeftOut ==
  ASSUME Inv, NEW q \in Request, step[q] \in Stmt, NEW c \in Channel, Allowed(q)[c] # "on"
  PROVE  "off" \in seen[Cur(q)][c]
<1>1. at[q] \in 1..Len(plan[q]) /\ at[q] <= Count
  BY CountIsPositive DEF Inv, CreateInv, Progress, TypeOK
<1>2. Allowed(q) \in Prefs
  BY <1>1 DEF Inv, CreateInv, TypeOK, Allowed
<1>3. Allowed(q)[c] = "off"
  BY <1>2 DEF Prefs, Switch
<1> QED BY <1>1, <1>3 DEF Inv, CreateInv, PlanSeen, Allowed, Cur

\* A statement of the delivery log serves its channel.
LEMMA EnqueueServes ==
  ASSUME Inv, NEW q \in Request, step[q] \in Stmt, NEW c \in Channel,
         NEW wanted \in BOOLEAN, NEW status \in {"pending", "sent", "skipped"},
         Enqueue(q, c, wanted, status), ~wanted => Served(Cur(q), c)
  PROVE  rows'[Cur(q)][c] # "none" \/ <<Cur(q), c>> \in excused' \/ Served(Cur(q), c)
<1>1. Cur(q) \in Note /\ rows \in RowsType
  BY DEF Inv, CreateInv, Progress, TypeOK, RowsType
<1>2. CASE Mark(Cur(q), c, status)
  BY <1>1, <1>2 DEF Mark, RowsType
<1>3. CASE Excuse(q, c)
  BY <1>3 DEF Excuse
<1> QED BY <1>2, <1>3 DEF Enqueue

\* A handler that moves within note k, or on to the next one.
LEMMA WorkMoves ==
  ASSUME Inv, Grows, NEW q \in Request, WorkDone(q), step[q] \in Stmt, Proceed(q),
         UNCHANGED <<call, seen>>, NEW k \in 1..Count, at[q] = k,
         step[q] = "in_app" => Served(<<q, k>>, "in_app")',
         step[q] = "email"  => Served(<<q, k>>, "email")',
         step[q] = "push"   => Served(<<q, k>>, "push")'
  PROVE  WorkDone(q)'
<1>1. /\ Count' = Count /\ Count \in Nat /\ Cur(q) = <<q, k>> /\ <<q, k>> \in notes'
      /\ call'[q] # "201" /\ Channel = {"email", "in_app", "push"}
  BY CountIsPositive DEF Inv, CreateInv, Progress, TypeOK, Count, Grows, Stmt, Cur
<1>2. \A j \in 1..Count : j < k => Done(<<q, j>>)'
  <2>1. \A j \in 1..Count : <<q, j>> \in Note
    BY DEF Note
  <2> QED BY <2>1, DoneStays DEF WorkDone, Stmt
<1>3. \A c \in Channel : Served(<<q, k>>, c) => Served(<<q, k>>, c)'
  BY DoneStays DEF Note
<1>4. CASE step[q] = "file"
  <2>1. step'[q] = "in_app" /\ at'[q] = k
    BY <1>4, ProceedOrder DEF Inv, CreateInv
  <2> QED BY <1>1, <1>2, <2>1 DEF WorkDone
<1>5. CASE step[q] = "in_app"
  <2>1. step'[q] = "email" /\ at'[q] = k
    BY <1>5, ProceedOrder DEF Inv, CreateInv
  <2>2. Served(Cur(q), "in_app")'
    BY <1>5, <2>1 DEF Served, Cur
  <2> QED BY <1>1, <1>2, <2>1, <2>2 DEF WorkDone
<1>6. CASE step[q] = "email"
  <2>1. step'[q] = "push" /\ at'[q] = k
    BY <1>6, ProceedOrder DEF Inv, CreateInv
  <2>2. Served(<<q, k>>, "in_app")'
    BY <1>1, <1>3, <1>6 DEF WorkDone
  <2>3. Served(Cur(q), "in_app")' /\ Served(Cur(q), "email")'
    BY <1>6, <2>1, <2>2 DEF Served, Cur
  <2> QED BY <1>1, <1>2, <2>1, <2>3 DEF WorkDone
<1>7. CASE step[q] = "push"
  <2>1. step'[q] = "create" /\ at'[q] = k + 1
    BY <1>7, ProceedOrder DEF Inv, CreateInv
  <2>2. Served(<<q, k>>, "in_app")' /\ Served(<<q, k>>, "email")'
    BY <1>1, <1>3, <1>7 DEF WorkDone
  <2>3. Done(<<q, k>>)'
    BY <1>1, <1>7, <2>2 DEF Done
  <2> QED BY <1>1, <1>2, <2>1, <2>3 DEF WorkDone
<1> QED BY <1>4, <1>5, <1>6, <1>7 DEF Stmt

LEMMA WorkSteps ==
  ASSUME Inv, Grows, NEW q \in Request, WorkDone(q), Send(q) \/ GiveUp(q) \/ Handle(q)
  PROVE  WorkDone(q)'
<1>1. /\ call \in [Request -> {"unsent", "open", "lost", "201"} \cup Refused]
      /\ step \in [Request -> {"idle", "plan", "create"} \cup Stmt]
      /\ at \in [Request -> 1..(Count + 1)] /\ Count \in Nat /\ Count' = Count
      /\ step[q] # "idle" => call[q] \in {"open", "lost"}
      /\ {"email", "in_app", "push"} = Channel
  BY CountIsPositive DEF Inv, CreateInv, Progress, TypeOK, Stmt, Count, Grows
<1>2. ASSUME step'[q] \in {"idle", "plan"}, call'[q] # "201" PROVE WorkDone(q)'
  BY <1>2 DEF WorkDone, Stmt
<1>3. ASSUME NEW a, Answer(q, a), a # "201", step[q] # "idle" PROVE WorkDone(q)'
  BY <1>1, <1>2, <1>3 DEF Answer
<1>4. CASE Send(q)
  BY <1>1, <1>2, <1>4 DEF Send
<1>5. CASE PlanOutside(q) \/ PlanUser(q) \/ PlanFails(q) \/ PlanLookup(q)
  <2>1. step[q] = "plan" /\ UNCHANGED <<step, call>>
    BY <1>5 DEF PlanOutside, PlanUser, PlanFails, PlanLookup, Planning, Planned, handler
  <2> QED BY <1>1, <1>2, <2>1
<1>6. CASE Reject(q) \/ Abandon(q)
  BY <1>3, <1>6 DEF Reject, Abandon, Rejectable, Malformed, Planning
<1>7. CASE PlanEnds(q)
  <2>1. CASE Answer(q, "503")
    BY <1>3, <1>7, <2>1 DEF PlanEnds
  <2>2. CASE UNCHANGED call /\ step' = [step EXCEPT ![q] = "create"] /\ at' = [at EXCEPT ![q] = 1]
    BY <1>1, <1>7, <2>2 DEF PlanEnds, WorkDone
  <2> QED BY <1>7, <2>1, <2>2 DEF PlanEnds
<1>8. ASSUME step[q] = "create", UNCHANGED seen
      PROVE  \A j \in 1..Count : j < at[q] => Done(<<q, j>>)'
  <2>1. \A j \in 1..Count : <<q, j>> \in Note
    BY DEF Note
  <2> QED BY <1>8, <2>1, DoneStays DEF WorkDone
<1>9. CASE Finish(q)
  <2>1. /\ step[q] = "create" /\ at[q] > Count /\ UNCHANGED seen /\ step'[q] = "idle"
    BY <1>1, <1>9 DEF Finish, Answer
  <2>2. \A j \in 1..Count : Done(<<q, j>>)'
    BY <1>1, <1>8, <2>1
  <2> QED BY <1>1, <2>1, <2>2 DEF WorkDone, Stmt
<1>10. CASE Insert(q)
  <2>1. /\ step[q] = "create" /\ at[q] <= Count /\ UNCHANGED <<seen, call>>
        /\ call[q] \in {"open", "lost"}
    BY <1>1, <1>10 DEF Insert
  <2>2. CASE step' = [step EXCEPT ![q] = Order[1]] /\ UNCHANGED at
    BY <1>1, <1>8, <2>1, <2>2 DEF WorkDone, Order
  <2>3. CASE Excuse(q, "note") /\ NextRecipient(q)
    <3>1. step'[q] = "create" /\ at'[q] = at[q] + 1
      BY <1>1, <2>3 DEF NextRecipient
    <3>2. \A j \in 1..Count : j = at[q] => Done(<<q, j>>)'
      BY <2>3 DEF Excuse, Done, Cur
    <3> QED BY <1>1, <1>8, <2>1, <3>1, <3>2 DEF WorkDone
  <2> QED BY <1>10, <2>2, <2>3 DEF Insert
<1>11. CASE SaveFile(q)
  <2>1. step[q] = "file" /\ Proceed(q) /\ UNCHANGED <<call, seen>>
    BY <1>11 DEF SaveFile
  <2>2. at[q] \in 1..Count
    BY <1>1, <2>1 DEF Inv, CreateInv, Progress, Stmt
  <2> QED BY <2>1, <2>2, WorkMoves DEF Stmt
<1>12. ASSUME NEW c \in {"in_app", "email", "push"}, step[q] = c, NEW wanted \in BOOLEAN,
              NEW status \in {"pending", "sent", "skipped"}, Enqueue(q, c, wanted, status),
              ~wanted => Served(Cur(q), c)
       PROVE  WorkDone(q)'
  <2>1. /\ step[q] \in Stmt /\ at[q] \in 1..Count /\ Proceed(q) /\ UNCHANGED <<call, seen>>
        /\ c \in Channel
    BY <1>1, <1>12 DEF Inv, CreateInv, Progress, Stmt, Enqueue
  <2>2. PICK k \in 1..Count : at[q] = k
    BY <2>1
  <2>3. \/ rows'[<<q, k>>][c] # "none" \/ <<<<q, k>>, c>> \in excused'
        \/ Served(<<q, k>>, c)
    BY <1>12, <2>1, <2>2, EnqueueServes DEF Cur
  <2>4. <<q, k>> \in Note /\ (Served(<<q, k>>, c) => Served(<<q, k>>, c)')
    <3>1. <<q, k>> \in Note
      BY DEF Note
    <3> QED BY <2>1, <3>1, DoneStays
  <2>5. Served(<<q, k>>, c)'
    BY <2>3, <2>4 DEF Served
  <2> QED BY <1>12, <2>1, <2>2, <2>5, WorkMoves
<1>13. CASE EnqueueInApp(q)
  BY <1>12, <1>13 DEF EnqueueInApp, InAppStatus
<1>14. CASE EnqueueEmail(q)
  <2>1. WantsEmail(q) \in BOOLEAN /\ (~WantsEmail(q) => Served(Cur(q), "email"))
    BY <1>1, <1>14, LeftOut DEF EnqueueEmail, WantsEmail, Served, Stmt, Inv, CreateInv, TypeOK
  <2> QED BY <1>12, <1>14, <2>1 DEF EnqueueEmail
<1>15. CASE EnqueuePush(q)
  <2>1. PushRow(q) \in BOOLEAN /\ (~PushRow(q) => Served(Cur(q), "push"))
    BY <1>1, <1>15, LeftOut DEF EnqueuePush, PushRow, Served, Stmt, Inv, CreateInv, TypeOK
  <2> QED BY <1>12, <1>15, <2>1 DEF EnqueuePush
<1>16. CASE GiveUp(q)
  <2>1. /\ UNCHANGED <<wish, step, plan, at, seen>> /\ call'[q] = "lost" /\ call[q] # "201"
        /\ Cur(q)' = Cur(q)
    BY <1>1, <1>16 DEF GiveUp, handler, Cur
  <2>2. \A k \in 1..Count : Done(<<q, k>>) => Done(<<q, k>>)'
    <3>1. \A k \in 1..Count : <<q, k>> \in Note
      BY DEF Note
    <3> QED BY <2>1, <3>1, DoneStays
  <2>3. ASSUME step[q] \in Stmt, NEW c \in Channel, Served(Cur(q), c) PROVE Served(Cur(q), c)'
    <3>1. Cur(q) \in Note
      BY <1>1, <2>3 DEF Inv, CreateInv, Progress, Cur, Note
    <3>2. Served(Cur(q), c) => Served(Cur(q), c)'
      <4> DEFINE n == Cur(q)
      <4>1. n \in Note /\ n' = n
        BY <2>1, <3>1
      <4> HIDE DEF n
      <4>2. rows'[n][c] # "none" \/ rows[n][c] = "none"
        BY <4>1 DEF Grows
      <4>3. Served(n, c) => Served(n, c)'
        BY <2>1, <4>1, <4>2 DEF Served, Grows
      <4> QED BY <4>3 DEF n
    <3> QED BY <2>3, <3>2
  <2> QED BY <1>1, <2>1, <2>2, <2>3 DEF WorkDone, Stmt
<1> QED BY <1>4, <1>5, <1>6, <1>7, <1>9, <1>10, <1>11, <1>13, <1>14, <1>15, <1>16 DEF Handle

LEMMA WorkStep == Inv /\ WorkInv /\ [Next]_vars => WorkInv'
<1> SUFFICES ASSUME Inv, WorkInv, [Next]_vars, NEW p \in Request PROVE WorkDone(p)'
  BY DEF WorkInv
<1>1. Grows /\ WorkDone(p)
  BY StepGrows DEF WorkInv
<1>2. ASSUME NEW q \in Request, Send(q) \/ GiveUp(q) \/ Handle(q) PROVE WorkDone(p)'
  BY <1>1, <1>2, WorkSteps, WorkStays, OtherRequests
<1>3. CASE Change \/ (\E n \in Note : Mail(n)) \/ UNCHANGED vars
  BY <1>1, <1>3, WorkStays, OutsideSteps
<1> QED BY <1>2, <1>3 DEF Next

\* A request that is told of a success has given every recipient what was
\* asked for, but for what a fault or a setting has cost: statements fail one
\* by one, and none takes another with it.
THEOREM NothingIsMissing == SafeSpec => []NothingMissing
<1>1. Init => WorkInv
  BY DEF Init, WorkInv, WorkDone, Stmt
<1>2. WorkInv => NothingMissing
  <2> SUFFICES ASSUME WorkInv, NEW n \in Note, call[n[1]] = "201" PROVE Done(n)
    BY DEF NothingMissing, Done, Served
  <2>1. \E q \in Request : \E k \in 1..Count : n = <<q, k>> /\ n[1] = q
    BY DEF Note
  <2> QED BY <2>1 DEF WorkInv, WorkDone
<1> QED BY <1>1, <1>2, WorkStep, Invariance, PTL DEF SafeSpec
-----------------------------------------------------------------------------
(* The service's repeated requests *)

Sent == {q \in Request : call[q] # "unsent"}

\* A request is sent only once those before it have been given up or failed.
InTurn ==
  \A p, q \in Request : p < q /\ call[q] # "unsent" => call[p] \in {"lost", "500", "503"}

TurnInv == IsFiniteSet(Sent) /\ InTurn

\* Requests are sent in turn, and answered once.
LEMMA CallSteps ==
  ASSUME Inv, [Next]_vars
  PROVE  \/ UNCHANGED call
         \/ \E q \in Request :
              /\ call[q] = "unsent"
              /\ \A p \in Request : p < q => call[p] \in {"lost", "500", "503"}
              /\ call' = [call EXCEPT ![q] = "open"]
         \/ \E q \in Request : \E a \in {"lost", "201"} \cup Refused :
              call[q] = "open" /\ call' = [call EXCEPT ![q] = a]
<1>1. /\ \A q \in Request : step[q] # "idle" => call[q] \in {"open", "lost"}
      /\ call \in [Request -> {"unsent", "open", "lost", "201"} \cup Refused]
  BY DEF Inv, CreateInv, Progress, TypeOK
<1>2. ASSUME NEW q \in Request, NEW a \in {"lost", "201"} \cup Refused, Answer(q, a), step[q] # "idle"
      PROVE  \/ UNCHANGED call
             \/ call[q] = "open" /\ call' = [call EXCEPT ![q] = a]
  BY <1>1, <1>2 DEF Answer
<1>3. ASSUME NEW q \in Request, Handle(q)
      PROVE  \/ UNCHANGED call
             \/ \E a \in {"lost", "201"} \cup Refused :
                  call[q] = "open" /\ call' = [call EXCEPT ![q] = a]
  <2>1. CASE Reject(q)
    BY <1>2, <2>1 DEF Reject, Rejectable, Malformed, Planning, Refused
  <2>2. CASE PlanEnds(q)
    BY <1>2, <2>2 DEF PlanEnds, Refused
  <2>3. CASE Finish(q)
    <3>1. Status(q) \in {"201", "500"} /\ step[q] # "idle"
      BY <2>3 DEF Finish, Status
    <3> QED BY <1>2, <2>3, <3>1 DEF Finish, Refused
  <2>4. CASE Abandon(q)
    BY <1>2, <2>4 DEF Abandon
  <2>5. CASE PlanOutside(q) \/ PlanLookup(q) \/ PlanUser(q) \/ PlanFails(q)
    BY <2>5 DEF PlanOutside, PlanLookup, PlanUser, PlanFails, Planned
  <2>6. CASE Insert(q) \/ SaveFile(q) \/ EnqueueInApp(q) \/ EnqueueEmail(q) \/ EnqueuePush(q)
    BY <2>6 DEF Insert, SaveFile, EnqueueInApp, EnqueueEmail, EnqueuePush, Enqueue
  <2> QED BY <1>3, <2>1, <2>2, <2>3, <2>4, <2>5, <2>6 DEF Handle
<1>4. CASE \E q \in Request : Send(q)
  BY <1>4 DEF Send
<1>5. CASE Change \/ (\E n \in Note : Mail(n)) \/ UNCHANGED vars
  BY <1>5 DEF Change, Mail, vars
<1>6. CASE \E q \in Request : GiveUp(q)
  BY <1>6 DEF GiveUp
<1> QED BY <1>3, <1>4, <1>5, <1>6 DEF Next

LEMMA TurnStep == Inv /\ TurnInv /\ [Next]_vars => TurnInv'
<1> SUFFICES ASSUME Inv, TurnInv, [Next]_vars PROVE TurnInv'
  OBVIOUS
<1> USE DEF TurnInv
<1>1. call \in [Request -> {"unsent", "open", "lost", "201"} \cup Refused]
  BY DEF Inv, CreateInv, TypeOK
<1>2. \E q : Sent' \subseteq Sent \cup {q}
  BY <1>1, CallSteps DEF Sent
<1>3. IsFiniteSet(Sent')
  <2>1. PICK q : Sent' \subseteq Sent \cup {q}
    BY <1>2
  <2>2. IsFiniteSet(Sent \cup {q})
    BY FS_AddElement
  <2> QED BY <2>1, <2>2, FS_Subset
<1>4. InTurn'
  <2>1. CASE UNCHANGED call
    BY <2>1 DEF InTurn
  <2>2. CASE \E q \in Request :
               /\ call[q] = "unsent"
               /\ \A p \in Request : p < q => call[p] \in {"lost", "500", "503"}
               /\ call' = [call EXCEPT ![q] = "open"]
    <3> PICK q \in Request : /\ call[q] = "unsent"
                             /\ \A p \in Request : p < q => call[p] \in {"lost", "500", "503"}
                             /\ call' = [call EXCEPT ![q] = "open"]
      BY <2>2
    <3> QED BY <1>1 DEF InTurn
  <2>3. CASE \E q \in Request : \E a \in {"lost", "201"} \cup Refused :
               call[q] = "open" /\ call' = [call EXCEPT ![q] = a]
    <3> PICK q \in Request, a \in {"lost", "201"} \cup Refused :
               call[q] = "open" /\ call' = [call EXCEPT ![q] = a]
      BY <2>3
    <3> QED BY <1>1 DEF InTurn
  <2> QED BY <2>1, <2>2, <2>3, CallSteps
<1> QED BY <1>3, <1>4

\* Those who have notified recipient k, and those who may have done so unknown
\* to the service.
Notifiers(k) == {q \in Request : <<q, k>> \in notes}
Unheard(k)   == {q \in Request : call[q] = "lost" \/ <<q, k>> \in ghosts}

LEMMA OneIsHeard ==
  ASSUME Inv, TurnInv, NEW k \in 1..Count
  PROVE  \E x : Notifiers(k) \subseteq Unheard(k) \cup {x}
<1>1. \A q \in Notifiers(k) \ Unheard(k) : call[q] \in {"open", "201"}
  BY DEF Notifiers, Unheard, Inv, CreateInv, NotesBehind, RefusalLeavesNothing, TypeOK
<1>2. \A p, q \in Notifiers(k) \ Unheard(k) : p = q
  <2> SUFFICES ASSUME NEW p \in Notifiers(k) \ Unheard(k), NEW q \in Notifiers(k) \ Unheard(k), p < q
               PROVE  FALSE
    BY DEF Notifiers
  <2> QED BY <1>1 DEF TurnInv, InTurn, Notifiers
<1> QED BY <1>2

\* A recipient hears of one event twice only when an answer, or that of an
\* INSERT, was lost: the service repeats a request that was not answered, and
\* nothing in it identifies the event.
THEOREM DuplicatesAreExplained == SafeSpec => []DuplicatesExplained
<1>1. Init => TurnInv
  <2> SUFFICES ASSUME Init PROVE TurnInv
    OBVIOUS
  <2>1. Sent = {}
    BY DEF Init, Sent
  <2> QED BY <2>1, FS_EmptySet DEF Init, TurnInv, InTurn
<1>2. Inv /\ TurnInv => DuplicatesExplained
  <2> SUFFICES ASSUME Inv, TurnInv, NEW k \in 1..Count
               PROVE  Cardinality(Notifiers(k)) <= 1 + Cardinality(Unheard(k))
    BY DEF DuplicatesExplained, Notifiers, Unheard
  <2>1. PICK x : Notifiers(k) \subseteq Unheard(k) \cup {x}
    BY OneIsHeard
  <2>2. Unheard(k) \subseteq Sent
    BY DEF Unheard, Sent, Inv, CreateInv, NotesBehind, TypeOK
  <2>3. IsFiniteSet(Unheard(k)) /\ Cardinality(Unheard(k)) \in Nat
    BY <2>2, FS_Subset, FS_CardinalityType DEF TurnInv
  <2>4. /\ IsFiniteSet(Unheard(k) \cup {x})
        /\ Cardinality(Unheard(k) \cup {x}) <= 1 + Cardinality(Unheard(k))
    <3>1. /\ IsFiniteSet(Unheard(k) \cup {x})
          /\ Cardinality(Unheard(k) \cup {x}) \in
               {Cardinality(Unheard(k)), Cardinality(Unheard(k)) + 1}
      BY <2>3, FS_AddElement
    <3> QED BY <2>3, <3>1
  <2>5. /\ IsFiniteSet(Notifiers(k))
        /\ Cardinality(Notifiers(k)) <= Cardinality(Unheard(k) \cup {x})
    BY <2>1, <2>4, FS_Subset
  <2> QED BY <2>3, <2>4, <2>5, FS_CardinalityType
<1> QED BY <1>1, <1>2, TurnStep, Invariance, PTL DEF SafeSpec
=============================================================================
