----------------------------- MODULE Preferences -----------------------------
(***************************************************************************)
(* Which channels a user of one tenant receives notifications on           *)
(* (src/preferences): the tenant's defaults, the user's own overrides, and *)
(* the lookup that reads the two in separate statements, while both may be *)
(* changed.                                                                *)
(***************************************************************************)
CONSTANTS
  User,
  Channel,
  Reader    \* who looks settings up, one lookup at a time each

VARIABLES
  defaults,  \* tenant_notification_defaults, "on" while the row is missing
  override,  \* user_notification_preferences, "inherit" where NULL or missing
  \* each reader's latest lookup
  stage,     \* idle, half (the defaults are read) or done
  subject,   \* the user it is about
  read,      \* the defaults as read
  resolved,  \* its result
  inForce    \* history: the settings in force at some moment of it

settings  == <<defaults, override>>
lookup    == <<stage, subject, read, resolved, inForce>>
prefsVars == <<settings, lookup>>

Switch   == {"on", "off"}
Prefs    == [Channel -> Switch]
Override == [Channel -> Switch \cup {"inherit"}]

AllOn == [c \in Channel |-> "on"]

PrefsTypeOK ==
  /\ defaults \in Prefs
  /\ override \in [User -> Override]
  /\ stage \in [Reader -> {"idle", "half", "done"}]
  /\ subject \in [Reader -> User]
  /\ read \in [Reader -> Prefs]
  /\ resolved \in [Reader -> Prefs]
  /\ inForce \in [Reader -> [Channel -> SUBSET Switch]]

PrefsInit ==
  /\ defaults = AllOn
  /\ override = [u \in User |-> [c \in Channel |-> "inherit"]]
  /\ stage = [r \in Reader |-> "idle"]
  /\ subject \in [Reader -> User]
  /\ read = [r \in Reader |-> AllOn]
  /\ resolved = [r \in Reader |-> AllOn]
  /\ inForce = [r \in Reader |-> [c \in Channel |-> {}]]

\* A user's override o on top of defaults d.
Merge(d, o) == [c \in Channel |-> IF o[c] = "inherit" THEN d[c] ELSE o[c]]
-----------------------------------------------------------------------------
(* Slips: definitions below with a plausible bug each *)

\* A patch replaces the whole row: a field left out clears its column.
CoalesceNothing(new, old) == new
-----------------------------------------------------------------------------
(* Changes *)

\* COALESCE: a field the patch leaves out keeps what was stored.
Coalesce(new, old) == [c \in Channel |-> IF new[c] = "inherit" THEN old[c] ELSE new[c]]

\* What comes into force belongs to every lookup under way.
Witness == inForce' = [r \in Reader |->
                         IF stage[r] = "half"
                         THEN [c \in Channel |->
                                 inForce[r][c] \cup {Merge(defaults', override'[subject[r]])[c]}]
                         ELSE inForce[r]]

SetUserOverride(u, patch) ==
  /\ override' = [override EXCEPT ![u] = Coalesce(patch, override[u])]
  /\ UNCHANGED defaults
  /\ Witness
  /\ UNCHANGED <<stage, subject, read, resolved>>

SetTenantDefaults(d) ==
  /\ defaults' = d
  /\ UNCHANGED override
  /\ Witness
  /\ UNCHANGED <<stage, subject, read, resolved>>
-----------------------------------------------------------------------------
(* Resolve *)

GetTenantDefaults(r, u) ==
  /\ stage[r] # "half"
  /\ stage' = [stage EXCEPT ![r] = "half"]
  /\ subject' = [subject EXCEPT ![r] = u]
  /\ read' = [read EXCEPT ![r] = defaults]
  /\ inForce' = [inForce EXCEPT ![r] = [c \in Channel |-> {Merge(defaults, override[u])[c]}]]
  /\ UNCHANGED <<settings, resolved>>

GetUserOverride(r) ==
  /\ stage[r] = "half"
  /\ stage' = [stage EXCEPT ![r] = "done"]
  /\ resolved' = [resolved EXCEPT ![r] = Merge(read[r], override[subject[r]])]
  /\ UNCHANGED <<settings, subject, read, inForce>>

\* One of the two statements fails, or nobody waits for the result any more.
LookupEnds(r) ==
  /\ stage' = [stage EXCEPT ![r] = "idle"]
  /\ UNCHANGED <<settings, subject, read, resolved, inForce>>

PrefsNext ==
  \/ \E u \in User, patch \in Override : SetUserOverride(u, patch)
  \/ \E d \in Prefs : SetTenantDefaults(d)
  \/ \E r \in Reader : \/ \E u \in User : GetTenantDefaults(r, u)
                       \/ GetUserOverride(r)
                       \/ LookupEnds(r)

PrefsSpec == PrefsInit /\ [][PrefsNext]_prefsVars
-----------------------------------------------------------------------------
(* Properties *)

\* Each channel's setting in a lookup's result was in force at some moment of
\* the lookup, although its two statements may see two different states: a
\* user who has long turned a channel off, or on, never finds it otherwise.
ResolvedWasInForce ==
  \A r \in Reader : stage[r] = "done" =>
    \A c \in Channel : resolved[r][c] \in inForce[r][c]
=============================================================================
