------------------------------- MODULE Notify -------------------------------
(***************************************************************************)
(* services/notify.py: announcing a bay's health changes, as the poll loop *)
(* of services/state.py calls it.                                          *)
(*                                                                         *)
(* evaluate() compares each bay's health with the one last committed for   *)
(* it, commits a change nobody needs to hear of at once, and sends the     *)
(* others concurrently; a change is committed when the endpoint accepted   *)
(* its message, and the committed map is saved at the end.  A message that *)
(* is not accepted is tried again by a later evaluation, once a cooldown   *)
(* has passed.                                                             *)
(***************************************************************************)
EXTENDS Integers, FiniteSets

CONSTANTS
  Bays,
  Health,    \* SlotHealth
  Bad,       \* BAD: the values that warrant telling somebody
  None,      \* no value
  MaxCrashes \* bound: process deaths in one behaviour

ASSUME ConstantsAssumption ==
  /\ Bad \subseteq Health /\ None \notin Health
  /\ MaxCrashes \in Nat

VARIABLES
  notify_recovery, \* configuration
  health,    \* the health a bay would be composed with now
  last,      \* _last
  cooling,   \* _retry_at while it lies in the future: the alert it was set for
  loaded,    \* _loaded
  file,      \* notify-state.json
  phase,     \* "idle", "composed", "sending" (in gather()) or "saving"
  bays,      \* evaluate()'s argument
  pending,   \* what is being sent for each bay
  accepted,  \* bays whose _send() has returned True
  rejected,  \* bays whose _send() has returned False
  changed,   \* this evaluation committed something
  told,      \* history: the last health announced, or committed as not bad
  unaware,   \* history: bays of which the notifier does not know what was told
  unsaved,   \* history: the last save, or the load, failed
  crashes    \* history: process deaths so far

memory_vars  == <<last, cooling, loaded>>
running_vars == <<phase, bays, pending, accepted, rejected, changed>>
history_vars == <<told, unaware, unsaved, crashes>>
vars == <<notify_recovery, health, memory_vars, file, running_vars, history_vars>>

Known   == Health \cup {None}
Nothing == [b \in Bays |-> None]
Sent    == {b \in Bays : pending[b] # None}

TypeOK ==
  /\ notify_recovery \in BOOLEAN
  /\ health \in [Bays -> Health]
  /\ last \in [Bays -> Known] /\ file \in [Bays -> Known]
  /\ cooling \in [Bays -> Known]
  /\ loaded \in BOOLEAN
  /\ phase \in {"idle", "composed", "sending", "saving"}
  /\ bays \in [Bays -> Known] /\ pending \in [Bays -> Known]
  /\ accepted \subseteq Sent /\ rejected \subseteq Sent /\ accepted \cap rejected = {}
  /\ changed \in BOOLEAN
  /\ told \in [Bays -> Known]
  /\ unaware \subseteq Bays
  /\ unsaved \in BOOLEAN
  /\ crashes \in 0..MaxCrashes
  /\ phase \in {"sending", "saving"} => loaded
  /\ phase = "sending" <=> Sent # {}
  /\ IF phase = "composed" THEN bays \in [Bays -> Health] ELSE bays = Nothing

Stopped ==
  /\ phase = "idle" /\ bays = Nothing /\ pending = Nothing
  /\ accepted = {} /\ rejected = {} /\ changed = FALSE

Init ==
  /\ notify_recovery \in BOOLEAN
  /\ health \in [Bays -> Health]
  /\ last = Nothing /\ cooling = Nothing /\ loaded = FALSE
  /\ file = Nothing
  /\ Stopped
  /\ told = Nothing /\ unaware = {} /\ unsaved = FALSE /\ crashes = 0

-----------------------------------------------------------------------------
(***************************************************************************)
(* Fault variants, for the mutants.                                        *)
(***************************************************************************)

\* Whatever was attempted is committed, delivered or not.
CommitsAttempted(b) == pending[b] # None

\* Only the first observation of a bad bay is worth a message.
WantsFirst(b, previous) == bays[b] \in Bad /\ previous = None

\* A message for every poll that finds the bay bad.
SteadyIfGood(b, previous) == previous = bays[b] /\ bays[b] \notin Bad

\* A send that is started again while its answer is awaited.
AwaitedAgain(b) == pending[b] # None

-----------------------------------------------------------------------------
(***************************************************************************)
(* evaluate().                                                             *)
(***************************************************************************)

\* _notify_health_changes() composes the bays in the executor ...
Compose ==
  /\ phase = "idle"
  /\ phase' = "composed" /\ bays' = health
  /\ UNCHANGED <<notify_recovery, health, memory_vars, file, pending, accepted, rejected,
                 changed, history_vars>>

\* previous == health.value: nothing is outstanding.
Steady(b, previous) == previous = bays[b]

Wants(b, previous) ==
  \/ bays[b] \in Bad
  \/ previous \in Bad /\ notify_recovery

\* now < _retry_at
Held(b) == cooling[b] # None

\* _load() on the first evaluation; a file that cannot be read counts as empty.
Loads == IF loaded THEN {last} ELSE {file, Nothing}

\* ... and evaluate() goes over them, up to its await.
Evaluate ==
  /\ phase = "composed"
  /\ loaded' = TRUE
  /\ \E m \in Loads :
       LET steady == {b \in Bays : Steady(b, m[b])}
           alerts == {b \in Bays \ steady : Wants(b, m[b])}
           silent == Bays \ (steady \cup alerts)
           send   == {b \in alerts : ~Held(b)}
       IN
         /\ last' = [b \in Bays |-> IF b \in silent THEN bays[b] ELSE m[b]]
         /\ cooling' = [b \in Bays |-> IF b \in alerts THEN cooling[b] ELSE None]
         /\ pending' = [b \in Bays |-> IF b \in send THEN bays[b] ELSE None]
         /\ changed' = (silent # {})
         /\ phase' = IF send # {} THEN "sending"
                     ELSE IF silent # {} THEN "saving" ELSE "idle"
         /\ told' = [b \in Bays |-> IF b \in silent /\ bays[b] \notin Bad
                                    THEN bays[b] ELSE told[b]]
         /\ unaware' = (IF loaded THEN unaware ELSE {b \in Bays : m[b] # told[b]}) \ silent
         /\ unsaved' = IF loaded THEN unsaved ELSE m # file
  /\ bays' = Nothing
  /\ UNCHANGED <<notify_recovery, health, file, accepted, rejected, crashes>>

Awaited(b) == pending[b] # None /\ b \notin accepted \cup rejected

\* _send(b): the endpoint answers 2xx ...
Accept(b) ==
  /\ Awaited(b)
  /\ accepted' = accepted \cup {b}
  /\ told' = [told EXCEPT ![b] = pending[b]]
  /\ UNCHANGED <<notify_recovery, health, memory_vars, file, phase, bays, pending, rejected,
                 changed, unaware, unsaved, crashes>>

\* ... or something else, or the request fails; the message may have got through.
Reject(b) ==
  /\ Awaited(b)
  /\ rejected' = rejected \cup {b}
  /\ \/ UNCHANGED <<told, unaware>>
     \/ told' = [told EXCEPT ![b] = pending[b]] /\ unaware' = unaware \cup {b}
  /\ UNCHANGED <<notify_recovery, health, memory_vars, file, phase, bays, pending, accepted,
                 changed, unsaved, crashes>>

Commits(b) == b \in accepted

Changed == changed \/ \E b \in Bays : Commits(b)

\* gather() has returned: commit what was accepted, start the others' cooldown.
Commit ==
  /\ phase = "sending" /\ Sent = accepted \cup rejected
  /\ LET sent == {b \in Bays : Commits(b)}
     IN
       /\ last' = [b \in Bays |-> IF b \in sent THEN pending[b] ELSE last[b]]
       /\ cooling' = [b \in Bays |-> IF b \in sent THEN None
                                     ELSE IF b \in Sent THEN pending[b] ELSE cooling[b]]
       /\ unaware' = unaware \ sent
  /\ changed' = Changed
  /\ phase' = IF Changed THEN "saving" ELSE "idle"
  /\ pending' = Nothing /\ accepted' = {} /\ rejected' = {}
  /\ UNCHANGED <<notify_recovery, health, loaded, file, bays, told, unsaved, crashes>>

\* _save(): a temporary file renamed over the old one, or a warning.
Save ==
  /\ phase = "saving"
  /\ phase' = "idle" /\ changed' = FALSE
  /\ \/ file' = last /\ unsaved' = FALSE
     \/ file' = file /\ unsaved' = TRUE
  /\ UNCHANGED <<notify_recovery, health, memory_vars, bays, pending, accepted, rejected,
                 told, unaware, crashes>>

-----------------------------------------------------------------------------
(***************************************************************************)
(* The rest of the world.                                                  *)
(***************************************************************************)

HealthChanges(b) ==
  /\ \E h \in Health \ {health[b]} : health' = [health EXCEPT ![b] = h]
  /\ UNCHANGED <<notify_recovery, memory_vars, file, running_vars, history_vars>>

\* retry_seconds have passed.
CooledDown(b) ==
  /\ cooling[b] # None
  /\ cooling' = [cooling EXCEPT ![b] = None]
  /\ UNCHANGED <<notify_recovery, health, last, loaded, file, running_vars, history_vars>>

\* The process dies, or stop() cancels the loop in one of its awaits.
Crash ==
  /\ crashes < MaxCrashes /\ crashes' = crashes + 1
  /\ last' = Nothing /\ cooling' = Nothing /\ loaded' = FALSE
  /\ phase' = "idle" /\ bays' = Nothing /\ pending' = Nothing
  /\ accepted' = {} /\ rejected' = {} /\ changed' = FALSE
  /\ UNCHANGED <<notify_recovery, health, file, told, unaware, unsaved>>

-----------------------------------------------------------------------------

Announce ==
  \/ Compose \/ Evaluate \/ Commit \/ Save
  \/ \E b \in Bays : Accept(b) \/ Reject(b)

World == (\E b \in Bays : HealthChanges(b) \/ CooledDown(b)) \/ Crash

Next == Announce \/ World

Spec == Init /\ [][Next]_vars

\* The poll loop goes on, a request ends in its timeout, cooldowns pass, and an
\* endpoint that is tried again and again accepts in the end.
Fairness ==
  /\ WF_vars(Compose \/ Evaluate \/ Commit \/ Save)
  /\ \A b \in Bays : /\ WF_vars(Accept(b) \/ Reject(b)) /\ SF_vars(Accept(b))
                     /\ WF_vars(CooledDown(b))

FairSpec == Spec /\ Fairness

-----------------------------------------------------------------------------
(***************************************************************************)
(* Properties.                                                             *)
(***************************************************************************)

\* _last holds what the operator was told, for every bay whose message is not under
\* way; the exceptions are a process that died, or could not read its file back,
\* after telling more than it had saved, and an accepted message whose answer was lost.
LastIsTold ==
  loaded => \A b \in Bays : b \notin unaware \cup accepted => last[b] = told[b]

\* A steady state is never announced twice: a message that is accepted says something
\* else than the one accepted before it, with the same exceptions.
NeverRepeats ==
  [][\A b \in Bays : b \in accepted' \ accepted /\ b \notin unaware
       => told[b] # pending[b]]_vars

\* A bay that stays bad is announced as what it is, whatever the endpoint rejected and
\* the order of the answers, or else the notifier does not know what was told.
AlertsArrive ==
  \A b \in Bays : \A h \in Bad :
    <>[](health[b] = h) => <>[](last[b] = h /\ (told[b] = h \/ b \in unaware))

\* notify.py:7-8 and 315-317: what is persisted "is the last health the operator was
\* actually told about", and a drive already failed when the application starts "is
\* exactly what an operator needs told".  The code does not keep it: a recovery that
\* reached the operator and was not recorded, because its answer was lost or the process
\* died before the save, leaves the old failure committed, and the same failure coming
\* back is taken for one already announced, for ever.
NoBadBayIsSilent ==
  notify_recovery =>
  \A b \in Bays : \A h \in Bad : <>[](health[b] = h) => <>[](told[b] = h)
=============================================================================
