------------------------------- MODULE Chassis -------------------------------
(***************************************************************************)
(* services/state.py, poll_chassis(): the slowest poll reads three SES     *)
(* pages of every enclosure through sg_ses and keeps, per enclosure, the   *)
(* last telemetry (marked stale when it is not from this poll) and the map *)
(* from slots to SAS addresses (which has no mark, so it is dropped).      *)
(*                                                                         *)
(* The poll awaits every page, so the list of enclosures can be replaced   *)
(* while it goes through the one it started with, and requests are         *)
(* answered from what it has stored so far.                                *)
(***************************************************************************)
CONSTANTS
  Enclosures,
  Missing \* no telemetry, no map, no enclosure

Readings == [old : BOOLEAN, stale : BOOLEAN]

VARIABLES
  enclosures,    \* enclosures.value: which are listed, and with an sg device
  ses_available, \* ses.available(): the sg_ses binary, or the helper's socket, exists
  chassis,       \* chassis.value: the telemetry of an enclosure
  sas_by_slot,   \* _sas_by_slot: the map of an enclosure
  polled,        \* the enclosure whose slot map is to be read, in a poll
  refs,          \* the list that a poll goes through
  left,          \* the enclosures it has not come to
  collected,     \* its dict of telemetry, which starts as that of the cache
  error,         \* whether a page failed
  answered,      \* the enclosures that gave telemetry in this poll
  outcome        \* history: what the last poll made of an enclosure

poll_vars    == <<polled, refs, left, collected, error, answered>>
chassis_vars == <<enclosures, ses_available, chassis, sas_by_slot, poll_vars, outcome>>

Listings == {"not_listed", "no_sg", "sg"}

ASSUME ChassisAssumption ==
  Missing \notin Readings \cup Enclosures \cup [Enclosures -> Listings] \cup {"new", "old"}

Outcomes == {"no_poll", "no_sg_ses", "not_listed", "no_sg", "failed", "read"}

\* history: `old` is what the last poll that ended did not obtain.
NewReading == [old |-> FALSE, stale |-> FALSE]

\* No poll is under way when it has no list.
Polling == refs # Missing

\* Types of the caches, of the locals of a poll and of the history.
ChassisTypeOK ==
  /\ enclosures \in [Enclosures -> Listings]
  /\ ses_available \in BOOLEAN
  /\ chassis \in [Enclosures -> Readings \cup {Missing}]
  /\ sas_by_slot \in [Enclosures -> {"new", "old", Missing}]
  /\ polled \in Enclosures \cup {Missing}
  /\ refs \in [Enclosures -> Listings] \cup {Missing}
  /\ left \subseteq Enclosures
  /\ collected \in [Enclosures -> Readings \cup {Missing}]
  /\ error \in BOOLEAN
  /\ answered \subseteq Enclosures
  /\ outcome \in [Enclosures -> Outcomes]

Nowhere(value) == [e \in Enclosures |-> value]

ChassisInit ==
  /\ enclosures = Nowhere("not_listed") /\ ses_available = TRUE
  /\ chassis = Nowhere(Missing) /\ sas_by_slot = Nowhere(Missing)
  /\ polled = Missing /\ refs = Missing /\ left = {}
  /\ collected = Nowhere(Missing) /\ error = FALSE /\ answered = {}
  /\ outcome = Nowhere("no_poll")

-----------------------------------------------------------------------------
(***************************************************************************)
(* The world around the poll.                                              *)
(***************************************************************************)

\* poll_hardware(), by the loop between two polls or for a request during one; a
\* discovery that fails leaves the list.
Discover ==
  /\ enclosures' \in [Enclosures -> Listings]
  /\ UNCHANGED <<ses_available, chassis, sas_by_slot, poll_vars, outcome>>

\* The binary is replaced with the image, the socket when the helper starts or dies.
ToolComesOrGoes ==
  /\ ses_available' = ~ses_available
  /\ UNCHANGED <<enclosures, chassis, sas_by_slot, poll_vars, outcome>>

-----------------------------------------------------------------------------
(***************************************************************************)
(* poll_chassis().                                                         *)
(***************************************************************************)

\* What the poll has not obtained is from an earlier one.
Aged(readings, fresh) ==
  [e \in Enclosures |->
     IF e \in fresh \/ readings[e] = Missing THEN readings[e]
     ELSE [readings[e] EXCEPT !.old = TRUE]]

AgedMaps(maps, fresh) ==
  [e \in Enclosures |-> IF e \in fresh \/ maps[e] = Missing THEN maps[e] ELSE "old"]

Marked(readings) ==
  [e \in Enclosures |->
     IF readings[e] = Missing THEN Missing ELSE [readings[e] EXCEPT !.stale = TRUE]]

Without_Kept(maps, e) == maps

Without(maps, e) == [maps EXCEPT ![e] = Missing]

NoTool ==
  /\ ~Polling /\ ~ses_available
  /\ sas_by_slot' = Nowhere(Missing)
  /\ chassis' = Aged(chassis, {})
  /\ outcome' = Nowhere("no_sg_ses")
  /\ UNCHANGED <<enclosures, ses_available, poll_vars>>

StartPoll ==
  /\ ~Polling /\ ses_available
  /\ refs' = enclosures
  /\ left' = {e \in Enclosures : enclosures[e] # "not_listed"}
  /\ collected' = chassis
  /\ error' = FALSE /\ answered' = {} /\ polled' = Missing
  /\ UNCHANGED <<enclosures, ses_available, chassis, sas_by_slot, outcome>>

\* The poll comes to the next enclosure of its list.
ComesTo(e) ==
  /\ Polling /\ polled = Missing /\ e \in left
  /\ left' = left \ {e}

NoDevice(e) ==
  /\ ComesTo(e) /\ refs[e] = "no_sg"
  /\ sas_by_slot' = Without(sas_by_slot, e)
  /\ UNCHANGED <<enclosures, ses_available, chassis, polled, refs, collected, error,
                 answered, outcome>>

\* Configuration and join: new telemetry in the poll's own dict.
ReadTelemetry(e) ==
  /\ ComesTo(e) /\ refs[e] = "sg"
  /\ collected' = [collected EXCEPT ![e] = NewReading]
  /\ answered' = answered \cup {e}
  /\ polled' = e
  /\ UNCHANGED <<enclosures, ses_available, chassis, sas_by_slot, refs, error, outcome>>

\* SesError on one of the two: the object marked is the one in the cache.
TelemetryFails(e) ==
  /\ ComesTo(e) /\ refs[e] = "sg"
  /\ IF collected[e] = Missing THEN UNCHANGED <<collected, chassis>>
     ELSE /\ collected' = [collected EXCEPT ![e].stale = TRUE]
          /\ chassis' = [chassis EXCEPT ![e].stale = TRUE]
  /\ error' = TRUE
  /\ sas_by_slot' = Without(sas_by_slot, e)
  /\ UNCHANGED <<enclosures, ses_available, polled, refs, answered, outcome>>

ReadSlotAddresses ==
  /\ polled # Missing /\ polled' = Missing
  /\ sas_by_slot' = [sas_by_slot EXCEPT ![polled] = "new"]
  /\ UNCHANGED <<enclosures, ses_available, chassis, refs, left, collected, error,
                 answered, outcome>>

SlotAddressesFail ==
  /\ polled # Missing /\ polled' = Missing
  /\ sas_by_slot' = Without(sas_by_slot, polled)
  /\ error' = TRUE
  /\ UNCHANGED <<enclosures, ses_available, chassis, refs, left, collected, answered,
                 outcome>>

ReadAny_Collected == \E e \in Enclosures : collected[e] # Missing

\* read_any
ReadAny == answered # {}

FinishPoll ==
  /\ Polling /\ polled = Missing /\ left = {}
  /\ IF ReadAny
     THEN /\ chassis' = Aged(collected, answered)
          /\ sas_by_slot' = AgedMaps(sas_by_slot, answered)
     ELSE /\ chassis' = Aged(Marked(chassis), {})
          /\ IF error /\ collected = Nowhere(Missing)
             THEN sas_by_slot' = AgedMaps(sas_by_slot, {})
             ELSE sas_by_slot' = Nowhere(Missing)
  /\ outcome' = [e \in Enclosures |->
                   IF e \in answered THEN "read"
                   ELSE IF refs[e] = "sg" THEN "failed" ELSE refs[e]]
  /\ refs' = Missing /\ answered' = {} /\ collected' = Nowhere(Missing) /\ error' = FALSE
  /\ UNCHANGED <<enclosures, ses_available, polled, left>>

-----------------------------------------------------------------------------

ChassisNext ==
  \/ Discover \/ ToolComesOrGoes
  \/ NoTool \/ StartPoll \/ FinishPoll
  \/ \E e \in Enclosures : NoDevice(e) \/ ReadTelemetry(e) \/ TelemetryFails(e)
  \/ ReadSlotAddresses \/ SlotAddressesFail

ChassisSpec == ChassisInit /\ [][ChassisNext]_chassis_vars

-----------------------------------------------------------------------------
(***************************************************************************)
(* Properties.                                                             *)
(***************************************************************************)

PassesForNew(e) == chassis[e] # Missing /\ chassis[e].old /\ ~chassis[e].stale

\* What the chassis page shows: the cache of an enclosure that is listed.
Served(e) == enclosures[e] # "not_listed"

\* NothingOldPassesForNew: telemetry that is served although the last poll did not obtain
\* it is marked stale (ARCHITECTURE.md:194: "`sg_ses` missing or timing out | chassis tab
\* only; last-good marked stale").
NothingOldPassesForNew ==
  \A e \in Enclosures : Served(e) => ~PassesForNew(e)

AnotherAnswered(e) == \E f \in Enclosures \ {e} : outcome[f] = "read"

\* OldNeedsAnExcuse: unmarked telemetry that the last poll did not obtain means that
\* sg_ses was missing, or that the poll went on to read another enclosure and had not
\* asked this one; a page that failed always leaves its mark.
OldNeedsAnExcuse ==
  \A e \in Enclosures : PassesForNew(e) =>
    \/ outcome[e] = "no_sg_ses"
    \/ outcome[e] \in {"no_sg", "not_listed"} /\ AnotherAnswered(e)

\* OldMapIsOfTheUnlisted: a map of SAS addresses outlives a poll that did not read it only
\* for an enclosure that was not attached then (state.py:412-415: "After a drive swap a
\* kept map would show the removed drive's address against the new drive").
OldMapIsOfTheUnlisted ==
  \A e \in Enclosures :
    sas_by_slot[e] = "old" => outcome[e] = "not_listed" /\ AnotherAnswered(e)

=============================================================================
