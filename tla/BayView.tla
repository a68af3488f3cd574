------------------------------ MODULE BayView ------------------------------
(***************************************************************************)
(* What the bay list says about the locate LEDs: the slot cache of         *)
(* services/state.py joined with IdentManager.describe().                  *)
(*                                                                         *)
(* Three kinds of code meet here.  The event loop runs poll_hardware() -   *)
(* the poll loop and the refresh after a manual identify may overlap - and *)
(* identify(); executor threads read and write the LEDs; and the sync      *)
(* /bays endpoint and the notifier compose bays in threads of their own,   *)
(* between any two bytecodes of the event loop.                            *)
(*                                                                         *)
(* Monotonic instants matter only where a reading's observed_at is compared*)
(* with the stamp of a write.  An instant is therefore represented by the  *)
(* set of slots stamped since: `observed_at <= written_at` is membership   *)
(* in it, and two calls of time.monotonic() never tie.                     *)
(***************************************************************************)
EXTENDS FiniteSets

CONSTANTS
  Slots,    \* the slots of one enclosure
  Pollers,  \* overlapping calls of poll_hardware()
  Readers,  \* threads that compose the bay list
  Dark,     \* the LED is not lit
  App,      \* lit by a request the application verified and has not given up on
  External, \* lit by something else
  Poll      \* history: mark of a poll that ended while a reader composed

ASSUME ConstantsAssumption ==
  /\ Slots # {}
  /\ Dark # App /\ Dark # External /\ App # External
  /\ Poll \notin Slots

Lamp == {Dark, App, External}

VARIABLES
  led,       \* the LEDs
  ident,     \* per slot: where in identify() the holder of the lock is, if any
  wanted,    \* per slot: `on` of that call
  stamp,     \* _last_write: "none", "on" or "off"
  record,    \* slots with an entry in _records
  disowned,  \* history: slots given up on since their last publication
  poll,      \* per poller: "idle", "reading" or "storing"
  unread,    \* per poller: slots it has still to read
  since,     \* per poller: slots stamped since its observed_at
  sample,    \* per poller: the LEDs as read so far
  cached,    \* slots.value
  cachedAge, \* slots stamped since slots.observed_monotonic
  reader,    \* per reader: "idle", "bays", "dated" or "looked"
  bay,       \* per reader: the slot it is composing
  seen,      \* per reader: the slots.value it iterates over
  age,       \* per reader: slots stamped since the observed_at it passes on
  locate,    \* per reader: locate_on once the last write was taken into account
  overlap    \* history, per reader: the slots it shared with an identify(), and Poll

led_vars   == <<led>>
ident_vars == <<ident, wanted, stamp, record, disowned>>
poll_vars  == <<poll, unread, since, sample>>
cache_vars == <<cached, cachedAge>>
read_vars  == <<reader, bay, seen, age, locate, overlap>>
vars == <<led_vars, ident_vars, poll_vars, cache_vars, read_vars>>

TypeOK ==
  /\ led \in [Slots -> Lamp]
  /\ ident \in [Slots -> {"idle", "called", "written", "half"}]
  /\ wanted \in [Slots -> BOOLEAN]
  /\ stamp \in [Slots -> {"none", "on", "off"}]
  /\ record \subseteq Slots
  /\ disowned \subseteq Slots
  /\ poll \in [Pollers -> {"idle", "reading", "storing"}]
  /\ unread \in [Pollers -> SUBSET Slots]
  /\ \A p \in Pollers : unread[p] # {} => poll[p] = "reading"
  /\ since \in [Pollers -> SUBSET Slots]
  /\ sample \in [Pollers -> [Slots -> Lamp]]
  /\ cached \in [Slots -> Lamp]
  /\ cachedAge \subseteq Slots
  /\ reader \in [Readers -> {"idle", "bays", "dated", "looked"}]
  /\ bay \in [Readers -> Slots]
  /\ seen \in [Readers -> [Slots -> Lamp]]
  /\ age \in [Readers -> SUBSET Slots]
  /\ locate \in [Readers -> BOOLEAN]
  /\ overlap \in [Readers -> SUBSET (Slots \cup {Poll})]

AllDark == [s \in Slots |-> Dark]

\* start() has awaited one poll; reconcile() left no records.
Init ==
  /\ led \in [Slots -> {Dark, External}]
  /\ ident = [s \in Slots |-> "idle"] /\ wanted = [s \in Slots |-> FALSE]
  /\ stamp = [s \in Slots |-> "none"]
  /\ record = {} /\ disowned = {}
  /\ poll = [p \in Pollers |-> "idle"]
  /\ unread = [p \in Pollers |-> {}] /\ since = [p \in Pollers |-> {}]
  /\ sample = [p \in Pollers |-> AllDark]
  /\ cached = led /\ cachedAge = {}
  /\ reader = [r \in Readers |-> "idle"]
  /\ bay = [r \in Readers |-> CHOOSE s \in Slots : TRUE]
  /\ seen = [r \in Readers |-> AllDark] /\ age = [r \in Readers |-> {}]
  /\ locate = [r \in Readers |-> FALSE] /\ overlap = [r \in Readers |-> {}]

-----------------------------------------------------------------------------
(***************************************************************************)
(* Fault variants, for the mutants.                                        *)
(***************************************************************************)

\* describe() believing a reading whatever its age.
LocateAgeless(reading, superseded, written) == reading # Dark

\* poll_hardware() dating its readings when it stores them.
ObservedLate(p) == {}

\* A poll that leaves the date of the reading before.
ObservedForgotten(p) == cachedAge

\* A poll that caches what it has read so far.
AllReadEarly(p) == TRUE

-----------------------------------------------------------------------------
(***************************************************************************)
(* IdentManager.describe().                                                *)
(***************************************************************************)

\* locate_on: a reading no younger than the last write is superseded by it.
Locate(reading, superseded, written) ==
  IF superseded THEN written = "on" ELSE reading # Dark

\* The answer, given locate_on.
Origin(s, on) ==
  IF ~on THEN "off" ELSE IF s \in record THEN "app" ELSE "external"

\* What a reader that is not overtaken by anything answers.
Shown(s) == Origin(s, Locate(cached[s], s \in cachedAge, stamp[s]))

-----------------------------------------------------------------------------
(***************************************************************************)
(* identify() and the timer, as far as the bay list can tell.              *)
(***************************************************************************)

\* Neither the publication of a result nor Cached.succeed() awaits: while one
\* is half done the event loop runs nothing else.
LoopFree ==
  /\ \A s \in Slots : ident[s] # "half"
  /\ \A p \in Pollers : poll[p] # "storing"

\* _last_write[key] = (now, on): every instant taken so far lies before it.
Stamp(s) ==
  /\ stamp' = [stamp EXCEPT ![s] = IF wanted[s] THEN "on" ELSE "off"]
  /\ since' = [p \in Pollers |-> IF poll[p] = "idle" THEN {} ELSE since[p] \cup {s}]
  /\ cachedAge' = cachedAge \cup {s}
  /\ age' = [r \in Readers |-> IF reader[r] = "dated" THEN age[r] \cup {s} ELSE {}]

\* _records[key] is set or popped.
Keep(s) == record' = IF wanted[s] THEN record \cup {s} ELSE record \ {s}

\* Whoever composes the bay list now shares the moment with it.
Overtakes(x) ==
  overlap' = [r \in Readers |->
    IF reader[r] = "idle" THEN {} ELSE overlap[r] \cup {x}]

\* A request or the timer holds the slot's lock and hands the write to a thread.
Identify(s, on) ==
  /\ LoopFree /\ ident[s] = "idle"
  /\ ident' = [ident EXCEPT ![s] = "called"]
  /\ wanted' = [wanted EXCEPT ![s] = on]
  /\ Overtakes(s)
  /\ UNCHANGED <<led_vars, stamp, record, disowned, poll_vars, cache_vars,
                 reader, bay, seen, age, locate>>

WriteVerified(s) ==
  /\ ident[s] = "called"
  /\ ident' = [ident EXCEPT ![s] = "written"]
  /\ led' = [led EXCEPT ![s] = IF wanted[s] THEN App ELSE Dark]
  /\ UNCHANGED <<wanted, stamp, record, disowned, poll_vars, cache_vars, read_vars>>

\* The call is over.
Leaves(s) ==
  /\ ident' = [ident EXCEPT ![s] = "idle"]
  /\ wanted' = [wanted EXCEPT ![s] = FALSE]

\* identify() raises, and what its command did to the LED, now or later, is an
\* ExternalChange as far as the application knows.
Fails(s) ==
  /\ LoopFree /\ ident[s] = "called"
  /\ Leaves(s)
  /\ UNCHANGED <<led_vars, stamp, record, disowned, poll_vars, cache_vars, read_vars>>

\* First half of the publication: on stores its record, off stamps its write.
Publish(s) ==
  /\ LoopFree /\ ident[s] = "written"
  /\ ident' = [ident EXCEPT ![s] = "half"]
  /\ \/ wanted[s] /\ Keep(s) /\ UNCHANGED <<stamp, since, cachedAge, age>>
     \/ ~wanted[s] /\ Stamp(s) /\ UNCHANGED record
  /\ UNCHANGED <<led_vars, wanted, disowned, poll, unread, sample, cached,
                 reader, bay, seen, locate, overlap>>

\* Second half: on stamps its write, off pops its record.
Published(s) ==
  /\ ident[s] = "half"
  /\ Leaves(s)
  /\ \/ wanted[s] /\ Stamp(s) /\ UNCHANGED record
     \/ ~wanted[s] /\ Keep(s) /\ UNCHANGED <<stamp, since, cachedAge, age>>
  /\ disowned' = disowned \ {s}
  /\ UNCHANGED <<led_vars, poll, unread, sample, cached,
                 reader, bay, seen, locate, overlap>>

\* _tick gives up on a slot: the record goes, and nothing is stamped.  What the
\* request lit is no longer claimed, wherever it has been read already.
GivesUp(s) ==
  LET Unclaimed(leds) == [leds EXCEPT ![s] = IF @ = App THEN External ELSE @] IN
  /\ LoopFree /\ ident[s] = "idle" /\ s \in record
  /\ record' = record \ {s}
  /\ disowned' = disowned \cup {s}
  /\ led' = Unclaimed(led)
  /\ cached' = Unclaimed(cached)
  /\ sample' = [p \in Pollers |-> Unclaimed(sample[p])]
  /\ seen' = [r \in Readers |-> Unclaimed(seen[r])]
  /\ UNCHANGED <<ident, wanted, stamp, poll, unread, since, cachedAge,
                 reader, bay, age, locate, overlap>>

\* Something else lights or darkens the LED.
ExternalChange(s) ==
  /\ led' = [led EXCEPT ![s] = IF @ = Dark THEN External ELSE Dark]
  /\ UNCHANGED <<ident_vars, poll_vars, cache_vars, read_vars>>

-----------------------------------------------------------------------------
(***************************************************************************)
(* poll_hardware().                                                        *)
(***************************************************************************)

\* observed_at is taken before the first hop to the executor.
PollStarts(p) ==
  /\ LoopFree /\ poll[p] = "idle"
  /\ poll' = [poll EXCEPT ![p] = "reading"]
  /\ unread' = [unread EXCEPT ![p] = Slots]
  /\ since' = [since EXCEPT ![p] = {}]
  /\ UNCHANGED <<led_vars, ident_vars, sample, cache_vars, read_vars>>

PollReads(p) ==
  /\ poll[p] = "reading"
  /\ \E s \in unread[p] :
       /\ sample' = [sample EXCEPT ![p][s] = led[s]]
       /\ unread' = [unread EXCEPT ![p] = @ \ {s}]
  /\ UNCHANGED <<led_vars, ident_vars, poll, since, cache_vars, read_vars>>

AllRead(p) == unread[p] = {}

\* Cached.succeed() stores the readings ...
PollStores(p) ==
  /\ LoopFree /\ poll[p] = "reading" /\ AllRead(p)
  /\ poll' = [poll EXCEPT ![p] = "storing"]
  /\ cached' = sample[p]
  /\ UNCHANGED <<led_vars, ident_vars, unread, since, sample, cachedAge, read_vars>>

\* The poll's locals are gone.
PollOver(p) ==
  /\ poll' = [poll EXCEPT ![p] = "idle"]
  /\ unread' = [unread EXCEPT ![p] = {}]
  /\ since' = [since EXCEPT ![p] = {}]
  /\ sample' = [sample EXCEPT ![p] = AllDark]

\* ... and then the instant they are from.
ObservedAt(p) == since[p]

PollDates(p) ==
  /\ poll[p] = "storing"
  /\ PollOver(p)
  /\ cachedAge' = ObservedAt(p)
  /\ Overtakes(Poll)
  /\ UNCHANGED <<led_vars, ident_vars, cached, reader, bay, seen, age, locate>>

\* discover() or read_slots() raised OSError: the cache keeps what it has.
PollFails(p) ==
  /\ LoopFree /\ poll[p] = "reading"
  /\ PollOver(p)
  /\ UNCHANGED <<led_vars, ident_vars, cache_vars, read_vars>>

-----------------------------------------------------------------------------
(***************************************************************************)
(* _compose_bays(), in a thread.                                           *)
(***************************************************************************)

\* The loop over slots.value begins.
ReaderStarts(r) ==
  /\ reader[r] = "idle"
  /\ reader' = [reader EXCEPT ![r] = "bays"]
  /\ seen' = [seen EXCEPT ![r] = cached]
  /\ overlap' = [overlap EXCEPT ![r] =
       {s \in Slots : ident[s] # "idle"}
         \cup (IF \E p \in Pollers : poll[p] = "storing" THEN {Poll} ELSE {})]
  /\ UNCHANGED <<led_vars, ident_vars, poll_vars, cache_vars, bay, age, locate>>

\* For one slot: slots.observed_monotonic is read and passed to describe() ...
ReaderDates(r, s) ==
  /\ reader[r] = "bays"
  /\ reader' = [reader EXCEPT ![r] = "dated"]
  /\ bay' = [bay EXCEPT ![r] = s]
  /\ age' = [age EXCEPT ![r] = cachedAge]
  /\ UNCHANGED <<led_vars, ident_vars, poll_vars, cache_vars, seen, locate, overlap>>

\* ... which reads _last_write ...
ReaderLooks(r) ==
  /\ reader[r] = "dated"
  /\ reader' = [reader EXCEPT ![r] = "looked"]
  /\ locate' = [locate EXCEPT ![r] =
       Locate(seen[r][bay[r]], bay[r] \in age[r], stamp[bay[r]])]
  /\ age' = [age EXCEPT ![r] = {}]
  /\ UNCHANGED <<led_vars, ident_vars, poll_vars, cache_vars, bay, seen, overlap>>

\* ... and then _records.  The answer is Verdict(r).
Verdict(r) == Origin(bay[r], locate[r])

ReaderAnswers(r) ==
  /\ reader[r] = "looked"
  /\ reader' = [reader EXCEPT ![r] = "bays"]
  /\ locate' = [locate EXCEPT ![r] = FALSE]
  /\ UNCHANGED <<led_vars, ident_vars, poll_vars, cache_vars, bay, seen, age, overlap>>

\* The list is complete.
ReaderEnds(r) ==
  /\ reader[r] = "bays"
  /\ reader' = [reader EXCEPT ![r] = "idle"]
  /\ seen' = [seen EXCEPT ![r] = AllDark]
  /\ overlap' = [overlap EXCEPT ![r] = {}]
  /\ UNCHANGED <<led_vars, ident_vars, poll_vars, cache_vars, bay, age, locate>>

-----------------------------------------------------------------------------

IdentSteps(s) ==
  \/ WriteVerified(s)
  \/ Fails(s)
  \/ Publish(s)
  \/ Published(s)

PollEnds(p) ==
  \/ PollReads(p)
  \/ PollStores(p)
  \/ PollDates(p)

Next ==
  \/ \E s \in Slots :
       \/ \E on \in BOOLEAN : Identify(s, on)
       \/ IdentSteps(s)
       \/ GivesUp(s)
       \/ ExternalChange(s)
  \/ \E p \in Pollers : PollStarts(p) \/ PollEnds(p) \/ PollFails(p)
  \/ \E r \in Readers :
       \/ ReaderStarts(r)
       \/ \E s \in Slots : ReaderDates(r, s)
       \/ ReaderLooks(r)
       \/ ReaderAnswers(r)
       \/ ReaderEnds(r)

Spec == Init /\ [][Next]_vars

-----------------------------------------------------------------------------
(***************************************************************************)
(* Properties.                                                             *)
(***************************************************************************)

\* For every phase relationship of polls, writes and publications: outside an
\* identify() that is lighting the slot, the cache never makes an LED look
\* external that the application's own request lit, unless the application gave
\* that LED up - be the reading from before, during or after any number of writes.
CacheNeverBlamesOthers ==
  \A s \in Slots :
    /\ ident[s] = "idle" \/ ~wanted[s]
    /\ \A p \in Pollers : poll[p] # "storing"
    /\ Shown(s) = "external"
    => cached[s] = External \/ s \in disowned

\* A false external verdict needs a reader that was overtaken: by an identify()
\* on the very slot, or by a poll that replaced the cache under the reader.
FalseExternalNeedsOverlap ==
  \A r \in Readers :
    reader[r] = "looked" /\ Verdict(r) = "external" /\ seen[r][bay[r]] = App
      => bay[r] \in overlap[r] \/ Poll \in overlap[r]

\* Polls keep succeeding.
PollsSucceed == []<><<\E p \in Pollers : PollDates(p)>>_vars

\* Nobody works on the slot, and its LED stays as it is.
Settled(s, lamp) == led[s] = lamp /\ ident[s] = "idle" /\ s \notin record

\* As long as polls keep succeeding, what is shown settles on what the LED does
\* once writes to it end: a dark LED is not shown lit for ever, an external one is
\* not hidden for ever, however polls overlap and whichever of them ends last.
ShownSettles ==
  PollsSucceed => \A s \in Slots :
    /\ <>[]Settled(s, Dark) => <>[](Shown(s) = "off")
    /\ <>[]Settled(s, External) => <>[](Shown(s) = "external")

=============================================================================
