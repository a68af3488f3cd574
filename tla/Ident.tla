------------------------------- MODULE Ident -------------------------------
(***************************************************************************)
(* The IDENT timer engine: services/ident.py, with the start-up poll of    *)
(* services/state.py that feeds it.                                        *)
(*                                                                         *)
(* One IdentManager owns every locate LED the application has lit.  Web    *)
(* requests and one background task - reconcile() while the process        *)
(* starts, _tick() afterwards - call identify(), which holds a FIFO lock   *)
(* per enclosure, reads the LED, writes it in an executor thread, verifies *)
(* the read-back and then publishes the result.  Records survive a crash   *)
(* on disk; the LEDs survive it in the shelf.                              *)
(*                                                                         *)
(* The wall clock is abstracted to two events: a timed record's expiry     *)
(* (Expire) and the end of a retry backoff (BackoffElapses).               *)
(***************************************************************************)
EXTENDS Integers, Sequences

CONSTANTS
  Slots,        \* (enclosure_id, ses_slot) pairs
  Encl,         \* enclosures; each has its own asyncio.Lock
  EnclOf,       \* the enclosure of a slot
  Reqs,         \* identify requests, each issued at most once; also names its record
  Timer,         \* the background task: reconcile() at start-up, _tick() afterwards
  None,         \* no record
  Dark,         \* an LED that is not lit
  External,     \* an LED lit by something that is not this application
  MaxAttempts,  \* clear_max_attempts
  OtherErrors,  \* may an automatic clear raise neither LocateError nor LookupError?
  MaxCrashes    \* bound: process deaths in one behaviour

ASSUME ConstantsAssumption ==
  /\ Slots # {}
  /\ EnclOf \in [Slots -> Encl]
  /\ Timer \notin Reqs
  /\ None \notin Reqs
  /\ Dark \notin Reqs /\ External \notin Reqs /\ Dark # External
  /\ MaxAttempts \in Nat \ {0}
  /\ OtherErrors \in BOOLEAN
  /\ MaxCrashes \in Nat

Procs == Reqs \cup {Timer}
Ops   == {"off", "timed", "forever"}
Lamp  == Reqs \cup {Dark, External}

VARIABLES
  led,      \* led[s]: Dark, External, or the request whose command lit it
  late,     \* commands <<slot, lamp>> still under way after their caller gave up
  disk,     \* the records file
  dirty,    \* did the last _save() fail?
  phase,    \* "down", "starting" (reconcile) or "up"
  crashes,  \* process deaths so far
  records,  \* IdentManager._records
  fails,    \* attempts in IdentManager._clear_failures, 0 when absent
  backoff,  \* slots whose retry_at lies in the future
  queue,    \* per enclosure: the lock's holder followed by its waiters
  pc,       \* per process: where in identify() it is
  slot,     \* per process: the slot it works on
  op,       \* per process: what it asks for
  due,      \* requests whose expires_at has passed
  agenda,   \* the background task's snapshot of the records it has left to visit
  tries,    \* _tick's local variable attempts
  observed, \* reconcile's argument: what the start-up poll saw
  fate      \* history: why the application stopped tracking a request's LED

hardware == <<led, late>>
store    == <<disk, dirty>>
memory   == <<records, fails, backoff>>
tasks    == <<queue, pc, slot, op>>
sweep    == <<agenda, tries, observed>>
vars     == <<hardware, store, phase, crashes, memory, tasks, due, sweep, fate>>

NoRecords == [s \in Slots |-> None]

Fates == {"none", "failed", "gaveup", "dropped", "unsaved"}

TypeOK ==
  /\ led \in [Slots -> Lamp]
  /\ late \subseteq Slots \X (Reqs \cup {Dark})
  /\ disk \in [Slots -> Reqs \cup {None}]
  /\ dirty \in BOOLEAN
  /\ phase \in {"down", "starting", "up"}
  /\ crashes \in 0..MaxCrashes
  /\ records \in [Slots -> Reqs \cup {None}]
  /\ fails \in [Slots -> 0..(MaxAttempts - 1)]
  /\ backoff \subseteq Slots
  /\ queue \in [Encl -> Seq(Procs)]
  /\ pc \in [Procs -> {"idle", "queued", "writing", "verified", "done"}]
  /\ slot \in [Procs -> Slots]
  /\ op \in [Procs -> Ops]
  /\ due \subseteq Reqs
  /\ agenda \in [Slots -> Reqs \cup {None}]
  /\ tries \in 0..(MaxAttempts - 1)
  /\ observed \in [Slots -> {"lit", "dark", "absent"}]
  /\ fate \in [Reqs -> Fates]

Init ==
  /\ led \in [Slots -> {Dark, External}]
  /\ late = {}
  /\ disk = NoRecords /\ dirty = FALSE
  /\ phase = "down" /\ crashes = 0
  /\ records = NoRecords
  /\ fails = [s \in Slots |-> 0] /\ backoff = {}
  /\ queue = [e \in Encl |-> <<>>]
  /\ pc = [p \in Procs |-> "idle"]
  /\ slot = [p \in Procs |-> CHOOSE s \in Slots : TRUE]
  /\ op = [p \in Procs |-> "off"]
  /\ due = {}
  /\ agenda = NoRecords /\ tries = 0
  /\ observed = [s \in Slots |-> "absent"]
  /\ fate = [r \in Reqs |-> "none"]

-----------------------------------------------------------------------------
(***************************************************************************)
(* Fault variants: what a definition below would be with a plausible bug.  *)
(* The specification uses none of them; the mutants of PROJECT.json put    *)
(* them in, one at a time, to see that the properties notice.              *)
(***************************************************************************)

\* identify() without its per-enclosure lock.
HoldsUnlocked(p) == queue[EnclOf[slot[p]]] # <<>>

\* A return path that leaves the lock held.
ReturnLocked(p) ==
  /\ pc' = [pc EXCEPT ![p] = IF p = Timer THEN "idle" ELSE "done"]
  /\ UNCHANGED <<queue, slot, op>>

\* A change to the records that is never written out.
SaveForgotten(recs) == UNCHANGED store

\* A failed clear that is not counted, and a retry limit off by one.
NextAttemptUncounted == tries
ExhaustedOffByOne    == tries + 1 > MaxAttempts

\* Start-up that clears every lit LED it has a record for.
ExpiredForgotten(s) == agenda[s] # None

-----------------------------------------------------------------------------
(***************************************************************************)
(* The lock, the records file and the commands that identify() is made of. *)
(***************************************************************************)

\* What process p's command turns the LED into.
Command(p) == IF op[p] = "off" THEN Dark ELSE p

\* p has entered `async with self._lock_for(...)`.
Holds(p) ==
  /\ queue[EnclOf[slot[p]]] # <<>>
  /\ Head(queue[EnclOf[slot[p]]]) = p

\* p calls identify(): validation passed, now waiting for (or given) the lock.
Call(p, s, o) ==
  /\ queue' = [queue EXCEPT ![EnclOf[s]] = Append(@, p)]
  /\ pc' = [pc EXCEPT ![p] = "queued"]
  /\ slot' = [slot EXCEPT ![p] = s]
  /\ op' = [op EXCEPT ![p] = o]

\* p leaves identify(), normally or by an exception, releasing the lock.
Return(p) ==
  /\ queue' = [queue EXCEPT ![EnclOf[slot[p]]] = Tail(@)]
  /\ pc' = [pc EXCEPT ![p] = IF p = Timer THEN "idle" ELSE "done"]
  /\ UNCHANGED <<slot, op>>

\* _save(): atomic replacement of the file; an OSError is only logged.
Save(recs) ==
  \/ disk' = recs /\ dirty' = FALSE
  \/ disk' = disk /\ dirty' = TRUE

\* A slot leaves the background task's agenda.
Visited(s) == agenda' = [agenda EXCEPT ![s] = None]

\* Between the slots of its sweep the background task does not await: the event
\* loop runs no other coroutine then (threads and the shelf go on).
LoopFree == pc[Timer] # "idle" \/ agenda = NoRecords

-----------------------------------------------------------------------------
(***************************************************************************)
(* identify(), in the order of its awaits.                                 *)
(***************************************************************************)

\* A user's POST .../identify reaches the manager.
Submit(r) ==
  /\ phase = "up" /\ pc[r] = "idle" /\ LoopFree
  /\ \E s \in Slots, o \in Ops : Call(r, s, o)
  /\ UNCHANGED <<hardware, store, phase, crashes, memory, due, sweep, fate>>

\* The lock is held and writer.read() returned; the write is handed to a thread.
ReadPrevious(p) ==
  /\ pc[p] = "queued" /\ Holds(p) /\ LoopFree
  /\ pc' = [pc EXCEPT ![p] = "writing"]
  /\ UNCHANGED <<hardware, store, phase, crashes, memory, queue, slot, op,
                 due, sweep, fate>>

\* writer.write() applied the command and read it back as requested.
WriteVerified(p) ==
  /\ pc[p] = "writing"
  /\ led' = [led EXCEPT ![slot[p]] = Command(p)]
  /\ pc' = [pc EXCEPT ![p] = "verified"]
  /\ UNCHANGED <<late, store, phase, crashes, memory, queue, slot, op,
                 due, sweep, fate>>

\* The coroutine resumes: retry state dropped, the record stored or popped,
\* the records saved, the lock released - without an await in between.
Publish(p) ==
  /\ pc[p] = "verified" /\ LoopFree
  /\ records' = [records EXCEPT ![slot[p]] = IF op[p] = "off" THEN None ELSE p]
  /\ fails' = [fails EXCEPT ![slot[p]] = 0]
  /\ backoff' = backoff \ {slot[p]}
  /\ Save(records')
  /\ Return(p)
  /\ IF p = Timer THEN Visited(slot[p]) /\ tries' = 0
                 ELSE UNCHANGED <<agenda, tries>>
  /\ UNCHANGED <<hardware, phase, crashes, due, observed, fate>>

\* identify() raises: the read failed, the write raised, or the read-back did
\* not settle.  A command that was sent may still reach the shelf later.
Raises(p) ==
  /\ LoopFree
  /\ \/ /\ pc[p] = "queued" /\ Holds(p)
        /\ UNCHANGED late
     \/ /\ pc[p] = "writing"
        /\ \/ UNCHANGED late
           \/ late' = late \cup {<<slot[p], Command(p)>>}
  /\ Return(p)

\* A user's request fails: reported as an error, no record is kept.
RequestFails(r) ==
  /\ Raises(r)
  /\ fate' = [fate EXCEPT ![r] = "failed"]
  /\ UNCHANGED <<led, store, phase, crashes, memory, due, sweep>>

-----------------------------------------------------------------------------
(***************************************************************************)
(* The timer loop.                                                         *)
(***************************************************************************)

\* One pass of _tick: the records that have expired by now, from a snapshot.
TickStart ==
  /\ phase = "up" /\ pc[Timer] = "idle" /\ agenda = NoRecords
  /\ \E s \in Slots : records[s] \in due
  /\ agenda' = [s \in Slots |-> IF records[s] \in due THEN records[s] ELSE None]
  /\ UNCHANGED <<hardware, store, phase, crashes, memory, tasks, due,
                 tries, observed, fate>>

\* `now < retry_at`: the slot is left for a later pass.
SkipInBackoff(s) ==
  /\ phase = "up" /\ pc[Timer] = "idle"
  /\ agenda[s] # None /\ s \in backoff
  /\ Visited(s)
  /\ UNCHANGED <<hardware, store, phase, crashes, memory, tasks, due,
                 tries, observed, fate>>

\* The timer calls identify(on=False); attempts is read before the call.
StartClear(s) ==
  /\ phase = "up" /\ pc[Timer] = "idle"
  /\ agenda[s] # None /\ s \notin backoff
  /\ tries' = fails[s]
  /\ Call(Timer, s, "off")
  /\ UNCHANGED <<hardware, store, phase, crashes, memory, due,
                 agenda, observed, fate>>

\* `attempts += 1`, and the bound it is held against.
NextAttempt == tries + 1
Exhausted   == NextAttempt >= MaxAttempts

\* LocateError or LookupError: count the attempt and back off.
ClearFails ==
  /\ phase = "up" /\ Raises(Timer)
  /\ ~Exhausted
  /\ fails' = [fails EXCEPT ![slot[Timer]] = NextAttempt]
  /\ backoff' = backoff \cup {slot[Timer]}
  /\ Visited(slot[Timer]) /\ tries' = 0
  /\ UNCHANGED <<led, store, phase, crashes, records, due, observed, fate>>

\* The attempts are used up: whatever record the slot has now is dropped.
ClearGivesUp ==
  LET s == slot[Timer] IN
  /\ phase = "up" /\ Raises(Timer)
  /\ Exhausted
  /\ records' = [records EXCEPT ![s] = None]
  /\ fails' = [fails EXCEPT ![s] = 0]
  /\ backoff' = backoff \ {s}
  /\ Save(records')
  /\ fate' = [r \in Reqs |-> IF r = records[s] THEN "gaveup" ELSE fate[r]]
  /\ Visited(s) /\ tries' = 0
  /\ UNCHANGED <<led, phase, crashes, due, observed>>

\* Any other exception: logged by the outer handler, which abandons the pass.
ClearRaisesOther ==
  /\ OtherErrors
  /\ phase = "up" /\ Raises(Timer)
  /\ agenda' = NoRecords /\ tries' = 0
  /\ UNCHANGED <<led, store, phase, crashes, memory, due, observed, fate>>

-----------------------------------------------------------------------------
(***************************************************************************)
(* Start-up: one hardware poll, then reconcile().                          *)
(***************************************************************************)

\* StateService.start(): the poll may miss enclosures, or fail and see none.
\* reconcile() then loads the file and starts over its own snapshot.
Boot ==
  /\ phase = "down"
  /\ phase' = "starting"
  /\ \E seen \in SUBSET Encl :
       observed' = [s \in Slots |->
         IF EnclOf[s] \notin seen THEN "absent"
         ELSE IF led[s] = Dark THEN "dark" ELSE "lit"]
  /\ records' = disk
  /\ agenda' = disk
  /\ UNCHANGED <<hardware, store, crashes, fails, backoff, tasks, due, tries, fate>>

\* A record whose slot is absent or dark is dropped from memory.
ReconcileDrops(s) ==
  /\ phase = "starting" /\ pc[Timer] = "idle"
  /\ agenda[s] # None /\ observed[s] # "lit"
  /\ records' = [records EXCEPT ![s] = None]
  /\ fate' = [r \in Reqs |->
       IF r = records[s] /\ observed[s] = "absent" THEN "dropped" ELSE fate[r]]
  /\ Visited(s)
  /\ UNCHANGED <<hardware, store, phase, crashes, fails, backoff, tasks,
                 due, tries, observed>>

\* The record's timer ran out, possibly while the application was down.
Expired(s) == agenda[s] \in due

\* Lit and not expired: the timer keeps running.
ReconcileKeeps(s) ==
  /\ phase = "starting" /\ pc[Timer] = "idle"
  /\ agenda[s] # None /\ observed[s] = "lit" /\ ~Expired(s)
  /\ Visited(s)
  /\ UNCHANGED <<hardware, store, phase, crashes, memory, tasks, due,
                 tries, observed, fate>>

\* Lit and expired while the application was down: cleared now.
ReconcileClears(s) ==
  /\ phase = "starting" /\ pc[Timer] = "idle"
  /\ agenda[s] # None /\ observed[s] = "lit" /\ Expired(s)
  /\ Call(Timer, s, "off")
  /\ UNCHANGED <<hardware, store, phase, crashes, memory, due, sweep, fate>>

\* The clear failed: the record stays for the timer loop to retry.
ReconcileClearFails ==
  /\ phase = "starting" /\ Raises(Timer)
  /\ Visited(slot[Timer])
  /\ UNCHANGED <<led, store, phase, crashes, memory, due, tries, observed, fate>>

\* reconcile() saves what is left; the timer and the web server start.
ReconcileDone ==
  /\ phase = "starting" /\ pc[Timer] = "idle" /\ agenda = NoRecords
  /\ Save(records)
  /\ phase' = "up"
  /\ observed' = [s \in Slots |-> "absent"]
  /\ UNCHANGED <<hardware, crashes, memory, tasks, due, agenda, tries, fate>>

-----------------------------------------------------------------------------
(***************************************************************************)
(* The environment.                                                        *)
(***************************************************************************)

\* The expires_at of a stored record passes; the clock runs while the process is down.
Expire(r) ==
  /\ op[r] = "timed" /\ r \notin due
  /\ \E s \in Slots : r \in {records[s], disk[s]}
  /\ due' = due \cup {r}
  /\ UNCHANGED <<hardware, store, phase, crashes, memory, tasks, sweep, fate>>

BackoffElapses(s) ==
  /\ s \in backoff
  /\ backoff' = backoff \ {s}
  /\ UNCHANGED <<hardware, store, phase, crashes, records, fails, tasks,
                 due, sweep, fate>>

\* Another initiator, or the shelf itself, changes the LED.
ExternalChange(s) ==
  /\ led' = [led EXCEPT ![s] = IF @ = Dark THEN External ELSE Dark]
  /\ UNCHANGED <<late, store, phase, crashes, memory, tasks, due, sweep, fate>>

\* A command whose caller timed out, failed or died reaches the shelf after all.
LateEffect(c) ==
  /\ c \in late
  /\ led' = [led EXCEPT ![c[1]] = c[2]]
  /\ late' = late \ {c}
  /\ UNCHANGED <<store, phase, crashes, memory, tasks, due, sweep, fate>>

\* The process dies, or stops: cancelled tasks publish nothing, threads and the
\* helper may still finish the commands they were given.
Crash ==
  /\ phase # "down" /\ crashes < MaxCrashes
  /\ phase' = "down" /\ crashes' = crashes + 1
  /\ \E sent \in SUBSET {p \in Procs : pc[p] = "writing"} :
       late' = late \cup {<<slot[p], Command(p)>> : p \in sent}
  /\ fate' = [r \in Reqs |->
       IF pc[r] = "writing" THEN "failed"
       ELSE IF \/ pc[r] = "verified"
               \/ dirty /\ \E s \in Slots : records[s] = r /\ disk[s] # r
         THEN "unsaved" ELSE fate[r]]
  /\ records' = NoRecords
  /\ fails' = [s \in Slots |-> 0] /\ backoff' = {}
  /\ queue' = [e \in Encl |-> <<>>]
  /\ pc' = [p \in Procs |-> IF p = Timer \/ pc[p] = "idle" THEN "idle" ELSE "done"]
  /\ agenda' = NoRecords /\ tries' = 0
  /\ observed' = [s \in Slots |-> "absent"]
  /\ dirty' = FALSE
  /\ UNCHANGED <<led, disk, slot, op, due>>

-----------------------------------------------------------------------------

\* One process's way through identify().
Proceed(p) ==
  \/ ReadPrevious(p)
  \/ WriteVerified(p)
  \/ Publish(p)

\* What the background task does with a failed clear.
TimerFails ==
  \/ ClearFails
  \/ ClearGivesUp
  \/ ClearRaisesOther
  \/ ReconcileClearFails

\* The background task visits the next slot of its snapshot.
TimerVisits(s) ==
  \/ SkipInBackoff(s)
  \/ StartClear(s)
  \/ ReconcileDrops(s)
  \/ ReconcileKeeps(s)
  \/ ReconcileClears(s)

Next ==
  \/ \E r \in Reqs : Submit(r) \/ RequestFails(r) \/ Expire(r)
  \/ \E p \in Procs : Proceed(p)
  \/ TimerFails
  \/ \E s \in Slots : TimerVisits(s) \/ BackoffElapses(s) \/ ExternalChange(s)
  \/ \E c \in late : LateEffect(c)
  \/ TickStart
  \/ Boot
  \/ ReconcileDone
  \/ Crash

Spec == Init /\ [][Next]_vars

(***************************************************************************)
(* Fairness.  Executor jobs end (sg_ses has a timeout, the socket client   *)
(* has one), the event loop runs what is ready, clocks advance, and the    *)
(* container's restart policy boots a dead process.  Nothing is assumed of *)
(* the outcome of a write, of users, of other initiators or of crashes.    *)
(***************************************************************************)
Fairness ==
  /\ \A r \in Reqs : WF_vars(Proceed(r) \/ RequestFails(r)) /\ WF_vars(Expire(r))
  /\ WF_vars(Proceed(Timer) \/ TimerFails)
  /\ WF_vars(\E s \in Slots : TimerVisits(s))
  /\ \A s \in Slots : WF_vars(BackoffElapses(s))
  /\ WF_vars(TickStart) /\ WF_vars(Boot) /\ WF_vars(ReconcileDone)

FairSpec == Spec /\ Fairness

-----------------------------------------------------------------------------
(***************************************************************************)
(* Safety.                                                                 *)
(***************************************************************************)

\* The lock per enclosure: of all tasks inside identify() - user requests, the
\* timer, reconcile - at most one per enclosure is between its write and the
\* publication of the verified result ("so two concurrent requests cannot
\* interleave a write and its verification read").
OneWriterPerEnclosure ==
  \A p, q \in Procs :
    /\ pc[p] \in {"writing", "verified"}
    /\ pc[q] \in {"writing", "verified"}
    /\ EnclOf[slot[p]] = EnclOf[slot[q]]
    => p = q

\* r's verified write is not yet published.
Publishing(r, s) == pc[r] = "verified" /\ slot[r] = s

\* Who a lit LED belongs to is never lost or confused, across concurrent
\* requests, timer clears, backoffs, crashes and restarts: while the process is
\* up, an LED that request r lit carries r's own record, unless r is just
\* publishing it or fate[r] names how it was lost - r was answered with an
\* error, the timer gave up, the start-up poll did not see the slot, or the
\* process died before the record reached the disk.
Attributed ==
  phase = "up" =>
    \A s \in Slots :
      led[s] \in Reqs /\ fate[led[s]] = "none"
        => records[s] = led[s] \/ Publishing(led[s], s)

\* Whenever the event loop is free, a crash now would lose nothing: the file
\* holds exactly the records in memory, unless the last save failed.
Durable == phase = "up" /\ ~dirty => disk = records

\* Start-up never clears blindly: the LED reconcile() is switching off carries
\* a record of this application whose timer has expired, still, at that moment.
ReconcileClearsOnlyExpired ==
  phase = "starting" /\ pc[Timer] \in {"writing", "verified"}
    => records[slot[Timer]] \in due

\* ident.py:7-9 of the timer: "may only auto-clear a request it can prove it
\* created and whose timer has expired".  The code does not keep it: a clear that
\* waits for the lock switches off whatever request took the slot meanwhile.
AutoClearsOnlyExpired ==
  phase = "up" /\ pc[Timer] = "writing"
    => records[slot[Timer]] = None \/ records[slot[Timer]] \in due

\* ARCHITECTURE.md:197: after a restart mid-IDENT "timers restored from disk and
\* reconciled".  The code does not keep it: a start-up poll that fails, or runs
\* before the shelf is enumerated, discards the records of slots it did not see.
TimersSurviveRestart ==
  \A s \in Slots : led[s] \in Reqs => fate[led[s]] # "dropped"

-----------------------------------------------------------------------------
(***************************************************************************)
(* Liveness.                                                               *)
(***************************************************************************)

\* Every call of identify() returns: nobody waits for the enclosure lock for
\* ever, whatever fails around it and even if the process dies.
RequestsReturn == \A r \in Reqs : pc[r] = "queued" ~> pc[r] = "done"

\* An expired record does not stay: it is cleared, replaced or given up, even if
\* every attempt to clear it fails ("retries are bounded").
ExpiredRecordsGo ==
  \A r \in Reqs, s \in Slots : records[s] = r /\ r \in due ~> records[s] # r

\* Timers are server-side: an LED lit by a timed request does not stay lit for
\* ever because a browser went away, a clear failed once or the container
\* restarted; it goes out, changes hands, or its loss has a name in fate.
TimedLedsGoOut ==
  \A r \in Reqs, s \in Slots :
    led[s] = r /\ op[r] = "timed" ~> led[s] # r \/ fate[r] # "none"

=============================================================================
