# KTN enclosure manager: TLA+ verification project

TLA+ models of the concurrent core of the KTN enclosure manager, the TLC runs
that check them on small instances, and TLAPS proofs of the most important
invariants for instances of every size. Paths below are relative to `src/`;
`ident.py` stands for `backend/ktnmgr/services/ident.py`, and so on.

## 1. The system

One container shows the bays of a disk shelf in a browser and lights their
IDENT (locate) LEDs.

* The **web process** (FastAPI) has one event loop. Its background tasks are the
  poll loop (`state.py:_loop`), the IDENT timer (`ident.py:_tick`) and the TLS
  watcher. LED and shelf access is blocking and goes to executor threads. The
  synchronous endpoints, `/bays` among them, and the notifier's composition run
  in *threads*, between any two bytecodes of the event loop.
* The **helper process** (`helper/ktn_ident_helper.py`) has the privileges to
  drive the shelf; the web process asks it over a unix socket, one thread per
  connection.
* Both processes take one **flock** around enclosure traffic (`access.py`).
* The shelf is read through sysfs (`sysfs.py`), `sg_ses` (`ses.py`,
  `ses_parser.py`) and block devices (`disks.py`); the TrueNAS appliance through
  a pooled WebSocket (`client.py`); health changes go to a webhook (`notify.py`).
* Files that survive a restart: IDENT records, notifier state, accounts, session
  secret, audit log.

### Inventory

| component | state it keeps | operations | interacts with | what is hard | what makes it correct |
|---|---|---|---|---|---|
| IDENT engine `ident.py` | `_records`, `_last_write`, `_clear_failures`, a lock per enclosure, the records file | `identify`, `_tick`, `reconcile`, `describe`, `_load`/`_save` | locate writers (executor), poll at start-up, `/bays` threads | concurrent requests and timer, retries, crashes, late commands | one writer per enclosure; every lit LED has its owner on record; clears only what expired; timed LEDs go out |
| State service: LED freshness `state.py` | `slots` cache and the instant its readings are from | `poll_hardware`, `_compose_bays` | IDENT engine, sysfs | overlapping polls, readings from before a write, readers in threads | the application's own LED is never shown as somebody else's |
| State service: composition `state.py`, `correlate.py`, `disks.py` | caches by block name: pools, disks, temperatures | `poll_truenas`, `poll_smart`, `_compose_bays` | TrueNAS client, kernel names | names reused by another drive, polls of different age | a bay shows one drive's data; a fault is not hidden |
| State service: loop and chassis `state.py` | chassis telemetry, SES/SAS address map, error flags | `_loop`, `poll_chassis`, `poll_system_info`, `start`, `stop` | `sg_ses` | one poll failing or hanging, stale data kept | stale is marked stale; a failed source does not stop the others |
| Health notifier `notify.py` | `_last`, `_retry_at`, state file | `evaluate`, `_send`, `_load`/`_save` | composition thread, webhook | concurrent deliveries, lost answers, retries, restart | what is committed is what was told; nothing twice; bad bays are announced |
| Enclosure lock `access.py` | a flock, a thread-local depth | `enclosure_access` | sweeps, writers, both processes | nesting, time-outs, process death | a sweep sees a settled shelf; nobody waits for ever |
| Locate writers `locate.py`, `ses.py` | the type index and the slot map, for the life of the process | `read`, `write`, settle poll | lock, helper, shelf | pages that firmware leaves incomplete, outcomes that are unknown | the bay asked for is lit, or none; a write is verified before it is believed |
| Helper `ktn_ident_helper.py` | none across requests | `handle`, `_dispatch` | web process, lock | a client that has given up | only IDENT, only known slots |
| Readers `sysfs.py`, `ses_parser.py` | resolved devices | `discover`, `read_slots`, parsing | lock, kernel | devices renumbered | data belongs to the enclosure asked for |
| TrueNAS client `client.py` | pooled socket, request ids, lock | `call`, REST fallback | appliance | late replies, cancellation, one retry | a reply goes to its request |
| Accounts `auth.py` | users file, secret, attempts per address | bootstrap, login, password change, revocation | API threads | read-modify-write of one file, time windows | a new installation happens once; a revoked session stays revoked, unless writers overlap |
| TLS reload `tls_watch.py`, `docker-entrypoint.sh` | hash pending since | `check`, restart, copy loop | appliance's renewal, container restarts | two files renewed one after the other | a renewal is installed, no restart loop |
| Audit log `audit.py` | the log file | `record`, `_rotate_if_needed`, `tail` | everybody | rotation against readers | nothing recorded is lost silently |
| API `routes.py`, `main.py` | none | routes | all of the above | calls overlap | arguments are checked before effects |
| Browser UI `frontend/src` | last responses | refresh, identify | API | responses out of order | shows the newest state |

`PROJECT.json` lists the hazards of this code one by one, with the line where
each bites and the properties that would notice.

## 2. Modules

| module | models | composes |
|---|---|---|
| `Ident` | `identify()`, the timer, start-up, the records file, process deaths | event loop, executor, helper, disk, shelf |
| `MCIdent` | instance of `Ident` for TLC | |
| `IdentProofs` | theorems about `Ident` | |
| `BayView` | what `/bays` says of an LED: `describe()` over the slot cache | `identify()`, overlapping polls, threads |
| `BayViewProofs` | theorems about `BayView` | |
| `BayJoin` | whose data a bay shows | shelf, kernel names, three polls, a thread |
| `MCBayJoin` | instance of `BayJoin` for TLC | |
| `Notify` | `evaluate()` and the state file | webhook, poll loop, restarts |
| `BayJoinProofs` | theorems about `BayJoin` | |
| `NotifyProofs` | theorems about `Notify` | |
| `EnclosureLock` | the flock and the sections under it | threads of two processes, the processor |
| `ExclusiveShelf` | what the lock promises, in four actions | |
| `SlotMap`, `MCSlotMap` | the way from a slot number to an LED, and small shelves for it | firmware, `sg_ses`, parser, writer, `poll_chassis` |
| `SlotMapProofs` | theorems about `SlotMap` | |
| `Chassis` | `poll_chassis()`, its stale marks and address maps | discovery, `sg_ses`, the chassis page |
| `Accounts` | the account file and the sessions it vouches for | threads of the pool, disk, process deaths |
| `AccountsProofs` | theorems about `Accounts` | |
| `AuditLog` | `record()` with its rotation, `tail()` | recorders, viewers, process deaths |
| `RateLimiter` | the sliding window of password attempts | threads, the clock |
| `Services`, `MCServices` | the six parts above from `EnclosureLock` on, side by side in one run | |
| `ServicesProofs` | `EnclosureLock` implements `ExclusiveShelf`; theorems about `Chassis`, `RateLimiter`, `AuditLog`, and about the six side by side | |
| `TrueNasClient` | the pooled connection of `client.py` | the poll loop, `stop()` |
| `TlsReload` | `tls_watch.py` and the entrypoint's copy loop | the appliance's writes, container restarts |
| `Lifecycle` | `main.py`'s lifespan: the two modules above, joined | `TrueNasClient`, `TlsReload` |
| `LifecycleProofs` | theorems about `Lifecycle` | |

The modules also hold a few *fault variants*: what one
definition would be with a plausible bug. Nothing uses them; the mutation runs
put them in, one at a time, to see that a property notices.

### 2.1 `Ident`

State: `records`, `fails`/`backoff` (the two halves of `_clear_failures`), `queue`
(the holder of each `asyncio.Lock` followed by its waiters, which it serves in
order), `disk`/`dirty` (the file, and whether the last `_save()` failed), `led`
(the shelf) and `late` (commands under way whose caller has gone). A request `r`
names its own record, so `records[s] = r` reads "the slot's record is the one `r`
wrote". `pc`, `slot` and `op` say where each task is in `identify()`, and `agenda`,
`tries` and `observed` are locals of `_tick` and `reconcile`.

* Every action lies between two `await`s. `LoopFree` says that the background
  task, which does not await between the slots of a sweep, keeps the event loop
  meanwhile; threads and the shelf go on.
* `ReadPrevious` / `WriteVerified` / `Publish` are the phases of `identify()`:
  read under the lock, write and verified read-back in the executor, then
  everything after the last `await` (retry state, record, save, unlock) at once.
* `Raises` is any exception on the way; a command that was sent may still take
  effect (`LateEffect`). `ClearFails`, `ClearGivesUp`, `ClearRaisesOther`,
  `ReconcileClearFails` are what the background task makes of it: count and back
  off, drop the record, abandon the sweep (an exception that is neither
  `LocateError` nor `LookupError`), leave it to the timer.
* `Boot` is `StateService.start()`: a poll that may miss enclosures, then
  `reconcile()` over its snapshot (`ReconcileDrops`, `-Keeps`, `-Clears`,
  `-Done`).
* `Crash` is death of the process at any step, and also a stop: a cancelled
  task publishes nothing. An error out of `reconcile()` that is not caught is such
  a death too.
* The clock is two events, `Expire` and `BackoffElapses`; it runs while the process
  is down. `Save` replaces the file or fails, as the temporary file and rename do;
  loss of a renamed file at power failure (there is no fsync) is not modelled.
* `fate` is history: it gives each way in which the application may lose track of
  an LED a name.

### 2.2 `BayView`

The two monotonic clocks of `describe()` matter only in one comparison,
`observed_at <= written_at`. An instant is therefore the set of slots stamped
since it was taken (`since`, `cachedAge`, `age`), and the comparison is membership.
A poll takes its instant, reads the slots one by one, and stores value and instant
in two steps; `identify()` publishes record and stamp in two steps, in the order of
the code (record first when lighting, stamp first when clearing). These halves are
visible to threads only: `LoopFree` keeps the event loop's own tasks out. A reader
takes `slots.value`, then per bay `observed_monotonic`, `_last_write` and
`_records`, one step each. What the timer gives up on is no longer the
application's LED (`GivesUp` renames it `External` wherever it has been read).

### 2.3 `BayJoin`

Only the origin of data matters: a disk record, a ZFS status or a temperature is
represented by the drive it describes. `Remove` and `Insert` re-assign block names
freely; a removed drive may stay listed in its pool under the name it had (`former`)
until the pool forgets it (`Forget`) or it comes back. `PoolsAnswer` / `DisksAnswer` /
`DisksStored` are the two queries and the two assignments of `poll_truenas`,
`TempsAnswer` / `SmartStored` those of `poll_smart`; the poll loop is one task, so the two
polls never overlap (`LoopIdle`). An answer to `pool.query` has, by name, the present
member and the removed ones; `Leaves` and `StoredPools` make the index of it as `_walk` and
`build_zfs_index` do: a leaf without a `disk` is entered under its `unavail_disk`, and of two
leaves with one name the last on the walk stands, whichever that is. `disk.query` and
`disk.temperatures` know only drives that are there. `ReadLocal` / `LookupRemote` /
`LookupSignals` are a composing thread.

Whether two descriptions can be compared depends on the identifiers each has: `Sysfs` and
`DiskQuery` give, by drive, which of WWN and serial the two sides declare, and `known` is
the part of the local ones that could be read. `Conflict` is `_identity_conflict`: a WWN on
both sides decides, else a serial on both, else there is no conflict, so that a WWN on one
side and a serial on the other prove nothing. `Swapped`, `ShownIdentity`, `ShownPool` and
`ShownSmart` are the decisions of `_compose_bays` and `merge_identity`. `straddled`,
`mixed`, `recalled` and `overtaken` are history: they mark the cases in which the code
cannot do better. `PollHardware` is one step here (its overlaps are `BayView`'s subject);
the lookups of pool and temperature are one step, since no poll stores both.

Taken as given: identifiers of two drives differ, and both sides write that of one drive
alike (`state.py:161-163`); a temperature alert is about the drive whose temperature the
same poll read, and an identity is read of one drive.

### 2.4 `Notify`

`Compose` (in a thread), `Evaluate` (up to the `gather`), one `Accept` or `Reject`
per bay in any order, `Commit` and `Save`. A rejected message may have reached the
operator: its answer was lost. `told` is history, what the operator has been told;
`unaware` marks bays for which the notifier cannot know it. Records are keyed by bay,
not by drive, in the code and here.

### 2.5 `EnclosureLock` and `ExclusiveShelf`

One writer is `Enter`, `Acquire` (or `GoUnsynchronised` after 30 s, or no lock file
at all), the nested section of `set_ident`, the command, the settle poll, `Exit`; a
sweep reads one slot at a time under one section. `inflight` are commands the shelf
has and does not show yet, `orphans` those whose writer was not, or is no longer,
synchronised. `depth` is the thread-local counter.

`ExclusiveShelf` is what a reader of `access.py:1-8` may rely on: who has the enclosure
has it alone from `Take` to `Give`, only the holder adds commands, and nobody takes the
enclosure while one of them is pending. The refinement mapping gives it the flock's
owner as `holder` and `inflight \ orphans` as `pending`: the module's own docstring says
that a section without the lock promises nothing. A depth that is counted wrongly, or a
nested section that releases, breaks it: the lock changes hands while a command is
pending, or a command comes from somebody else.

### 2.6 `TrueNasClient`, `TlsReload`, `Lifecycle`

`TrueNasClient` is the life of the pooled connection: `queue` is the client's
`asyncio.Lock`, `socket` the connection `_socket` refers to, `fresh` the one `_connect()`
authenticates, `open` what the appliance has open. Each action ends at an `await`:
`Proceed`, `Connected` / `ConnectFails`, `LoggedIn` / `LoginFails`, `Answered` /
`RequestFails`, `RestEnds`. `Fails` is the retry and, after it, the fallback. The poll loop
is the only caller, so the lock matters against `close()`, whose handshake is an `await`
of its own (`StopCloses`, `StopEnds`).

`TlsReload` has the mounted pair, which the appliance rewrites in place, certificate
first (`RewriteBegins` to `KeyWritten`; a chain may be seen cut between two blocks), the
watcher (`Check` is one whole `check()`; it does not await), and the entrypoint
(`CopyCert`, `CopyKey`, `CheckPair`, `AttemptFails`, ten times in the code). Content
stands for its hash. Two assumptions about time are named: the settle period (5 s at
least, 60 s by default) outlasts one write of a file (`SettleElapses`), and rewrites are far enough apart for
the watcher to see the outcome of each (`LastIsSeen`). A mismatched pair may be mounted
for longer than either.

`Lifecycle` EXTENDS both and joins them where the code does: SIGTERM ends the watcher and
begins `StateService.stop()` (`LifespanEnds`), the process exits when `close()` has
returned and the loop is cancelled (`ProcessExits`), and the next process has a new
client and a new watcher. `ProcessDies` is an end without any of that, the operator's
included.

### 2.7 `SlotMap`

A shelf is a list of type descriptors with the slot numbers its bays announce and the
habits of its firmware: printed indexes or none, with or without overall elements,
optional descriptors omitted (noticed by `sg_ses` or not), descriptors of empty bays left
out. `AesPage` prints it the way `sg_ses` does, block by block off one list; a read may
come short or lose a line to a pattern that does not match (`AesReads`). A line stands
for its form; no text is modelled. `ParseLine` is the parser's state machine,
`BuildSlotMap` and `SlotSasAddresses` the two consumers of its blocks with all their
refusals, and the caches of `SesLocateWriter` live until `WriterRestarts`.

### 2.8 `Chassis`

`poll_chassis()` from page to page (`StartPoll`, `NoDevice`, `ReadTelemetry`,
`TelemetryFails`, `ReadSlotAddresses`, `SlotAddressesFail`, `FinishPoll`, `NoTool`), while
the list of enclosures is replaced under it (`Discover`). A reading is only whether it is
from the last poll (`old`, history) and whether it is marked (`stale`).
`TelemetryFails` marks the object in the cache itself, as the code does, before the poll
has stored anything.

### 2.9 `Accounts`, `RateLimiter`, `AuditLog`

`Accounts`: an operation is `Start`, then `Gate`, `Verify`, `Read` as the endpoint has them,
then the write: `OpenTmp`, `Fill`, `Replace`, each a step of its own, on inodes, because
all writers share the name `users.tmp` and the first rename takes it away from the
others. `Verify` may start a write of its own (the rehash). `Issue` reads the epoch again.
A hash is the password it is of; a session keeps, as history, the password it was opened
with, whether a change `straddled` its login, and whether a change or a revocation was to
have `ended` it. `overlapped` is history too: two writing operations have run at once.

`RateLimiter`: `Call` takes the time, `Check` counts under the lock, in any order; `Delay`
bounds the wait in between. An attempt is its time and a number that tells it from others of
the same time.

`AuditLog`: a line is its entry, or has none (`Torn`, `Glued`). A file that is renamed
keeps its content for the viewer that has it open, so `content` holds every generation.
`Windows` are the block-wise reads of `_read_tail_bytes()`: all windows that satisfy its
condition, whatever the lengths of the lines.

### 2.10 `Services`

These six share no state. One run checks them all: `part` says which one moves in a
behaviour, and the others stand still in one initial state. Nothing is lost by that, as
none of the properties relates two of them; the interactions that exist are inside the
modules (the settle poll under the lock, the page under writer and poll).

## 3. Runs

| run | instance | result | states |
|---|---|---|---|
| `IdentSafety` | 2 bays, 1 enclosure, 2 requests, 2 clear attempts, any exception, 1 crash, requests symmetric | passes | 343 333 |
| `IdentLiveness` | 1 bay, 2 requests, 2 attempts, 1 crash, fairness | passes | 44 124 |
| `BayView` | 1 slot, 2 overlapping polls, 1 reader | passes | 453 729 |
| `BayJoin` | 2 drives (WWN and serial on both sides; a WWN on one, a serial on the other) in turn in 1 bay under 1 name, fairness | passes | 1 712 767 |
| `Notify` | 2 bays, 2 healths, 1 crash, fairness | passes | 170 460 |
| `Lifecycle` | 2 versions, 2 rewrites, 2 copy attempts, REST fallback on, 1 death, fairness | passes | 113 528 |
| `Services` | lock: 1 writer in each process, 1 sweep, 1 bay, 1 crash, fairness; slot map: 4 lists of 3 or 4 elements, 2 numbers; chassis: 2 enclosures; accounts: 2 threads, 1 user, 2 passwords, 3 operations, 1 death; audit: 2 recorders, 1 viewer, 5 entries, rotation at 2 lines; limiter: 2 threads, 2 addresses, 6 ticks | passes | 366 628 |
| `IdentTimerRace`, `IdentRestart`, `NotifySilence`, `WrongBay`, `ChassisStale` | see section 4 | violation found | |

Why these bounds are enough to mean something:

* Two requests and the timer are three tasks for one lock: the shortest queue in
  which order matters. Two bays make the sweep of the timer visit more than one
  record; one crash separates "before" and "after" a restart, and every
  further restart starts from states the first can start from. `MaxAttempts = 2`
  has a failure that is retried and one that is final.
* One slot suffices in `BayView`: slots share only the instants, and two polls
  give every order of start, read and store. The proofs cover any number of both.
* In `BayJoin` every hazard comes from one name changing hands. The shelf is found with
  either drive in the bay, or none, and with pools that list those outside or not; one
  insertion later there is a second occupant, or the first again. One drive declares both
  identifiers to both sides, of which any part may be read; the other a WWN to one side
  and a serial to the other, so every outcome of the comparison occurs. Each exception
  `WrongPoolNeedsStraddle` names occurs too: without any one of them, TLC finds it
  violated. `MCBayJoin` has the two functions a configuration cannot write.
* In `Notify` two bays are needed for a partial failure of a `gather`; one crash for
  the file to be read back. The healths that matter are "bad" and "not bad"; a
  second bad one is in the violation run `NotifySilence` only (with it, this run's liveness
  is beyond five minutes), so that a warning that turns into a failure is covered by
  `LastIsTold` and `NeverRepeats` as theorems, and not by `AlertsArrive`.
* In `Services`, a writer on either side of the process boundary and a sweep for the lock.
  Four shelves put the bays first, last, after an optional type, and in two types in
  either order, which is every relation of a shift to the bays; three or four elements
  have room for one to move up. Two enclosures let one answer while the other
  fails or is gone. Two threads and three operations on the accounts are a login and a
  change beside a revocation; more users only add accounts that an overlap may restore,
  and the theorems are about any number. Generations of two lines rotate twice in five
  entries, so that one is removed. Six ticks hold two windows of three.
* In `Lifecycle` two rewrites give a renewal and a daily rewrite of the same bytes in
  either order, or two renewals, and a restart may fall into the second; two attempts are one that is repeated and a
  last one; two connections are a reconnect.

**Symmetry** is used in `IdentSafety` only, over requests, which no definition tells
apart.

**Fairness.** `Ident`: executor jobs end (`sg_ses` and the socket have time-outs), the
event loop runs what is ready, clocks advance, and the container's restart policy
boots a dead process; nothing is assumed of the outcome of a write, of users, other
initiators or crashes. `BayView` assumes nothing and `BayJoin` only that the shelf
is read again and again and that composing ends; `ShownSettles` and `JoinSettles` are conditional on polls that keep succeeding. `Notify`: the loop
goes on, deliveries end in their time-out, and an endpoint that is tried for ever accepts
in the end (strong fairness of `Accept`). `Services`, of the lock only: threads inside sections go on,
as `sg_ses` and all waits are bounded; nothing is assumed of who gets the lock. `Lifecycle`:
every await of a call has a time-out, `websockets` bounds its closing handshake, uvicorn
drains its connections, the watcher survives what `check()` raises
(`tls_watch.py:262-269`), and the container is always restarted; the appliance owes nothing.

`OtherErrors` is FALSE in `IdentLiveness`: with an `OSError` that repeats, which only the
in-process writers raise, the sweep is abandoned uncounted and an expired record stays.

### What the passing properties say

`Ident`: `OneWriterPerEnclosure`; `Attributed` (a lit LED carries its owner's record, or
`fate` names why not); `Durable` (file = records unless the last save failed);
`ReconcileClearsOnlyExpired`; `RequestsReturn`; `ExpiredRecordsGo`; `TimedLedsGoOut`.
`BayView`: `CacheNeverBlamesOthers` (no reading, however old, makes the cache call the
application's LED external), `FalseExternalNeedsOverlap` (only a reader overtaken within
its own composition can err), `ShownSettles`. `BayJoin`: `WrongPoolNeedsStraddle` (a bay
shows another drive's ZFS status only if ZFS still listed that drive under the name, a
drive came in between the two queries, a poll stored under the reader, or record and drive
have no identifier in common); `SilenceNeedsStraddle` (a status given for the drive in the
bay while it was there is withheld only in the second and third of these cases);
`JoinSettles` (in the end all data is the occupant's, but for the status of a member still
listed). `Notify`: `LastIsTold`, `NeverRepeats`,
`AlertsArrive`. `Lifecycle`: `NoConnectionForgotten`, `StopLeavesNothingOpen`, `CallsEnd`,
`ServedPairMatches`, `RestartsForAWholeRenewal`, `RenewalIsServed` (if the writes end and
the files can be read).

`Services`, part by part. Lock: `ImplementsExclusiveShelf`; `NothingHeldOutside` (lock and
depth are those of the sections entered, whichever way they were left);
`EveryoneGetsThrough`. Slot map: `WrongBayNeedsSilentShift` (the one way to light the wrong
bay, with every condition it takes); `AddressIsTheSlots` (the addresses served beside the
bays are never another bay's, though the same pages are read with fewer checks: an omitted
descriptor that shifts a bay shifts its own number with it). Chassis: `OldNeedsAnExcuse`,
`OldMapIsOfTheUnlisted`. Accounts: `GateStaysShut` (no overlap of writers makes a new
installation of an old one); `LoneChangesHold` (what a change or a revocation promises
holds unless two writers overlap). Without that precondition the statement is false, since
the last rename wins and a revocation beside another change is lost, though
`SECURITY.md:234-240` promises of "Sign out everywhere" and of a password change that each
"ends every session"; section 4 names it. Audit log:
`TailShowsTheLatest`, `OnlyOldEntriesGo`. Limiter: `LimiterHolds`.

## 4. Where code and documentation differ

| run | what happens |
|---|---|
| `IdentTimerRace` | The timer decides on an expired record, waits for the lock, and clears the *new* request that took the slot meanwhile (`ident.py:373-388`, against `ident.py:7-9`). |
| `IdentRestart` | A start-up poll that does not see the shelf makes `reconcile()` drop the records (`ident.py:333`, against `ARCHITECTURE.md:197`). |
| `NotifySilence` | A recovery delivered but not recorded makes the same failure, coming back, look already announced (`notify.py:306`, against `notify.py:7-9, 315-317`). |
| `WrongBay` | An omitted descriptor moves the next ones up by one block; the empty bay that ends under the foreign header has no number to betray it, the element behind the bays makes up the count, and IDENT lights the neighbour (`locate.py:252-284`, against `locate.py:124-126`). |
| `ChassisStale` | With `sg_ses` or the helper's socket gone, or an enclosure without an sg node beside one that answers, old telemetry is served with `stale=false` (`state.py:377-394`, against `ARCHITECTURE.md:194`). |

Met while modelling, without a run of its own: a thread that composes the bays reads the
stamp before a clear and the record after it, or the old snapshot with the new date, and
answers "external" (`ident.py:189-193`, `state.py:604,684`; `FalseExternalNeedsOverlap` says
when); the identity check passes on a fresh disk record while the temperature is the
departed drive's (`state.py:652-656`; `JoinSettles` says that it passes); the status of a
member that ZFS remembers is attached to the drive that took its name for as long as ZFS
lists it, while the disk record vouches for the new one (`correlate.py:47-52`, against the
"up to one poll_truenas interval" of `state.py:627-629`; `recalled` and `Left` in the
properties); a revocation that overlaps another change is lost and a login that straddles
one gets a cookie of the new epoch (`auth.py:218, 343`, against `SECURITY.md:234-240`;
`overlapped` and `straddled`); a failure waits for the cooldown of the
undelivered warning it supersedes, at most once (`notify.py:334`, against
`notify.py:85-90`); an uncaught `OSError` abandons the
timer's sweep uncounted; a clear in flight passes its failure count on to the
request that replaced its record (`ident.py:376,398`); a nested section yields True
while the outer one runs without the lock (`access.py:92-98`), which no caller reads;
an exception in one enclosure's composition skips the notification of the others
(`state.py:471-489`).

## 5. Proofs

TLAPS checks, for every set of slots, enclosures, drives, requests, polls, threads, users and
readers, and from no assumption but the named ones on the constants (`ConstantsAssumption`,
`ClientAssumption`, `TlsAssumption`, `ContentAssumption`, `ChassisAssumption`,
`AccountsAssumption`, `LimiterAssumption`, `AuditAssumption`, `SlotMapAssumption`):

* `IdentProofs`: `TypeCorrect`, `OneWriter`, `Attribution`, `Durability`,
  `ReconcileIsPrecise`, all from `Invariance == Spec => []IInv`.
* `BayViewProofs`: `TypeCorrect`, `CacheIsSound`, `ReaderIsSound`, from its own
  `Invariance`.
* `LifecycleProofs`: `TypeCorrect`, `ClientForgetsNothing`, `ShutdownIsClean`,
  `PairIsServed`, `NoRestartLoop`, `RestartsArePrecise`, from its `Invariance`.
* `BayJoinProofs`: `JoinTypeCorrect`, `WrongPoolIsExcused`, `SilenceIsExcused`.
* `NotifyProofs`: `NotifierTypeCorrect`, `CommittedIsTold`, `NothingIsRepeated`.
* `AccountsProofs`: `AccountsTypeCorrect`, `NoSecondFirstRun`, `EndedSessionsStayEnded`.
* `SlotMapProofs`: `SlotMapTypeCorrect`, `AddressesAreOfTheSlots`, `WrongBayIsSilentShift`.
* `ServicesProofs`: of the lock, `LockTypeCorrect`, `HoldsNothingOutside` and the refinement
  `LockIsTheShelf == Spec => ImplementsExclusiveShelf`; of the chassis poll,
  `ChassisTypeCorrect`, `StaleReadingsAreExcused`, `MapsAreDropped`; of the limiter,
  `LimiterTypeCorrect`, `AttemptsAreLimited`; of the audit log, `AuditTypeCorrect`,
  `ViewsShowTheLatest`, `OnlyOldEntriesAreLost`; and of the six parts side by side,
  `PartsBehaveAsAlone` and `ServicesTypeCorrect`.

The properties are not inductive by themselves. For `Ident` the strengthening is: whoever
is past its read heads the queue of its enclosure (`LockInv`); only the background task
runs while the process starts, nothing while it is down (`PhaseInv`); a command that
outlives its caller belongs to a request that was told it failed (`LateInv`); between its
write and its publication a task's slot shows its own lamp (`VerifiedInv`); attribution in
*every* phase, by the disk while the process is down (`TrackedInv`); what the file holds
while reconciliation has dropped records it has not saved yet (`DiskInv`); what
reconciliation knows of slots it has yet to visit (`ReconcileInv`). `LockInv` is what makes
`VerifiedInv` stable, `LateInv` what keeps a late command from stealing a tracked LED, and
`DiskInv` what carries `TrackedInv` over a crash.

For `BayView` the invariant follows a reading from the LED (`LedInv`) through the sample of
a poll under way (`SampleInv`) to the cache (`CacheInv`) and on to a reader (`ReaderInv`):
at each place, an LED read as the application's own still has its record, or was stamped
since, or was given up on. `LoopInv` keeps the two half-published states apart.

For `Lifecycle` the client's part says that the lock's queue and `pc` agree (`QueueMatches`:
who is inside a call is at the head, so `close()` never is while a call has a connection
under way) and that a connection is either pooled or being authenticated (`OneOpen`). The
other part is an argument by charging: while there are as many restarts as rewrites, what
is mounted is whole and is what is served or about to be (`NoneInHand`), so that the next
restart needs another rewrite; and what has settled was seen before the write now under
way (`SettledIsOlder`), so that a cut file never settles.

For `BayJoin` it follows a name through a poll: a name not assigned anew between the two
queries keeps its holder or loses it (`PoolsHold`), and what the index has for it is that
holder, nothing, or a member that had left (`StoredIsListed`); so the two indexes are of one
drive wherever the first is not of a departed one (`HalvesAgree`), also once both are stored
(`CachesAgree`); and a reader under which nothing is stored has what the indexes hold now
(`ReaderReads`).

For `Notify`: what is being sent differs from what is committed (`SentIsNews`), and what was
accepted has been told (`AcceptedIsTold`). The first is what `NeverRepeats` rests on, the
second what makes the commit after the `gather` restore `LastIsTold`.

For `EnclosureLock` the invariant ties the depth and the owner to the place of every thread,
on each of the ways into a section (with the lock, without it, nested in either), and says
that a command which is not orphaned belongs to the owner, inside its section. A step then
either leaves `holder` and `pending` alone or is one of the four of `ExclusiveShelf`.

For `Chassis`: what the poll holds of an enclosure it has come to is new or marked
(`Collecting`), and the maps of those are new or gone (`Mapping`).

For `Accounts` there are two invariants. The first holds always: no inode ever holds an empty
table of accounts (`NeverWrittenEmpty`), since whoever writes has at least its own account in
hand (`Carries`), and `open()` always finds an inode that nobody uses (`UnusedExists`, by
cardinalities). The second, `LoneInv`, holds while no two writers have overlapped: the writer
has `users.tmp` to itself (`OwnTmp`), the table it holds is the accounts as they are but for
its own change (`UpToDate`), a login under way has verified the account's password unless it
was straddled (`Vouched`), and no session's epoch is ahead of its account's, so that raising
the epoch ends them all (`LoneSession`).

For `RateLimiter`: who has taken a time is not older than `Delay` (`TimesTaken`), so what a
window can still hold when the next caller checks has not been forgotten (`HitsAreRecent`),
and `LimitHoldsUpToDelay` is inductive beside them: an attempt let through joins fewer than
`Attempts` recent ones. `PrunedInTime` is what bounds the age of an address.

For `AuditLog`: the lock has one holder (`Exclusive`), what it knows of the size stays true
until it has written (`SizeHolds`), an entry is its recorder's alone until it is on a line
(`EntriesAreNew`) and on one line only (`WrittenOnce`), and the lines a viewer has taken stay
where they were, whoever appends or renames meanwhile (`ViewsAgree`).

For `SlotMap` the invariant of the caches is short (`SlotMapInv`); the work is in the pages. A
page, as printed, cut or garbled, is in `Pages`: numbers stand under an element, an address
under the number of its own bay. Over such lines the parser keeps every address in the entry
of its bay (`LineIsParsed`, `ParsedIsAttributed`), and a slot served with an address has one
claim (`OneClaims`), so that the entry's number is that of the address. The pages, the parser
and the concatenations are recursive functions; that a recursive function has its values,
and that a set closed under its steps holds the last one, is derived from the cardinality of
finite sets (`LastReached`, `StepByStep`), for want of an induction rule the provers can use.

`WrongBayIsSilentShift` needs to know which descriptor stands at which place. The firmware's
list is in order (`Before`) and has what is sent (`Lists`, by `FlattenGrows`), so the position
of a descriptor is the number of those up to it (`RankIs`), and the header of a type stands
over the places that follow the counts of the headers before it (`Place`). From there it goes
in three steps. If nothing is lacking, everything is in its place (`NothingMoved`); if
something is and no bay is silent, the first bay type that is shifted has a bay with its
number under an earlier, foreign header (`ShiftShows`); and where indexes count the overall
elements too, entries whose index keeps its distance to the position are all of one type
(`SteadyIndexOneType`). The page is then a run of cursors, each line a header or a line of the
p-th descriptor under one (`PageIsARun`), and the parser stays in step with it, whatever line
is garbled or lost (`Tracks`, `LineTracks`); up to the first garbled line its blocks are also
complete (`Complete`). So every read shows of the page what `Showing` says, and a map built
from it is `Safe` (`MapsAreSafe`). The inductive invariant, `WrongBayInv`, says so of the map
in the cache and that the last command took its element from that map.

Each proof has one lemma per action and a step per conjunct the action can disturb. The
liveness properties, and whatever needs ENABLED, stay with TLC: they are outside the
prover's reach. Every invariant that a run expects to hold is the property of a theorem.

## 6. Not modelled, and the plan

Not modelled, with the reason:

* The browser UI (`frontend/src`): rendering, and one ordering hazard (responses applied as
  they arrive) that the next refresh corrects.
* Deployment scripts (`docker-healthcheck.py`, `fix-custom-app-metadata.py`, the
  Dockerfile): one-shot, no state between runs.
* Parsers whose output only fills fields (configuration and join texts, disk inquiry
  pages, model classes), the webhook body, the helper's framing, configuration and argument
  checks, wording of errors: sequential text processing, well served by its unit tests. The one
  parser whose errors reach an LED is in `SlotMap`.
* `poll_system_info()` and the error flags of a failed poll: they fill the diagnostics
  page and nothing reads them back.
* `classify()` and the rules that rank a bay's health: a table without state.
* Hashes, signatures and cookie ages of `auth.py`; the helper's peer check and socket set-up.
* Durability below the rename (no fsync), wall-clock jumps, and the memory model of
  CPython below one attribute access.

What is left, in this order:

1. An abstract specification of LED ownership that `Ident` implements, as a refinement
   mapping, and its step simulation as a theorem.
2. The choice between the sysfs and the SES locate writer, and the helper's requests as a
   module of their own.
