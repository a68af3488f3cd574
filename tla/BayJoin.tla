------------------------------ MODULE BayJoin ------------------------------
(***************************************************************************)
(* Which drive's data a bay shows: the caches of services/state.py, all    *)
(* but one keyed by the kernel's transient block names, joined by          *)
(* _compose_bays() with a live read of who holds the name now.             *)
(*                                                                         *)
(* Only the origin of data matters here, so a record, a ZFS status or a    *)
(* temperature is represented by the drive it describes.  Whether two      *)
(* descriptions can be told apart depends on which identifiers each has.   *)
(***************************************************************************)
EXTENDS Integers, FiniteSets

CONSTANTS
  Drives, Bays, Names,
  None,       \* no drive, no name
  Unreadable, \* the live read of a drive's identity failed
  Sysfs,      \* by drive, the identifiers its attributes under /sys declare
  DiskQuery,  \* by drive, the identifiers its record of disk.query has
  MaxSwaps    \* bound: insertions in one behaviour

Identifiers == {"wwn", "serial"}

ASSUME ConstantsAssumption ==
  /\ Sysfs \in [Drives -> SUBSET Identifiers]
  /\ DiskQuery \in [Drives -> SUBSET Identifiers]
  /\ None \notin Drives \cup Names /\ Unreadable \notin Drives \cup {None}
  /\ MaxSwaps \in Nat
  /\ Bays # {}

VARIABLES
  at,        \* the drive in a bay
  name,      \* the block name of a drive while it is attached
  former,    \* the name under which a pool still lists a drive that left
  swaps,     \* insertions so far
  slots,     \* cache: the block name of a bay
  zfs,       \* cache: by name, from pool.query
  remote,    \* cache: by name, from disk.query
  smart,     \* cache: by name, from disk.temperatures
  truenas,   \* poll_truenas: "idle", "pools" read, or "half" of it stored
  pools,     \* its answer to pool.query
  disks,     \* its answer to disk.query
  straddled, \* history: names re-assigned between the two
  mixed,     \* history: names whose stored zfs and remote straddle a re-assignment
  recalled,  \* history: names whose stored zfs is of a drive that had left
  heat,      \* poll_smart: "idle" or "asked"
  temps,     \* its answer to disk.temperatures
  reader,    \* a composing thread: "idle", "live", "remote" or "done"
  device,    \* its bay's block name
  local,     \* whose identity it read under that name
  known,     \* the identifiers it got
  holder,    \* history: whose identity it would have read
  record,    \* remote record, ZFS status and SMART data it found there
  pool,
  heated,
  overtaken  \* history: a poll stored something under the reader

hw_vars    == <<at, name, former, swaps>>
nas_vars   == <<zfs, remote, truenas, pools, disks, straddled, mixed, recalled>>
smart_vars == <<smart, heat, temps>>
read_vars  == <<reader, device, local, known, holder, record, pool, heated, overtaken>>
vars == <<hw_vars, slots, nas_vars, smart_vars, read_vars>>

Index   == [Names -> Drives \cup {None}]
NoIndex == [n \in Names |-> None]

\* An answer to pool.query, by name: the member that has it as its disk, and the removed
\* ones that have it as their unavail_disk.
Pools   == [disk : Index, unavail : [Names -> SUBSET Drives]]
NoPools == [disk |-> NoIndex, unavail |-> [n \in Names |-> {}]]

\* Drives in bays, and no others, have block names, and no two have the same.
Attached ==
  /\ \A d, e \in Drives : name[d] = name[e] /\ name[d] # None => d = e
  /\ \A d \in Drives : name[d] # None <=> \E b \in Bays : at[b] = d
  /\ \A b, c \in Bays : at[b] = at[c] /\ at[b] # None => b = c

\* Only a drive that left is listed under a former name.
FormerLeft == \A d \in Drives : former[d] # None => name[d] = None

TypeOK ==
  /\ at \in [Bays -> Drives \cup {None}]
  /\ name \in [Drives -> Names \cup {None}]
  /\ former \in [Drives -> Names \cup {None}]
  /\ Attached /\ FormerLeft
  /\ swaps \in 0..MaxSwaps
  /\ slots \in [Bays -> Names \cup {None}]
  /\ zfs \in Index /\ remote \in Index /\ smart \in Index
  /\ truenas \in {"idle", "pools", "half"}
  /\ pools \in Pools /\ disks \in Index /\ temps \in Index
  /\ straddled \subseteq Names /\ mixed \subseteq Names /\ recalled \subseteq Names
  /\ heat \in {"idle", "asked"}
  /\ reader \in {"idle", "live", "remote", "done"}
  /\ device \in Names \cup {None}
  /\ local \in Drives \cup {None, Unreadable}
  /\ known \subseteq Identifiers
  /\ holder \in Drives \cup {None}
  /\ record \in Drives \cup {None}
  /\ pool \in Drives \cup {None}
  /\ heated \in Drives \cup {None}
  /\ overtaken \in BOOLEAN

\* Who holds a name: what the appliance, and sysfs, answer when asked now.
Holder(n) ==
  IF \E d \in Drives : name[d] = n THEN CHOOSE d \in Drives : name[d] = n ELSE None

Answer == [n \in Names |-> Holder(n)]

\* The members a pool still lists under the name they had.
Left(n) == {d \in Drives : former[d] = n}

ReaderIdle ==
  /\ reader = "idle" /\ device = None /\ local = None /\ known = {} /\ holder = None
  /\ record = None /\ pool = None /\ heated = None /\ overtaken = FALSE

\* The application starts on a shelf and pools as it finds them, with nothing cached.
Init ==
  /\ at \in [Bays -> Drives \cup {None}] /\ name \in [Drives -> Names \cup {None}]
  /\ former \in [Drives -> Names \cup {None}]
  /\ Attached /\ FormerLeft
  /\ swaps = 0
  /\ slots = [b \in Bays |-> None]
  /\ zfs = NoIndex /\ remote = NoIndex /\ smart = NoIndex
  /\ truenas = "idle" /\ pools = NoPools /\ disks = NoIndex
  /\ straddled = {} /\ mixed = {} /\ recalled = {}
  /\ heat = "idle" /\ temps = NoIndex
  /\ ReaderIdle

-----------------------------------------------------------------------------
(***************************************************************************)
(* Fault variants, for the mutants.                                        *)
(***************************************************************************)

\* A join that compares the WWNs and does not fall back on the serials.
ConflictByWwn(l, r) == l \in Drives /\ r \in Drives /\ l # r /\ "wwn" \in known \cap DiskQuery[r]

\* An unconfirmed occupant treated as a proven swap.
SwappedIfUnread == record # None /\ (local = Unreadable \/ local # record)

\* An entry that is made once and never replaced.
LeavesKept(n) == {IF zfs[n] = None THEN pools.disk[n] ELSE zfs[n]}

\* A lookup that takes an empty bay for one that cannot be read.
LookupFails(index) == IF device = None THEN Unreadable ELSE index[device]

-----------------------------------------------------------------------------
(***************************************************************************)
(* The shelf.                                                              *)
(***************************************************************************)

\* A drive is pulled: the kernel frees its block name, under which ZFS may remember it.
Remove(b) ==
  /\ at[b] # None
  /\ at' = [at EXCEPT ![b] = None]
  /\ name' = [name EXCEPT ![at[b]] = None]
  /\ former' \in {former, [former EXCEPT ![at[b]] = name[at[b]]]}
  /\ UNCHANGED <<swaps, slots, nas_vars, smart_vars, read_vars>>

\* A drive is inserted under any free name, one just freed included.  A member that comes
\* back is listed under its name again.
Insert(b, d, n) ==
  /\ at[b] = None /\ name[d] = None /\ Holder(n) = None
  /\ swaps < MaxSwaps /\ swaps' = swaps + 1
  /\ at' = [at EXCEPT ![b] = d]
  /\ name' = [name EXCEPT ![d] = n]
  /\ former' = [former EXCEPT ![d] = None]
  /\ straddled' = IF truenas = "pools" THEN straddled \cup {n} ELSE straddled
  /\ UNCHANGED <<slots, zfs, remote, truenas, pools, disks, mixed, recalled, smart_vars, read_vars>>

\* The pool lists it no longer: replaced, or detached.
Forget(d) ==
  /\ former[d] # None
  /\ former' = [former EXCEPT ![d] = None]
  /\ UNCHANGED <<at, name, swaps, slots, nas_vars, smart_vars, read_vars>>

-----------------------------------------------------------------------------
(***************************************************************************)
(* The polls.                                                              *)
(***************************************************************************)

\* poll_hardware(), by the loop or after an identify: the slot cache says which
\* name a bay has.
PollHardware ==
  /\ truenas # "half"
  /\ slots' = [b \in Bays |-> IF at[b] = None THEN None ELSE name[at[b]]]
  /\ UNCHANGED <<hw_vars, nas_vars, smart_vars, read_vars>>

\* One task makes the polls of the appliance, one after the other, each whenever
\* its interval has passed.
LoopIdle == truenas = "idle" /\ heat = "idle"

\* poll_truenas(): pools() answers, with the drives that are in a pool ...
PoolsAnswer ==
  /\ LoopIdle
  /\ truenas' = "pools"
  /\ \E disk \in [Names -> {Answer[n] : n \in Names} \cup {None}] :
       /\ \A n \in Names : disk[n] \in {Answer[n], None}
       /\ pools' = [disk |-> disk, unavail |-> [n \in Names |-> Left(n)]]
  /\ straddled' = {}
  /\ UNCHANGED <<hw_vars, slots, zfs, remote, disks, mixed, recalled, smart_vars, read_vars>>

\* _walk(): a leaf without a disk is entered under its unavail_disk.
Leaves(n) ==
  LET leaves == ({pools.disk[n]} \ {None}) \cup pools.unavail[n]
  IN  IF leaves = {} THEN {None} ELSE leaves

\* ... then disks() does, and the first of the two indexes is stored: of the leaves of a
\* name, the last one on the walk through pools and groups.
StoredPools == {index \in Index : \A n \in Names : index[n] \in Leaves(n)}

DisksAnswer ==
  /\ truenas = "pools"
  /\ truenas' = "half"
  /\ disks' = Answer
  /\ zfs' \in StoredPools
  /\ mixed' = straddled
  /\ recalled' = {n \in Names : zfs'[n] \in pools.unavail[n]}
  /\ pools' = NoPools /\ straddled' = {}
  /\ overtaken' = (overtaken \/ reader # "idle")
  /\ UNCHANGED <<hw_vars, slots, remote, smart_vars,
                 reader, device, local, known, holder, record, pool, heated>>

\* The second is stored.
DisksStored ==
  /\ truenas = "half"
  /\ truenas' = "idle"
  /\ remote' = disks
  /\ disks' = NoIndex
  /\ overtaken' = (overtaken \/ reader # "idle")
  /\ UNCHANGED <<hw_vars, slots, zfs, pools, straddled, mixed, recalled, smart_vars,
                 reader, device, local, known, holder, record, pool, heated>>

\* TrueNASError or OSError: both caches keep what they have.
TruenasFails ==
  /\ truenas = "pools"
  /\ truenas' = "idle"
  /\ pools' = NoPools /\ straddled' = {}
  /\ UNCHANGED <<hw_vars, slots, zfs, remote, disks, mixed, recalled, smart_vars, read_vars>>

\* poll_smart(): temperatures() answers ...
TempsAnswer ==
  /\ LoopIdle
  /\ heat' = "asked" /\ temps' = Answer
  /\ UNCHANGED <<hw_vars, slots, nas_vars, smart, read_vars>>

\* ... and so does temperature_alerts(), or the cache keeps what it has.
SmartStored ==
  /\ heat = "asked"
  /\ heat' = "idle" /\ temps' = NoIndex
  /\ smart' = temps
  /\ UNCHANGED <<hw_vars, slots, nas_vars, read_vars>>

SmartFails ==
  /\ heat = "asked"
  /\ heat' = "idle" /\ temps' = NoIndex
  /\ UNCHANGED <<hw_vars, slots, nas_vars, smart, read_vars>>

-----------------------------------------------------------------------------
(***************************************************************************)
(* _compose_bays(), one bay of it, in a thread.                            *)
(***************************************************************************)

\* disk_reader.read(device): whoever holds the name now, with the identifiers that could
\* be read, unless it will not say who it is.
ReadLocal ==
  /\ reader = "idle"
  /\ \E b \in Bays : device' = slots[b]
  /\ reader' = "live"
  /\ holder' = IF device' = None THEN None ELSE Holder(device')
  /\ local' \in {holder', IF holder' = None THEN None ELSE Unreadable}
  /\ known' \in SUBSET (IF local' \in Drives THEN Sysfs[local'] ELSE {})
  /\ overtaken' = (truenas = "half")
  /\ UNCHANGED <<hw_vars, slots, nas_vars, smart_vars, record, pool, heated>>

\* What an index holds for the device.
Lookup(index) == IF device = None THEN None ELSE index[device]

LookupRemote ==
  /\ reader = "live" /\ reader' = "remote"
  /\ record' = Lookup(remote)
  /\ UNCHANGED <<hw_vars, slots, nas_vars, smart_vars, device, local, known, holder, pool, heated, overtaken>>

\* The ZFS status and the SMART data, which no one poll stores both of.
LookupSignals ==
  /\ reader = "remote" /\ reader' = "done"
  /\ pool' = Lookup(zfs) /\ heated' = Lookup(smart)
  /\ UNCHANGED <<hw_vars, slots, nas_vars, smart_vars, device, local, known, holder, record, overtaken>>

\* _identity_conflict: both sides carry a WWN and they differ, or else both carry a serial
\* and those do.  The same identifier of two drives always differs, and that of one drive
\* is written alike on both sides.
Conflict(l, r) == l \in Drives /\ r \in Drives /\ l # r /\ known \cap DiskQuery[r] # {}

Identified == local # Unreadable
Swapped    == record # None /\ Conflict(local, record)

\* What the bay shows: whose identity fields, whose ZFS status, whose temperature.
ShownIdentity ==
  (IF Identified THEN {local} ELSE {})
    \cup (IF Identified /\ ~Swapped THEN {record} ELSE {})
ShownPool  == IF Swapped THEN None ELSE pool
ShownSmart == IF Swapped THEN None ELSE heated

ReaderEnds ==
  /\ reader = "done"
  /\ reader' = "idle" /\ device' = None /\ local' = None /\ known' = {} /\ holder' = None
  /\ record' = None /\ pool' = None /\ heated' = None /\ overtaken' = FALSE
  /\ UNCHANGED <<hw_vars, slots, nas_vars, smart_vars>>

-----------------------------------------------------------------------------

Shelf ==
  \/ \E b \in Bays : Remove(b) \/ \E d \in Drives, n \in Names : Insert(b, d, n)
  \/ \E d \in Drives : Forget(d)

Polls ==
  \/ PollHardware
  \/ PoolsAnswer \/ DisksAnswer \/ DisksStored \/ TruenasFails
  \/ TempsAnswer \/ SmartStored \/ SmartFails

Compose ==
  \/ ReadLocal
  \/ LookupRemote \/ LookupSignals
  \/ ReaderEnds

Next == Shelf \/ Polls \/ Compose

Spec == Init /\ [][Next]_vars

\* The loop reads the shelf again and again, and a thread that composes a bay comes to
\* its end.
Fairness == SF_vars(PollHardware) /\ WF_vars(LookupRemote \/ LookupSignals \/ ReaderEnds)

FairSpec == Spec /\ Fairness

-----------------------------------------------------------------------------
(***************************************************************************)
(* Properties.                                                             *)
(***************************************************************************)

\* A ZFS status is attributed to a drive it does not describe only if ZFS gave it for a
\* drive that had left and had this name, a drive was inserted between the two queries of
\* the poll that stored it, a poll stored its results while the bay was being composed, or
\* no record of the name has an identifier that was also read from the drive.
WrongPoolNeedsStraddle ==
  /\ reader = "done" /\ local \in Drives
  /\ ShownPool \in Drives /\ ShownPool # local
  => \/ device \in recalled \cup mixed
     \/ overtaken
     \/ record = None \/ known \cap DiskQuery[record] = {}

\* Alerting does not get quieter as the hardware gets worse (state.py:620-641): a ZFS
\* status given for the drive in the bay while it was there is withheld, whether or not
\* the drive will say who it is, only if a drive was inserted between the two queries or
\* the bay was overtaken by a poll.
SilenceNeedsStraddle ==
  reader = "done" /\ pool = holder /\ device \notin recalled
    => ShownPool = pool \/ device \in mixed \/ overtaken

\* The appliance keeps answering.
PollsSucceed ==
  /\ []<><<DisksStored>>_vars
  /\ []<><<SmartStored>>_vars

\* A swap is forgotten: once the shelf is left alone, and as long as the appliance's
\* polls keep succeeding, what a bay shows is in the end all of the drive that holds its
\* block name, whatever the order of the polls; only the status may be that of a member
\* ZFS still lists under the name.
JoinSettles ==
  PollsSucceed =>
    <>[](reader = "done" /\ Identified
           => /\ ShownIdentity \cup {ShownSmart} \subseteq {None, local}
              /\ ShownPool \in {None, local} \cup Left(device))

=============================================================================
