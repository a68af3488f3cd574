--------------------------- MODULE EnclosureLock ---------------------------
(***************************************************************************)
(* enclosure/access.py: the flock that threads of the web process and of   *)
(* the helper take around enclosure traffic, and the two sections it is    *)
(* there for: an IDENT command with its settle poll (locate.py, the nested *)
(* section of ses.set_ident included) and a sweep of all slots (sysfs.py). *)
(*                                                                         *)
(* A thread that cannot open the lock file, or does not get the lock for   *)
(* 30 s, goes on without it.                                               *)
(***************************************************************************)
EXTENDS Integers, FiniteSets

CONSTANTS
  Writers, Sweepers,
  Helpers,   \* the threads that run in the helper, the others in the web process
  Slots,
  None,
  MaxCrashes \* bound: process deaths in one behaviour

Threads == Writers \cup Sweepers

ASSUME ConstantsAssumption ==
  /\ Writers \cap Sweepers = {} /\ Helpers \subseteq Threads
  /\ None \notin Threads \cup Slots
  /\ MaxCrashes \in Nat

VARIABLES
  owner,    \* the thread whose descriptor holds the flock
  depth,    \* _depth.value of a thread
  pc,       \* where a thread is
  bay,      \* the bay a writer commands
  seen,     \* the slots a sweep has read
  inflight, \* commands the processor has and the attribute does not show
  orphans,  \* history: those not, or no longer, covered by their writer's outer section
  crashes   \* history: process deaths so far

lock_vars == <<owner, depth>>
hw_vars   == <<inflight, orphans>>
vars == <<lock_vars, pc, bay, seen, hw_vars, crashes>>

Steps == {"idle", "wait", "section", "nested_wait", "command", "nested_exit",
          "settle", "exit"}

TypeOK ==
  /\ owner \in Threads \cup {None}
  /\ depth \in [Threads -> 0..2]
  /\ pc \in [Threads -> Steps]
  /\ bay \in [Writers -> Slots \cup {None}]
  /\ seen \in [Sweepers -> SUBSET Slots]
  /\ inflight \subseteq Writers \X Slots /\ orphans \subseteq inflight
  /\ crashes \in 0..MaxCrashes

Init ==
  /\ owner = None
  /\ depth = [t \in Threads |-> 0]
  /\ pc = [t \in Threads |-> "idle"]
  /\ bay = [w \in Writers |-> None]
  /\ seen = [r \in Sweepers |-> {}]
  /\ inflight = {} /\ orphans = {}
  /\ crashes = 0

Goes(t, step) == pc' = [pc EXCEPT ![t] = step]

-----------------------------------------------------------------------------
(***************************************************************************)
(* Fault variants, for the mutants.                                        *)
(***************************************************************************)

\* A nested section that releases what the outer one acquired.
ReleasesAny(t) == owner = t

\* A thread that waits for the lock however long it takes.
WaitsForEver(t, step) == FALSE

\* A depth that the exit of the outer section leaves behind.
DepthLeft(t) == depth[t]

\* A depth that the exit of a section without a lock file counts down as well.
DepthUnguarded(t) == depth[t] - 1

-----------------------------------------------------------------------------
(***************************************************************************)
(* enclosure_access().                                                     *)
(***************************************************************************)

\* flock(LOCK_EX | LOCK_NB) succeeds.
Free(t) == owner = None

\* The thread gets the lock and enters the section that follows.
Acquires(t, step) ==
  /\ Free(t)
  /\ owner' = t
  /\ depth' = [depth EXCEPT ![t] = 1]
  /\ Goes(t, step)

\* The deadline has passed and somebody still holds the lock.
TimesOut(t, step) ==
  /\ owner # None
  /\ depth' = [depth EXCEPT ![t] = 1]
  /\ owner' = owner
  /\ Goes(t, step)

\* Of the sections a thread has entered, the exit of the outermost gives back the
\* lock, if that one acquired it.
Releases(t) == owner = t /\ depth[t] = 1

Released(t) == IF Releases(t) THEN None ELSE owner

LeftDepth(t) == IF depth[t] > 0 THEN depth[t] - 1 ELSE 0

Leaves(t) ==
  /\ owner' = Released(t)
  /\ depth' = [depth EXCEPT ![t] = LeftDepth(t)]

\* A writer that does not hold the lock any more orphans its command.
Abandons(ts) == {c \in inflight : c[1] \in ts}

-----------------------------------------------------------------------------
(***************************************************************************)
(* A section: an IDENT write or a sweep.                                   *)
(***************************************************************************)

\* The lock file is opened, or cannot be: then the section runs at depth 0.
Enter(t) ==
  /\ pc[t] = "idle"
  /\ Goes(t, "wait") \/ Goes(t, "section")
  /\ IF t \in Writers THEN \E s \in Slots : bay' = [bay EXCEPT ![t] = s]
     ELSE UNCHANGED bay
  /\ UNCHANGED <<lock_vars, seen, hw_vars, crashes>>

Acquire(t) ==
  /\ pc[t] = "wait" /\ Acquires(t, "section")
  /\ UNCHANGED <<bay, seen, hw_vars, crashes>>

GoUnsynchronised(t) ==
  /\ pc[t] = "wait" /\ TimesOut(t, "section")
  /\ UNCHANGED <<bay, seen, hw_vars, crashes>>

\* set_ident() enters its own section: one more level, or the file is tried again.
Nest(w) ==
  /\ pc[w] = "section"
  /\ \/ /\ depth[w] > 0
        /\ depth' = [depth EXCEPT ![w] = @ + 1]
        /\ Goes(w, "command")
     \/ /\ depth[w] = 0
        /\ Goes(w, "nested_wait") \/ Goes(w, "command")
        /\ UNCHANGED depth
  /\ UNCHANGED <<owner, bay, seen, hw_vars, crashes>>

NestAcquire(w) ==
  /\ pc[w] = "nested_wait" /\ Acquires(w, "command")
  /\ UNCHANGED <<bay, seen, hw_vars, crashes>>

NestGoUnsynchronised(w) ==
  /\ pc[w] = "nested_wait" /\ TimesOut(w, "command")
  /\ UNCHANGED <<bay, seen, hw_vars, crashes>>

\* sg_ses hands the command to the processor.
Command(w) ==
  /\ pc[w] = "command"
  /\ Goes(w, "nested_exit")
  /\ inflight' = inflight \cup {<<w, bay[w]>>}
  /\ orphans' = IF owner = w /\ depth[w] = 2 THEN orphans \ {<<w, bay[w]>>}
                ELSE orphans \cup {<<w, bay[w]>>}
  /\ UNCHANGED <<lock_vars, bay, seen, crashes>>

\* set_ident() leaves its section and the settle poll follows.
NestExit(w) ==
  /\ pc[w] = "nested_exit"
  /\ Leaves(w)
  /\ Goes(w, "settle")
  /\ UNCHANGED <<bay, seen, hw_vars, crashes>>

\* sg_ses fails or is killed at its timeout, its command under way or not; both
\* sections are left by the exception.
CommandFails(w) ==
  /\ pc[w] = "command"
  /\ owner' = IF owner = w THEN None ELSE owner
  /\ depth' = [depth EXCEPT ![w] = 0]
  /\ Goes(w, "idle")
  /\ bay' = [bay EXCEPT ![w] = None]
  /\ \E late \in {{}, {<<w, bay[w]>>}} :
       /\ inflight' = inflight \cup late
       /\ orphans' = orphans \cup Abandons({w}) \cup late
  /\ UNCHANGED <<seen, crashes>>

\* The poll reads the requested state, or its two seconds are over before that.
Settled(w) ==
  /\ pc[w] = "settle"
  /\ Goes(w, "exit")
  /\ UNCHANGED <<lock_vars, bay, seen, hw_vars, crashes>>

\* read_slots(): the slots one after the other.
ReadSlot(r, s) ==
  /\ pc[r] = "section" /\ s \notin seen[r]
  /\ seen' = [seen EXCEPT ![r] = @ \cup {s}]
  /\ IF seen'[r] = Slots THEN Goes(r, "exit") ELSE UNCHANGED pc
  /\ UNCHANGED <<lock_vars, bay, hw_vars, crashes>>

Exit(t) ==
  /\ pc[t] = "exit"
  /\ Leaves(t)
  /\ Goes(t, "idle")
  /\ IF t \in Writers
     THEN /\ bay' = [bay EXCEPT ![t] = None]
          /\ orphans' = orphans \cup Abandons({t})
          /\ UNCHANGED seen
     ELSE seen' = [seen EXCEPT ![t] = {}] /\ UNCHANGED <<bay, orphans>>
  /\ UNCHANGED <<inflight, crashes>>

-----------------------------------------------------------------------------
(***************************************************************************)
(* The processor, and the death of a process.                              *)
(***************************************************************************)

\* The attribute shows a command, 0.2 s after it as a rule.
TakesEffect(c) ==
  /\ c \in inflight
  /\ inflight' = inflight \ {c} /\ orphans' = orphans \ {c}
  /\ UNCHANGED <<lock_vars, pc, bay, seen, crashes>>

\* The kernel closes the descriptors of a dead process, and frees the lock.
Crash(dead) ==
  /\ crashes < MaxCrashes /\ crashes' = crashes + 1
  /\ owner' = IF owner \in dead THEN None ELSE owner
  /\ depth' = [t \in Threads |-> IF t \in dead THEN 0 ELSE depth[t]]
  /\ pc' = [t \in Threads |-> IF t \in dead THEN "idle" ELSE pc[t]]
  /\ bay' = [w \in Writers |-> IF w \in dead THEN None ELSE bay[w]]
  /\ seen' = [r \in Sweepers |-> IF r \in dead THEN {} ELSE seen[r]]
  /\ orphans' = orphans \cup Abandons(dead)
  /\ UNCHANGED inflight

-----------------------------------------------------------------------------

Section(t) == Enter(t) \/ Acquire(t) \/ GoUnsynchronised(t) \/ Exit(t)

Write(w) ==
  \/ Nest(w) \/ NestAcquire(w) \/ NestGoUnsynchronised(w)
  \/ Command(w) \/ NestExit(w) \/ CommandFails(w) \/ Settled(w)

Sweep(r) == \E s \in Slots : ReadSlot(r, s)

Next ==
  \/ \E t \in Threads : Section(t)
  \/ \E w \in Writers : Write(w)
  \/ \E r \in Sweepers : Sweep(r)
  \/ \E c \in inflight : TakesEffect(c)
  \/ Crash(Helpers) \/ Crash(Threads \ Helpers)

Spec == Init /\ [][Next]_vars

\* Every thread that is in a section goes on; sg_ses and the waits are bounded.
Fairness ==
  /\ \A t \in Threads : WF_vars(pc[t] # "idle" /\ Section(t))
  /\ \A w \in Writers : WF_vars(Write(w))
  /\ \A r \in Sweepers : WF_vars(Sweep(r))

FairSpec == Spec /\ Fairness

-----------------------------------------------------------------------------
(***************************************************************************)
(* Properties.                                                             *)
(***************************************************************************)

\* The lock and the depth are those of the sections entered, whichever way they
\* were left: a thread that is outside holds nothing and nests in nothing.
NothingHeldOutside ==
  \A t \in Threads : pc[t] \in {"idle", "wait"} => owner # t /\ depth[t] = 0

\* The lock file shared by the threads of two processes, with its time-outs and crashes,
\* is the exclusive shelf for every section that got the lock: nobody takes the
\* enclosure while a command of its holder has not settled.  The commands of sections
\* that run without the lock, or that their writer gave up on, are outside the promise
\* (access.py:26-28).
Shelf == INSTANCE ExclusiveShelf
           WITH Clients <- Threads, Commands <- Writers \X Slots, Nobody <- None,
                holder <- owner, pending <- inflight \ orphans

ImplementsExclusiveShelf == Shelf!ShelfSpec

\* No thread is kept waiting for ever by what the others do with the lock.
EveryoneGetsThrough ==
  \A t \in Threads : pc[t] # "idle" ~> pc[t] = "idle"

=============================================================================
