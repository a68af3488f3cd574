---------------------------- MODULE IdentProofs ----------------------------
(***************************************************************************)
(* Theorems about Ident, for every set of slots, enclosures and requests,  *)
(* every retry limit and every number of crashes.                          *)
(***************************************************************************)
EXTENDS Ident, TLAPS

(***************************************************************************)
(* The strengthening under which the properties of Ident are inductive.    *)
(***************************************************************************)

\* Whoever is past its read in identify() heads its enclosure's queue.
LockInv == \A p \in Procs : pc[p] \in {"writing", "verified"} => Holds(p)

\* Nothing runs while the process is down, and only the background task while it starts.
PhaseInv ==
  /\ op[Timer] = "off"
  /\ phase # "up" => \A r \in Reqs : pc[r] \in {"idle", "done"}
  /\ phase = "down" => pc[Timer] = "idle"

\* A command outlives only a request that was told it failed.
LateInv == \A c \in late : c[2] \in Reqs => fate[c[2]] # "none"

\* r's LED is the application's to account for.
Claimed(s) == led[s] \in Reqs /\ fate[led[s]] = "none"

\* Between its write and its publication nobody but p can have lit p's slot.
VerifiedInv ==
  \A p \in Procs : pc[p] = "verified" /\ Claimed(slot[p])
    => led[slot[p]] = p /\ op[p] # "off"

\* Attributed, in every phase: while the process is down the disk knows.
TrackedInv ==
  \A s \in Slots : Claimed(s) =>
    IF phase = "down" THEN disk[s] = led[s]
    ELSE records[s] = led[s] \/ Publishing(led[s], s)

\* What the file holds; reconcile() drops records before it saves.
DiskInv ==
  /\ phase = "up" /\ ~dirty => disk = records
  /\ phase = "starting" /\ ~dirty =>
       \A s \in Slots : records[s] # None => disk[s] = records[s]

\* What reconcile() knows about the slots it has yet to visit.
ReconcileInv ==
  phase = "starting" =>
    /\ \A s \in Slots : observed[s] = "dark" => ~Claimed(s)
    /\ \A s \in Slots : agenda[s] # None => records[s] = agenda[s]
    /\ pc[Timer] # "idle" => records[slot[Timer]] \in due

IInv ==
  /\ TypeOK
  /\ LockInv
  /\ PhaseInv
  /\ LateInv
  /\ VerifiedInv
  /\ TrackedInv
  /\ DiskInv
  /\ ReconcileInv

-----------------------------------------------------------------------------
(***************************************************************************)
(* Entering and leaving identify().                                        *)
(***************************************************************************)

\* Joining an enclosure's queue touches only the caller's own entries and
\* leaves the variables of the tasks typed.
LEMMA CallFrame ==
  ASSUME TypeOK, NEW p \in Procs, NEW s \in Slots, NEW o \in Ops, Call(p, s, o)
  PROVE  /\ queue' \in [Encl -> Seq(Procs)]
         /\ pc' \in [Procs -> {"idle", "queued", "writing", "verified", "done"}]
         /\ slot' \in [Procs -> Slots]
         /\ op' \in [Procs -> Ops]
         /\ pc'[p] = "queued" /\ slot'[p] = s /\ op'[p] = o
         /\ \A q \in Procs : q # p =>
              pc'[q] = pc[q] /\ slot'[q] = slot[q] /\ op'[q] = op[q]
<1>1. queue[EnclOf[s]] \in Seq(Procs)
  BY ConstantsAssumption DEF TypeOK
<1>2. Append(queue[EnclOf[s]], p) \in Seq(Procs)
  BY <1>1
<1>3. QED
  BY <1>2 DEF TypeOK, Call

\* Leaving identify() touches only the caller's own entries.
LEMMA ReturnFrame ==
  ASSUME TypeOK, NEW p \in Procs, Return(p), Holds(p)
  PROVE  /\ queue' \in [Encl -> Seq(Procs)]
         /\ pc' \in [Procs -> {"idle", "queued", "writing", "verified", "done"}]
         /\ slot' = slot /\ op' = op
         /\ pc'[p] = IF p = Timer THEN "idle" ELSE "done"
         /\ \A q \in Procs : q # p => pc'[q] = pc[q]
<1>1. queue[EnclOf[slot[p]]] \in Seq(Procs) /\ queue[EnclOf[slot[p]]] # <<>>
  BY ConstantsAssumption DEF TypeOK, Holds
<1>2. Tail(queue[EnclOf[slot[p]]]) \in Seq(Procs)
  BY <1>1
<1>3. QED
  BY <1>2 DEF TypeOK, Return

\* Joining a queue leaves its head where it was.
LEMMA CallLock ==
  ASSUME TypeOK, LockInv, NEW p \in Procs, NEW s \in Slots, NEW o \in Ops,
         Call(p, s, o)
  PROVE  LockInv'
<1>. SUFFICES ASSUME NEW q \in Procs, pc'[q] \in {"writing", "verified"}
              PROVE  Holds(q)'
  BY DEF LockInv
<1>1. q # p /\ pc[q] = pc'[q] /\ slot'[q] = slot[q]
  BY CallFrame
<1>2. Holds(q)
  BY <1>1 DEF LockInv
<1>3. EnclOf[slot[q]] \in Encl /\ EnclOf[s] \in Encl
  BY ConstantsAssumption DEF TypeOK
<1>4. queue[EnclOf[slot[q]]] \in Seq(Procs) /\ queue[EnclOf[s]] \in Seq(Procs)
  BY <1>3 DEF TypeOK
<1>5. CASE EnclOf[slot[q]] = EnclOf[s]
  <2>1. queue'[EnclOf[s]] = Append(queue[EnclOf[s]], p)
    BY <1>3 DEF Call, TypeOK
  <2>2. Append(queue[EnclOf[s]], p) # <<>>
        /\ Head(Append(queue[EnclOf[s]], p)) = Head(queue[EnclOf[s]])
    BY <1>2, <1>4, <1>5 DEF Holds
  <2>. QED
    BY <1>1, <1>2, <1>5, <2>1, <2>2 DEF Holds
<1>6. CASE EnclOf[slot[q]] # EnclOf[s]
  BY <1>1, <1>2, <1>3, <1>6 DEF Holds, Call, TypeOK
<1>. QED
  BY <1>5, <1>6

\* Leaving identify() keeps every other holder at the head of its queue.
LEMMA ReturnLock ==
  ASSUME TypeOK, LockInv, NEW p \in Procs, Holds(p), Return(p)
  PROVE  LockInv'
<1>. SUFFICES ASSUME NEW q \in Procs, pc'[q] \in {"writing", "verified"}
              PROVE  Holds(q)'
  BY DEF LockInv
<1>1. q # p /\ pc[q] = pc'[q] /\ slot'[q] = slot[q]
  BY ReturnFrame
<1>2. Holds(q)
  BY <1>1 DEF LockInv
<1>3. EnclOf[slot[q]] # EnclOf[slot[p]]
  BY <1>1, <1>2 DEF Holds
<1>. QED
  BY <1>1, <1>2, <1>3, ConstantsAssumption DEF Holds, Return, TypeOK

\* A task is inside identify() only while the process lives, and a user's
\* request only once it serves.
LEMMA TaskPhase ==
  ASSUME PhaseInv, NEW p \in Procs, pc[p] \notin {"idle", "done"}
  PROVE  /\ phase # "down"
         /\ p \in Reqs => phase = "up"
<1>1. CASE p \in Reqs
  BY <1>1 DEF PhaseInv
<1>2. CASE p = Timer
  BY <1>2, ConstantsAssumption DEF PhaseInv
<1>3. p \in Reqs \/ p = Timer
  BY DEF Procs
<1>. QED
  BY <1>1, <1>2, <1>3

\* The background task only ever switches off, so its command claims nothing.
LEMMA TimerCommand ==
  ASSUME PhaseInv
  PROVE  Command(Timer) = Dark /\ Dark \notin Reqs
BY ConstantsAssumption DEF PhaseInv, Command

\* A command lights the LED in its own request's name, or makes it dark.
LEMMA CommandOwn ==
  ASSUME TypeOK, PhaseInv, NEW p \in Procs
  PROVE  /\ Command(p) \in Reqs \cup {Dark}
         /\ Command(p) \in Reqs => Command(p) = p /\ op[p] # "off" /\ p \in Reqs
<1>1. CASE p = Timer
  BY <1>1, TimerCommand
<1>2. CASE p \in Reqs
  BY <1>2, ConstantsAssumption DEF Command
<1>3. p \in Reqs \/ p = Timer
  BY DEF Procs
<1>. QED
  BY <1>1, <1>2, <1>3

\* However identify() fails, and whatever the caller then does with its own
\* bookkeeping, the lock, the commands under way and the verified writes of the
\* other tasks are as they should be.
LEMMA RaisesKeeps ==
  ASSUME IInv, NEW p \in Procs, Raises(p),
         led' = led, phase' = phase, fate' \in [Reqs -> Fates],
         \A r \in Reqs : fate[r] # "none" => fate'[r] # "none",
         p \in Reqs => fate'[p] # "none"
  PROVE  /\ late' \subseteq Slots \X (Reqs \cup {Dark})
         /\ queue' \in [Encl -> Seq(Procs)]
         /\ pc' \in [Procs -> {"idle", "queued", "writing", "verified", "done"}]
         /\ slot' = slot /\ op' = op
         /\ pc[p] \in {"queued", "writing"}
         /\ pc'[p] = IF p = Timer THEN "idle" ELSE "done"
         /\ \A q \in Procs : q # p => pc'[q] = pc[q]
         /\ \A s \in Slots : Claimed(s)' => Claimed(s)
         /\ LockInv' /\ PhaseInv' /\ LateInv' /\ VerifiedInv'
<1>1. pc[p] \in {"queued", "writing"} /\ Holds(p) /\ Return(p)
  BY DEF Raises, IInv, LockInv
<1>2. late' = late \/ late' = late \cup {<<slot[p], Command(p)>>}
  BY DEF Raises
<1>3. /\ queue' \in [Encl -> Seq(Procs)]
      /\ pc' \in [Procs -> {"idle", "queued", "writing", "verified", "done"}]
      /\ slot' = slot /\ op' = op
      /\ pc'[p] = IF p = Timer THEN "idle" ELSE "done"
      /\ \A q \in Procs : q # p => pc'[q] = pc[q]
  BY <1>1, ReturnFrame DEF IInv
<1>4. Command(p) \in Reqs \cup {Dark} /\ (Command(p) \in Reqs => Command(p) = p)
  BY CommandOwn DEF IInv
<1>5. late' \subseteq Slots \X (Reqs \cup {Dark})
  BY <1>2, <1>4 DEF IInv, TypeOK
<1>6. LockInv'
  BY <1>1, ReturnLock DEF IInv
<1>7. PhaseInv'
  BY <1>3, ConstantsAssumption DEF IInv, PhaseInv, Procs
<1>8. LateInv'
  <2>. SUFFICES ASSUME NEW c \in late', c[2] \in Reqs
                PROVE  fate'[c[2]] # "none"
    BY DEF LateInv
  <2>1. CASE c \in late
    BY <2>1 DEF IInv, LateInv
  <2>2. CASE c = <<slot[p], Command(p)>>
    BY <2>2, <1>4
  <2>. QED
    BY <1>2, <2>1, <2>2
<1>9. \A s \in Slots : Claimed(s)' => Claimed(s)
  BY DEF Claimed
<1>10. VerifiedInv'
  <2>. SUFFICES ASSUME NEW q \in Procs, pc'[q] = "verified", Claimed(slot[q])'
                PROVE  led'[slot'[q]] = q /\ op'[q] # "off"
    BY <1>3 DEF VerifiedInv
  <2>1. q # p /\ pc[q] = "verified"
    BY <1>3
  <2>2. Claimed(slot[q])
    BY <1>3, <1>9 DEF IInv, TypeOK, Claimed
  <2>. QED
    BY <1>3, <2>1, <2>2 DEF IInv, VerifiedInv
<1>. QED
  BY <1>1, <1>3, <1>5, <1>6, <1>7, <1>8, <1>9, <1>10

-----------------------------------------------------------------------------
(***************************************************************************)
(* Every step preserves the invariant: one lemma per action.               *)
(***************************************************************************)

\* A request arrives.
LEMMA SubmitStep ==
  ASSUME IInv, NEW r \in Reqs, Submit(r)
  PROVE  IInv'
<1>. USE DEF IInv, hardware, store, memory, sweep
<1>1. TypeOK'
  <2>1. PICK s \in Slots, o \in Ops : Call(r, s, o)
    BY DEF Submit
  <2>2. r \in Procs
    BY DEF Procs
  <2>. QED
    BY <2>1, <2>2, CallFrame DEF Submit, TypeOK
<1>2. LockInv'
  BY CallLock DEF Submit, Procs
<1>3. PhaseInv'
  BY ConstantsAssumption DEF Submit, Call, TypeOK, PhaseInv, Procs
<1>4. LateInv'
  BY DEF Submit, LateInv
<1>5. VerifiedInv'
  BY DEF Submit, Call, TypeOK, VerifiedInv, Claimed, Procs
<1>6. TrackedInv'
  BY DEF Submit, Call, TypeOK, TrackedInv, Claimed, Publishing, Procs
<1>7. DiskInv'
  BY DEF Submit, DiskInv
<1>8. ReconcileInv'
  BY DEF Submit, ReconcileInv
<1>. QED
  BY <1>1, <1>2, <1>3, <1>4, <1>5, <1>6, <1>7, <1>8

\* A task holds the lock and has read the LED.
LEMMA ReadStep ==
  ASSUME IInv, NEW p \in Procs, ReadPrevious(p)
  PROVE  IInv'
<1>. USE DEF IInv, ReadPrevious, hardware, store, memory, sweep
<1>1. TypeOK'
  BY DEF TypeOK, Procs, Ops, Lamp, Fates, NoRecords
<1>2. LockInv'
  BY DEF TypeOK, LockInv, Holds, Procs
<1>3. PhaseInv'
  BY DEF TypeOK, PhaseInv, Procs
<1>4. LateInv'
  BY DEF TypeOK, LateInv
<1>5. VerifiedInv'
  BY DEF TypeOK, VerifiedInv, Claimed
<1>6. TrackedInv'
  BY DEF TypeOK, TrackedInv, Claimed, Publishing
<1>7. DiskInv'
  BY DEF TypeOK, DiskInv, NoRecords
<1>8. ReconcileInv'
  BY DEF TypeOK, ReconcileInv, Claimed, NoRecords
<1>. QED
  BY <1>1, <1>2, <1>3, <1>4, <1>5, <1>6, <1>7, <1>8

\* A write is verified.  Nobody else's command can be between its own write and
\* its publication: p heads the queue.
LEMMA WriteStep ==
  ASSUME IInv, NEW p \in Procs, WriteVerified(p)
  PROVE  IInv'
<1>. USE DEF WriteVerified, store, memory, sweep
<1>1. /\ pc' \in [Procs -> {"idle", "queued", "writing", "verified", "done"}]
      /\ pc[p] = "writing" /\ pc'[p] = "verified"
      /\ \A q \in Procs : q # p => pc'[q] = pc[q]
      /\ slot' = slot /\ op' = op /\ queue' = queue
      /\ slot[p] \in Slots /\ led'[slot[p]] = Command(p)
      /\ \A s \in Slots : s # slot[p] => led'[s] = led[s]
  BY DEF IInv, TypeOK
<1>2. /\ Command(p) \in Reqs \cup {Dark}
      /\ Command(p) \in Reqs => Command(p) = p /\ op[p] # "off" /\ p \in Reqs
  BY CommandOwn DEF IInv
<1>3. Holds(p)
  BY <1>1 DEF IInv, LockInv
<1>4. phase # "down" /\ (p \in Reqs => phase = "up")
  BY <1>1, TaskPhase DEF IInv
<1>5. TypeOK'
  BY <1>1, <1>2 DEF IInv, TypeOK, Lamp
<1>6. LockInv'
  BY <1>1, <1>3 DEF IInv, LockInv, Holds
<1>7. PhaseInv'
  BY <1>1, <1>4 DEF IInv, PhaseInv
<1>8. LateInv'
  BY DEF IInv, LateInv
<1>9. VerifiedInv'
  <2>. SUFFICES ASSUME NEW q \in Procs, pc'[q] = "verified", Claimed(slot[q])'
                PROVE  led'[slot[q]] = q /\ op[q] # "off"
    BY <1>1 DEF VerifiedInv
  <2>1. CASE q = p
    BY <2>1, <1>1, <1>2, ConstantsAssumption DEF Claimed
  <2>2. CASE q # p
    <3>1. pc[q] = "verified" /\ Holds(q)
      BY <2>2, <1>1 DEF IInv, LockInv
    <3>2. slot[q] # slot[p]
      BY <3>1, <1>3, <2>2 DEF Holds
    <3>3. slot[q] \in Slots
      BY DEF IInv, TypeOK
    <3>. QED
      BY <3>1, <3>2, <3>3, <1>1 DEF IInv, VerifiedInv, Claimed
  <2>. QED
    BY <2>1, <2>2
<1>10. TrackedInv'
  <2>. SUFFICES ASSUME NEW s \in Slots, Claimed(s)'
                PROVE  records[s] = led'[s] \/ Publishing(led[s], s)'
    BY <1>4 DEF TrackedInv
  <2>1. CASE s = slot[p]
    BY <2>1, <1>1, <1>2, ConstantsAssumption DEF Claimed, Publishing
  <2>2. CASE s # slot[p]
    <3>1. led'[s] = led[s] /\ Claimed(s)
      BY <2>2, <1>1 DEF Claimed
    <3>2. records[s] = led[s] \/ Publishing(led[s], s)
      BY <3>1, <1>4 DEF IInv, TrackedInv
    <3>3. led[s] \in Procs
      BY <3>1 DEF Claimed, Procs
    <3>. QED
      BY <3>1, <3>2, <3>3, <1>1 DEF Publishing
  <2>. QED
    BY <2>1, <2>2
<1>11. DiskInv'
  BY DEF IInv, DiskInv
<1>12. ReconcileInv'
  <2>. SUFFICES ASSUME phase = "starting"
                PROVE  ReconcileInv'
    BY DEF ReconcileInv
  <2>1. p = Timer /\ Command(p) = Dark /\ Dark \notin Reqs
    BY <1>4, TimerCommand DEF IInv, Procs
  <2>. QED
    BY <2>1, <1>1 DEF IInv, ReconcileInv, Claimed
<1>. QED
  BY <1>5, <1>6, <1>7, <1>8, <1>9, <1>10, <1>11, <1>12 DEF IInv

\* A verified result is published: the record becomes what the LED shows.
LEMMA PublishStep ==
  ASSUME IInv, NEW p \in Procs, Publish(p)
  PROVE  IInv'
<1>. USE DEF Publish, hardware
<1>1. pc[p] = "verified" /\ Holds(p) /\ Return(p)
  BY DEF IInv, LockInv
<1>2. /\ queue' \in [Encl -> Seq(Procs)]
      /\ pc' \in [Procs -> {"idle", "queued", "writing", "verified", "done"}]
      /\ slot' = slot /\ op' = op
      /\ pc'[p] = IF p = Timer THEN "idle" ELSE "done"
      /\ \A q \in Procs : q # p => pc'[q] = pc[q]
  BY <1>1, ReturnFrame DEF IInv
<1>3. phase # "down" /\ (p \in Reqs => phase = "up")
  BY <1>1, TaskPhase DEF IInv
<1>4. slot[p] \in Slots /\ op[Timer] = "off" /\ (p \in Reqs \/ p = Timer)
  BY DEF IInv, TypeOK, PhaseInv, Procs
<1>5. /\ records' \in [Slots -> Reqs \cup {None}]
      /\ records'[slot[p]] = IF op[p] = "off" THEN None ELSE p
      /\ \A s \in Slots : s # slot[p] => records'[s] = records[s]
  BY <1>4 DEF IInv, TypeOK
<1>6. (disk' = records' /\ dirty' = FALSE) \/ (disk' = disk /\ dirty' = TRUE)
  BY DEF Save
<1>7. /\ agenda' \in [Slots -> Reqs \cup {None}]
      /\ tries' \in 0..(MaxAttempts - 1)
      /\ \A s \in Slots : agenda'[s] # None => agenda'[s] = agenda[s]
      /\ p = Timer => agenda'[slot[p]] = None
  <2>1. CASE p = Timer
    <3>1. agenda' = [agenda EXCEPT ![slot[p]] = None] /\ tries' = 0
      BY <2>1 DEF Visited
    <3>. QED
      BY <3>1, <1>4, ConstantsAssumption DEF IInv, TypeOK
  <2>2. CASE p # Timer
    BY <2>2 DEF IInv, TypeOK
  <2>. QED
    BY <2>1, <2>2
<1>8. /\ fails' \in [Slots -> 0..(MaxAttempts - 1)]
      /\ backoff' \subseteq Slots
  BY ConstantsAssumption DEF IInv, TypeOK
<1>9. disk' \in [Slots -> Reqs \cup {None}] /\ dirty' \in BOOLEAN
  BY <1>5, <1>6 DEF IInv, TypeOK
<1>10. TypeOK'
  BY <1>2, <1>5, <1>7, <1>8, <1>9 DEF IInv, TypeOK
<1>11. LockInv'
  BY <1>1, ReturnLock DEF IInv
<1>12. PhaseInv'
  BY <1>2, <1>3, <1>4, ConstantsAssumption DEF IInv, PhaseInv, Procs
<1>13. LateInv'
  BY DEF IInv, LateInv
<1>14. VerifiedInv'
  BY <1>2 DEF IInv, VerifiedInv, Claimed
<1>15. TrackedInv'
  <2>. SUFFICES ASSUME NEW s \in Slots, Claimed(s)
                PROVE  records'[s] = led[s] \/ Publishing(led[s], s)'
    BY <1>3 DEF TrackedInv, Claimed
  <2>1. CASE s = slot[p]
    <3>1. led[s] = p /\ op[p] # "off"
      BY <2>1, <1>1 DEF IInv, VerifiedInv
    <3>. QED
      BY <2>1, <3>1, <1>5
  <2>2. CASE s # slot[p]
    <3>1. records[s] = led[s] \/ Publishing(led[s], s)
      BY <1>3 DEF IInv, TrackedInv
    <3>2. led[s] \in Procs
      BY DEF Claimed, Procs
    <3>. QED
      BY <2>2, <3>1, <3>2, <1>2, <1>5 DEF Publishing
  <2>. QED
    BY <2>1, <2>2
<1>16. DiskInv'
  <2>1. CASE dirty' = TRUE
    BY <2>1 DEF DiskInv
  <2>2. CASE disk' = records'
    BY <2>2 DEF DiskInv
  <2>. QED
    BY <1>6, <2>1, <2>2
<1>17. ReconcileInv'
  <2>. SUFFICES ASSUME phase = "starting"
                PROVE  ReconcileInv'
    BY DEF ReconcileInv
  <2>1. p = Timer
    BY <1>3, <1>4
  <2>2. pc'[Timer] = "idle"
    BY <2>1, <1>2
  <2>3. \A s \in Slots : agenda'[s] # None => records'[s] = agenda'[s]
    BY <2>1, <1>5, <1>7 DEF IInv, ReconcileInv
  <2>. QED
    BY <2>2, <2>3 DEF IInv, ReconcileInv, Claimed
<1>. QED
  BY <1>10, <1>11, <1>12, <1>13, <1>14, <1>15, <1>16, <1>17 DEF IInv

\* A request is answered with an error.
LEMMA RequestFailsStep ==
  ASSUME IInv, NEW r \in Reqs, RequestFails(r)
  PROVE  IInv'
<1>. USE DEF RequestFails, store, memory, sweep
<1>1. r \in Procs /\ Raises(r) /\ r # Timer
  BY ConstantsAssumption DEF Procs
<1>2. /\ fate' \in [Reqs -> Fates] /\ fate'[r] = "failed"
      /\ \A q \in Reqs : fate[q] # "none" => fate'[q] # "none"
  BY DEF IInv, TypeOK, Fates
<1>3. /\ late' \subseteq Slots \X (Reqs \cup {Dark})
      /\ queue' \in [Encl -> Seq(Procs)]
      /\ pc' \in [Procs -> {"idle", "queued", "writing", "verified", "done"}]
      /\ slot' = slot /\ op' = op
      /\ pc[r] \in {"queued", "writing"}
      /\ \A q \in Procs : q # r => pc'[q] = pc[q]
      /\ \A s \in Slots : Claimed(s)' => Claimed(s)
      /\ LockInv' /\ PhaseInv' /\ LateInv' /\ VerifiedInv'
  BY <1>1, <1>2, RaisesKeeps
<1>4. phase = "up"
  BY <1>1, <1>3, TaskPhase DEF IInv
<1>5. TypeOK'
  BY <1>2, <1>3 DEF IInv, TypeOK
<1>6. TrackedInv'
  <2>. SUFFICES ASSUME NEW s \in Slots, Claimed(s)
                PROVE  records[s] = led[s] \/ Publishing(led[s], s)'
    BY <1>3, <1>4 DEF TrackedInv
  <2>1. records[s] = led[s] \/ Publishing(led[s], s)
    BY <1>4 DEF IInv, TrackedInv
  <2>2. led[s] \in Procs
    BY DEF Claimed, Procs
  <2>. QED
    BY <2>1, <2>2, <1>3 DEF Publishing
<1>7. DiskInv'
  BY DEF IInv, DiskInv
<1>8. ReconcileInv'
  BY <1>4 DEF ReconcileInv
<1>. QED
  BY <1>5, <1>6, <1>7, <1>8, <1>3 DEF IInv

\* The timer takes its snapshot.
LEMMA TickStep ==
  ASSUME IInv, TickStart
  PROVE  IInv'
<1>. USE DEF IInv, TickStart, hardware, store, memory, tasks
<1>1. TypeOK'
  BY DEF TypeOK, Procs, Ops, Lamp, Fates, NoRecords
<1>2. LockInv'
  BY DEF TypeOK, LockInv, Holds, Procs
<1>3. PhaseInv'
  BY DEF TypeOK, PhaseInv, Procs
<1>4. LateInv'
  BY DEF TypeOK, LateInv
<1>5. VerifiedInv'
  BY DEF TypeOK, VerifiedInv, Claimed
<1>6. TrackedInv'
  BY DEF TypeOK, TrackedInv, Claimed, Publishing
<1>7. DiskInv'
  BY DEF TypeOK, DiskInv, NoRecords
<1>8. ReconcileInv'
  BY DEF TypeOK, ReconcileInv, Claimed, NoRecords
<1>. QED
  BY <1>1, <1>2, <1>3, <1>4, <1>5, <1>6, <1>7, <1>8

\* The timer skips a slot in backoff.
LEMMA SkipStep ==
  ASSUME IInv, NEW s \in Slots, SkipInBackoff(s)
  PROVE  IInv'
<1>. USE DEF IInv, SkipInBackoff, Visited, hardware, store, memory, tasks
<1>1. TypeOK'
  BY DEF TypeOK, Procs, Ops, Lamp, Fates, NoRecords
<1>2. LockInv'
  BY DEF TypeOK, LockInv, Holds, Procs
<1>3. PhaseInv'
  BY DEF TypeOK, PhaseInv, Procs
<1>4. LateInv'
  BY DEF TypeOK, LateInv
<1>5. VerifiedInv'
  BY DEF TypeOK, VerifiedInv, Claimed
<1>6. TrackedInv'
  BY DEF TypeOK, TrackedInv, Claimed, Publishing
<1>7. DiskInv'
  BY DEF TypeOK, DiskInv, NoRecords
<1>8. ReconcileInv'
  BY DEF TypeOK, ReconcileInv, Claimed, NoRecords
<1>. QED
  BY <1>1, <1>2, <1>3, <1>4, <1>5, <1>6, <1>7, <1>8

\* The timer starts a clear.
LEMMA StartClearStep ==
  ASSUME IInv, NEW s \in Slots, StartClear(s)
  PROVE  IInv'
<1>. USE DEF StartClear, hardware, store, memory
<1>1. Timer \in Procs /\ Timer \notin Reqs /\ "off" \in Ops
  BY ConstantsAssumption DEF Procs, Ops
<1>2. Call(Timer, s, "off")
  OBVIOUS
<1>3. /\ queue' \in [Encl -> Seq(Procs)]
      /\ pc' \in [Procs -> {"idle", "queued", "writing", "verified", "done"}]
      /\ slot' \in [Procs -> Slots]
      /\ op' \in [Procs -> Ops]
      /\ pc'[Timer] = "queued" /\ slot'[Timer] = s /\ op'[Timer] = "off"
      /\ \A q \in Procs : q # Timer =>
           pc'[q] = pc[q] /\ slot'[q] = slot[q] /\ op'[q] = op[q]
  BY <1>1, <1>2, CallFrame DEF IInv
<1>4. TypeOK'
  BY <1>3 DEF IInv, TypeOK
<1>5. LockInv'
  BY <1>1, <1>2, CallLock DEF IInv
<1>6. PhaseInv'
  BY <1>1, <1>3 DEF IInv, PhaseInv, Procs
<1>7. LateInv'
  BY DEF IInv, LateInv
<1>8. VerifiedInv'
  BY <1>3 DEF IInv, VerifiedInv, Claimed
<1>9. TrackedInv'
  <2>. SUFFICES ASSUME NEW q \in Slots, Claimed(q)
                PROVE  records[q] = led[q] \/ Publishing(led[q], q)'
    BY DEF TrackedInv, Claimed
  <2>1. records[q] = led[q] \/ Publishing(led[q], q)
    BY DEF IInv, TrackedInv
  <2>2. led[q] \in Procs /\ led[q] # Timer
    BY <1>1 DEF Claimed, Procs
  <2>. QED
    BY <2>1, <2>2, <1>3 DEF Publishing
<1>10. DiskInv'
  BY DEF IInv, DiskInv
<1>11. ReconcileInv'
  BY DEF ReconcileInv
<1>. QED
  BY <1>4, <1>5, <1>6, <1>7, <1>8, <1>9, <1>10, <1>11 DEF IInv

\* The timer's clear fails: counted, and put off.
LEMMA ClearFailsStep ==
  ASSUME IInv, ClearFails
  PROVE  IInv'
<1>. USE DEF ClearFails, Visited, store
<1>1. Timer \in Procs /\ Timer \notin Reqs /\ Raises(Timer) /\ slot[Timer] \in Slots
  BY ConstantsAssumption DEF Procs, IInv, TypeOK
<1>2. /\ fate' \in [Reqs -> Fates]
      /\ \A q \in Reqs : fate[q] # "none" => fate'[q] # "none"
  BY DEF IInv, TypeOK, Fates
<1>3. /\ late' \subseteq Slots \X (Reqs \cup {Dark})
      /\ queue' \in [Encl -> Seq(Procs)]
      /\ pc' \in [Procs -> {"idle", "queued", "writing", "verified", "done"}]
      /\ slot' = slot /\ op' = op
      /\ pc[Timer] \in {"queued", "writing"} /\ pc'[Timer] = "idle"
      /\ \A q \in Procs : q # Timer => pc'[q] = pc[q]
      /\ \A s \in Slots : Claimed(s)' => Claimed(s)
      /\ LockInv' /\ PhaseInv' /\ LateInv' /\ VerifiedInv'
  BY <1>1, <1>2, RaisesKeeps
<1>4. /\ agenda' \in [Slots -> Reqs \cup {None}]
      /\ tries' \in 0..(MaxAttempts - 1)
      /\ NextAttempt \in 0..(MaxAttempts - 1)
      /\ fails' \in [Slots -> 0..(MaxAttempts - 1)]
      /\ backoff' \subseteq Slots
  BY <1>1, ConstantsAssumption DEF IInv, TypeOK, Exhausted, NextAttempt
<1>5. TypeOK'
  BY <1>2, <1>3, <1>4 DEF IInv, TypeOK
<1>6. TrackedInv'
  <2>. SUFFICES ASSUME NEW s \in Slots, Claimed(s)
                PROVE  records[s] = led[s] \/ Publishing(led[s], s)'
    BY <1>3 DEF TrackedInv
  <2>1. records[s] = led[s] \/ Publishing(led[s], s)
    BY DEF IInv, TrackedInv
  <2>2. led[s] \in Procs /\ led[s] # Timer
    BY <1>1 DEF Claimed, Procs
  <2>. QED
    BY <2>1, <2>2, <1>3 DEF Publishing
<1>7. DiskInv'
  BY DEF IInv, DiskInv
<1>8. ReconcileInv'
  BY DEF ReconcileInv
<1>. QED
  BY <1>5, <1>6, <1>7, <1>8, <1>3 DEF IInv

\* The timer gives up: the record goes, and fate says why.
LEMMA GiveUpStep ==
  ASSUME IInv, ClearGivesUp
  PROVE  IInv'
<1>. USE DEF ClearGivesUp, Visited
<1>1. Timer \in Procs /\ Timer \notin Reqs /\ Raises(Timer) /\ slot[Timer] \in Slots
  BY ConstantsAssumption DEF Procs, IInv, TypeOK
<1>2. /\ fate' \in [Reqs -> Fates]
      /\ \A q \in Reqs : fate[q] # "none" => fate'[q] # "none"
  BY DEF IInv, TypeOK, Fates
<1>3. /\ late' \subseteq Slots \X (Reqs \cup {Dark})
      /\ queue' \in [Encl -> Seq(Procs)]
      /\ pc' \in [Procs -> {"idle", "queued", "writing", "verified", "done"}]
      /\ slot' = slot /\ op' = op
      /\ pc[Timer] \in {"queued", "writing"} /\ pc'[Timer] = "idle"
      /\ \A q \in Procs : q # Timer => pc'[q] = pc[q]
      /\ \A s \in Slots : Claimed(s)' => Claimed(s)
      /\ LockInv' /\ PhaseInv' /\ LateInv' /\ VerifiedInv'
  BY <1>1, <1>2, RaisesKeeps
<1>4. /\ agenda' \in [Slots -> Reqs \cup {None}]
      /\ tries' \in 0..(MaxAttempts - 1)
      /\ fails' \in [Slots -> 0..(MaxAttempts - 1)]
      /\ backoff' \subseteq Slots
  BY <1>1, ConstantsAssumption DEF IInv, TypeOK
<1>5. records' \in [Slots -> Reqs \cup {None}]
  BY <1>1 DEF IInv, TypeOK
<1>6. /\ (disk' = records' /\ dirty' = FALSE) \/ (disk' = disk /\ dirty' = TRUE)
      /\ disk' \in [Slots -> Reqs \cup {None}] /\ dirty' \in BOOLEAN
  BY <1>5 DEF Save, IInv, TypeOK
<1>7. TypeOK'
  BY <1>2, <1>3, <1>4, <1>5, <1>6 DEF IInv, TypeOK
<1>8. TrackedInv'
  <2>. SUFFICES ASSUME NEW s \in Slots, Claimed(s)'
                PROVE  records'[s] = led[s] \/ Publishing(led[s], s)'
    BY DEF TrackedInv
  <2>1. Claimed(s) /\ (records[s] = led[s] \/ Publishing(led[s], s))
    BY <1>3 DEF IInv, TrackedInv
  <2>2. led[s] \in Procs /\ led[s] # Timer
    BY <2>1, <1>1 DEF Claimed, Procs
  <2>3. led[s] # records[slot[Timer]]
    BY <2>1 DEF Claimed
  <2>4. CASE Publishing(led[s], s)
    BY <2>2, <2>4, <1>3 DEF Publishing
  <2>5. CASE records[s] = led[s]
    BY <2>3, <2>5, <1>1 DEF IInv, TypeOK
  <2>. QED
    BY <2>1, <2>4, <2>5
<1>9. DiskInv'
  BY <1>6 DEF DiskInv
<1>10. ReconcileInv'
  BY DEF ReconcileInv
<1>. QED
  BY <1>7, <1>8, <1>9, <1>10, <1>3 DEF IInv

\* The timer's clear raises something else, and the pass is abandoned.
LEMMA OtherStep ==
  ASSUME IInv, ClearRaisesOther
  PROVE  IInv'
<1>. USE DEF ClearRaisesOther, store, memory
<1>1. Timer \in Procs /\ Timer \notin Reqs /\ Raises(Timer) /\ slot[Timer] \in Slots
  BY ConstantsAssumption DEF Procs, IInv, TypeOK
<1>2. /\ fate' \in [Reqs -> Fates]
      /\ \A q \in Reqs : fate[q] # "none" => fate'[q] # "none"
  BY DEF IInv, TypeOK, Fates
<1>3. /\ late' \subseteq Slots \X (Reqs \cup {Dark})
      /\ queue' \in [Encl -> Seq(Procs)]
      /\ pc' \in [Procs -> {"idle", "queued", "writing", "verified", "done"}]
      /\ slot' = slot /\ op' = op
      /\ pc[Timer] \in {"queued", "writing"} /\ pc'[Timer] = "idle"
      /\ \A q \in Procs : q # Timer => pc'[q] = pc[q]
      /\ \A s \in Slots : Claimed(s)' => Claimed(s)
      /\ LockInv' /\ PhaseInv' /\ LateInv' /\ VerifiedInv'
  BY <1>1, <1>2, RaisesKeeps
<1>4. /\ agenda' \in [Slots -> Reqs \cup {None}]
      /\ tries' \in 0..(MaxAttempts - 1)
  BY ConstantsAssumption DEF IInv, TypeOK, NoRecords
<1>5. TypeOK'
  BY <1>2, <1>3, <1>4 DEF IInv, TypeOK
<1>6. TrackedInv'
  <2>. SUFFICES ASSUME NEW s \in Slots, Claimed(s)
                PROVE  records[s] = led[s] \/ Publishing(led[s], s)'
    BY <1>3 DEF TrackedInv
  <2>1. records[s] = led[s] \/ Publishing(led[s], s)
    BY DEF IInv, TrackedInv
  <2>2. led[s] \in Procs /\ led[s] # Timer
    BY <1>1 DEF Claimed, Procs
  <2>. QED
    BY <2>1, <2>2, <1>3 DEF Publishing
<1>7. DiskInv'
  BY DEF IInv, DiskInv
<1>8. ReconcileInv'
  BY DEF ReconcileInv
<1>. QED
  BY <1>5, <1>6, <1>7, <1>8, <1>3 DEF IInv

\* The process boots on what the disk and the shelf hold.
LEMMA BootStep ==
  ASSUME IInv, Boot
  PROVE  IInv'
<1>. USE DEF Boot, hardware, store, tasks
<1>1. /\ observed' \in [Slots -> {"lit", "dark", "absent"}]
      /\ \A s \in Slots : observed'[s] = "dark" => led[s] = Dark
  BY DEF IInv, TypeOK
<1>2. \A p \in Procs : pc[p] \in {"idle", "done"}
  BY DEF IInv, PhaseInv, Procs
<1>3. pc[Timer] = "idle" /\ Dark \notin Reqs
  BY ConstantsAssumption DEF IInv, PhaseInv
<1>4. TypeOK'
  BY <1>1 DEF IInv, TypeOK
<1>5. LockInv'
  BY DEF IInv, LockInv, Holds
<1>6. PhaseInv'
  BY DEF IInv, PhaseInv
<1>7. LateInv'
  BY DEF IInv, LateInv
<1>8. VerifiedInv'
  BY <1>2 DEF VerifiedInv
<1>9. TrackedInv'
  BY DEF IInv, TrackedInv, Claimed
<1>10. DiskInv'
  BY DEF DiskInv
<1>11. ReconcileInv'
  BY <1>1, <1>3 DEF ReconcileInv, Claimed
<1>. QED
  BY <1>4, <1>5, <1>6, <1>7, <1>8, <1>9, <1>10, <1>11 DEF IInv

\* Start-up drops the record of a slot it found dark or did not find.
LEMMA DropStep ==
  ASSUME IInv, NEW s \in Slots, ReconcileDrops(s)
  PROVE  IInv'
<1>. USE DEF ReconcileDrops, hardware, store, tasks
<1>1. /\ records' \in [Slots -> Reqs \cup {None}]
      /\ records'[s] = None
      /\ \A q \in Slots : q # s => records'[q] = records[q]
      /\ agenda' \in [Slots -> Reqs \cup {None}]
      /\ \A q \in Slots : agenda'[q] # None => q # s /\ agenda'[q] = agenda[q]
  BY DEF IInv, TypeOK, Visited
<1>2. /\ fate' \in [Reqs -> Fates]
      /\ \A r \in Reqs : fate[r] # "none" => fate'[r] # "none"
      /\ \A r \in Reqs : r = records[s] /\ observed[s] = "absent" => fate'[r] # "none"
  BY DEF IInv, TypeOK, Fates
<1>3. \A q \in Slots : Claimed(q)' => Claimed(q)
  BY <1>2 DEF Claimed
<1>4. \A r \in Reqs : pc[r] # "verified"
  BY DEF IInv, PhaseInv
<1>5. TypeOK'
  BY <1>1, <1>2 DEF IInv, TypeOK
<1>6. LockInv'
  BY DEF IInv, LockInv, Holds
<1>7. PhaseInv'
  BY DEF IInv, PhaseInv
<1>8. LateInv'
  BY <1>2 DEF IInv, LateInv, TypeOK
<1>9. VerifiedInv'
  <2>1. \A p \in Procs : pc[p] # "verified"
    BY <1>4 DEF Procs
  <2>. QED
    BY <2>1 DEF VerifiedInv
<1>10. TrackedInv'
  <2>. SUFFICES ASSUME NEW q \in Slots, Claimed(q)'
                PROVE  records'[q] = led[q]
    BY DEF TrackedInv
  <2>1. Claimed(q) /\ led[q] \in Reqs /\ fate'[led[q]] = "none"
    BY <1>3 DEF Claimed
  <2>2. records[q] = led[q]
    BY <2>1, <1>4 DEF IInv, TrackedInv, Publishing
  <2>3. CASE q = s
    <3>1. observed[s] = "dark"
      BY <2>1, <2>2, <2>3, <1>2 DEF IInv, TypeOK
    <3>. QED
      BY <3>1, <2>1, <2>3 DEF IInv, ReconcileInv
  <2>4. CASE q # s
    BY <2>2, <2>4, <1>1
  <2>. QED
    BY <2>3, <2>4
<1>11. DiskInv'
  BY <1>1 DEF IInv, DiskInv
<1>12. ReconcileInv'
  BY <1>1, <1>3 DEF IInv, ReconcileInv
<1>. QED
  BY <1>5, <1>6, <1>7, <1>8, <1>9, <1>10, <1>11, <1>12 DEF IInv

\* Start-up keeps a record.
LEMMA KeepStep ==
  ASSUME IInv, NEW s \in Slots, ReconcileKeeps(s)
  PROVE  IInv'
<1>. USE DEF IInv, ReconcileKeeps, Visited, hardware, store, memory, tasks
<1>1. TypeOK'
  BY DEF TypeOK, Procs, Ops, Lamp, Fates, NoRecords
<1>2. LockInv'
  BY DEF TypeOK, LockInv, Holds, Procs
<1>3. PhaseInv'
  BY DEF TypeOK, PhaseInv, Procs
<1>4. LateInv'
  BY DEF TypeOK, LateInv
<1>5. VerifiedInv'
  BY DEF TypeOK, VerifiedInv, Claimed
<1>6. TrackedInv'
  BY DEF TypeOK, TrackedInv, Claimed, Publishing
<1>7. DiskInv'
  BY DEF TypeOK, DiskInv, NoRecords
<1>8. ReconcileInv'
  BY DEF TypeOK, ReconcileInv, Claimed, NoRecords
<1>. QED
  BY <1>1, <1>2, <1>3, <1>4, <1>5, <1>6, <1>7, <1>8

\* Start-up clears an expired record.
LEMMA ReconcileStep ==
  ASSUME IInv, NEW s \in Slots, ReconcileClears(s)
  PROVE  IInv'
<1>. USE DEF ReconcileClears, hardware, store, memory, sweep
<1>1. Timer \in Procs /\ Timer \notin Reqs /\ "off" \in Ops
  BY ConstantsAssumption DEF Procs, Ops
<1>2. Call(Timer, s, "off")
  OBVIOUS
<1>3. /\ queue' \in [Encl -> Seq(Procs)]
      /\ pc' \in [Procs -> {"idle", "queued", "writing", "verified", "done"}]
      /\ slot' \in [Procs -> Slots]
      /\ op' \in [Procs -> Ops]
      /\ pc'[Timer] = "queued" /\ slot'[Timer] = s /\ op'[Timer] = "off"
      /\ \A q \in Procs : q # Timer =>
           pc'[q] = pc[q] /\ slot'[q] = slot[q] /\ op'[q] = op[q]
  BY <1>1, <1>2, CallFrame DEF IInv
<1>4. TypeOK'
  BY <1>3 DEF IInv, TypeOK
<1>5. LockInv'
  BY <1>1, <1>2, CallLock DEF IInv
<1>6. PhaseInv'
  BY <1>1, <1>3 DEF IInv, PhaseInv, Procs
<1>7. LateInv'
  BY DEF IInv, LateInv
<1>8. VerifiedInv'
  BY <1>3 DEF IInv, VerifiedInv, Claimed
<1>9. TrackedInv'
  <2>. SUFFICES ASSUME NEW q \in Slots, Claimed(q)
                PROVE  records[q] = led[q] \/ Publishing(led[q], q)'
    BY DEF TrackedInv, Claimed
  <2>1. records[q] = led[q] \/ Publishing(led[q], q)
    BY DEF IInv, TrackedInv
  <2>2. led[q] \in Procs /\ led[q] # Timer
    BY <1>1 DEF Claimed, Procs
  <2>. QED
    BY <2>1, <2>2, <1>3 DEF Publishing
<1>10. DiskInv'
  BY DEF IInv, DiskInv
<1>11. ReconcileInv'
  BY <1>3 DEF IInv, ReconcileInv, Claimed, Expired
<1>. QED
  BY <1>4, <1>5, <1>6, <1>7, <1>8, <1>9, <1>10, <1>11 DEF IInv

\* Start-up's clear fails: the record stays.
LEMMA ReconcileFailsStep ==
  ASSUME IInv, ReconcileClearFails
  PROVE  IInv'
<1>. USE DEF ReconcileClearFails, Visited, store, memory
<1>1. Timer \in Procs /\ Timer \notin Reqs /\ Raises(Timer) /\ slot[Timer] \in Slots
  BY ConstantsAssumption DEF Procs, IInv, TypeOK
<1>2. /\ fate' \in [Reqs -> Fates]
      /\ \A q \in Reqs : fate[q] # "none" => fate'[q] # "none"
  BY DEF IInv, TypeOK, Fates
<1>3. /\ late' \subseteq Slots \X (Reqs \cup {Dark})
      /\ queue' \in [Encl -> Seq(Procs)]
      /\ pc' \in [Procs -> {"idle", "queued", "writing", "verified", "done"}]
      /\ slot' = slot /\ op' = op
      /\ pc[Timer] \in {"queued", "writing"} /\ pc'[Timer] = "idle"
      /\ \A q \in Procs : q # Timer => pc'[q] = pc[q]
      /\ \A s \in Slots : Claimed(s)' => Claimed(s)
      /\ LockInv' /\ PhaseInv' /\ LateInv' /\ VerifiedInv'
  BY <1>1, <1>2, RaisesKeeps
<1>4. /\ agenda' \in [Slots -> Reqs \cup {None}]
      /\ \A s \in Slots : agenda'[s] # None => agenda'[s] = agenda[s]
  BY <1>1 DEF IInv, TypeOK
<1>5. TypeOK'
  BY <1>2, <1>3, <1>4 DEF IInv, TypeOK
<1>6. TrackedInv'
  <2>. SUFFICES ASSUME NEW s \in Slots, Claimed(s)
                PROVE  records[s] = led[s] \/ Publishing(led[s], s)'
    BY <1>3 DEF TrackedInv
  <2>1. records[s] = led[s] \/ Publishing(led[s], s)
    BY DEF IInv, TrackedInv
  <2>2. led[s] \in Procs /\ led[s] # Timer
    BY <1>1 DEF Claimed, Procs
  <2>. QED
    BY <2>1, <2>2, <1>3 DEF Publishing
<1>7. DiskInv'
  BY DEF IInv, DiskInv
<1>8. ReconcileInv'
  <2>1. \A s \in Slots : agenda'[s] # None => records[s] = agenda'[s]
    BY <1>4 DEF IInv, ReconcileInv
  <2>. QED
    BY <2>1, <1>3 DEF IInv, ReconcileInv, Claimed
<1>. QED
  BY <1>5, <1>6, <1>7, <1>8, <1>3 DEF IInv

\* Start-up ends.
LEMMA DoneStep ==
  ASSUME IInv, ReconcileDone
  PROVE  IInv'
<1>. USE DEF IInv, ReconcileDone, Save, hardware, memory, tasks
<1>1. TypeOK'
  BY DEF TypeOK, Procs, Ops, Lamp, Fates, NoRecords
<1>2. LockInv'
  BY DEF TypeOK, LockInv, Holds, Procs
<1>3. PhaseInv'
  BY DEF TypeOK, PhaseInv, Procs
<1>4. LateInv'
  BY DEF TypeOK, LateInv
<1>5. VerifiedInv'
  BY DEF TypeOK, VerifiedInv, Claimed
<1>6. TrackedInv'
  BY DEF TypeOK, TrackedInv, Claimed, Publishing
<1>7. DiskInv'
  BY DEF TypeOK, DiskInv, NoRecords
<1>8. ReconcileInv'
  BY DEF TypeOK, ReconcileInv, Claimed, NoRecords
<1>. QED
  BY <1>1, <1>2, <1>3, <1>4, <1>5, <1>6, <1>7, <1>8

\* A timer runs out.
LEMMA ExpireStep ==
  ASSUME IInv, NEW r \in Reqs, Expire(r)
  PROVE  IInv'
<1>. USE DEF IInv, Expire, hardware, store, memory, tasks, sweep
<1>1. TypeOK'
  BY DEF TypeOK, Procs, Ops, Lamp, Fates, NoRecords
<1>2. LockInv'
  BY DEF TypeOK, LockInv, Holds, Procs
<1>3. PhaseInv'
  BY DEF TypeOK, PhaseInv, Procs
<1>4. LateInv'
  BY DEF TypeOK, LateInv
<1>5. VerifiedInv'
  BY DEF TypeOK, VerifiedInv, Claimed
<1>6. TrackedInv'
  BY DEF TypeOK, TrackedInv, Claimed, Publishing
<1>7. DiskInv'
  BY DEF TypeOK, DiskInv, NoRecords
<1>8. ReconcileInv'
  BY DEF TypeOK, ReconcileInv, Claimed, NoRecords
<1>. QED
  BY <1>1, <1>2, <1>3, <1>4, <1>5, <1>6, <1>7, <1>8

\* A backoff ends.
LEMMA BackoffStep ==
  ASSUME IInv, NEW s \in Slots, BackoffElapses(s)
  PROVE  IInv'
<1>. USE DEF IInv, BackoffElapses, hardware, store, tasks, sweep
<1>1. TypeOK'
  BY DEF TypeOK, Procs, Ops, Lamp, Fates, NoRecords
<1>2. LockInv'
  BY DEF TypeOK, LockInv, Holds, Procs
<1>3. PhaseInv'
  BY DEF TypeOK, PhaseInv, Procs
<1>4. LateInv'
  BY DEF TypeOK, LateInv
<1>5. VerifiedInv'
  BY DEF TypeOK, VerifiedInv, Claimed
<1>6. TrackedInv'
  BY DEF TypeOK, TrackedInv, Claimed, Publishing
<1>7. DiskInv'
  BY DEF TypeOK, DiskInv, NoRecords
<1>8. ReconcileInv'
  BY DEF TypeOK, ReconcileInv, Claimed, NoRecords
<1>. QED
  BY <1>1, <1>2, <1>3, <1>4, <1>5, <1>6, <1>7, <1>8

\* Something else changes an LED: it is nobody's then.
LEMMA ExternalStep ==
  ASSUME IInv, NEW s \in Slots, ExternalChange(s)
  PROVE  IInv'
<1>. USE DEF ExternalChange, store, memory, tasks, sweep
<1>1. /\ led' \in [Slots -> Lamp]
      /\ led'[s] \notin Reqs
      /\ \A q \in Slots : q # s => led'[q] = led[q]
  BY ConstantsAssumption DEF IInv, TypeOK, Lamp
<1>2. \A q \in Slots : Claimed(q)' => Claimed(q) /\ led'[q] = led[q]
  BY <1>1 DEF Claimed
<1>3. TypeOK'
  BY <1>1 DEF IInv, TypeOK
<1>4. LockInv'
  BY DEF IInv, LockInv, Holds
<1>5. PhaseInv'
  BY DEF IInv, PhaseInv
<1>6. LateInv'
  BY DEF IInv, LateInv
<1>7. VerifiedInv'
  <2>. SUFFICES ASSUME NEW p \in Procs, pc[p] = "verified", Claimed(slot[p])'
                PROVE  led'[slot[p]] = p /\ op[p] # "off"
    BY DEF VerifiedInv
  <2>1. slot[p] \in Slots
    BY DEF IInv, TypeOK
  <2>. QED
    BY <2>1, <1>2 DEF IInv, VerifiedInv
<1>8. TrackedInv'
  BY <1>2 DEF IInv, TrackedInv, Publishing
<1>9. DiskInv'
  BY DEF IInv, DiskInv
<1>10. ReconcileInv'
  BY <1>2 DEF IInv, ReconcileInv
<1>. QED
  BY <1>3, <1>4, <1>5, <1>6, <1>7, <1>8, <1>9, <1>10 DEF IInv

\* A late command takes effect: it was a failed request's, or switches off.
LEMMA LateStep ==
  ASSUME IInv, NEW c \in late, LateEffect(c)
  PROVE  IInv'
<1>. USE DEF LateEffect, store, memory, tasks, sweep
<1>1. c[1] \in Slots /\ c[2] \in Reqs \cup {Dark}
  BY DEF IInv, TypeOK
<1>2. c[2] \in Reqs => fate[c[2]] # "none"
  BY DEF IInv, LateInv
<1>3. /\ led' \in [Slots -> Lamp]
      /\ led'[c[1]] = c[2]
      /\ \A q \in Slots : q # c[1] => led'[q] = led[q]
  BY <1>1 DEF IInv, TypeOK, Lamp
<1>4. \A q \in Slots : Claimed(q)' => Claimed(q) /\ led'[q] = led[q]
  BY <1>2, <1>3 DEF Claimed
<1>5. TypeOK'
  BY <1>3 DEF IInv, TypeOK
<1>6. LockInv'
  BY DEF IInv, LockInv, Holds
<1>7. PhaseInv'
  BY DEF IInv, PhaseInv
<1>8. LateInv'
  BY DEF IInv, LateInv
<1>9. VerifiedInv'
  <2>. SUFFICES ASSUME NEW p \in Procs, pc[p] = "verified", Claimed(slot[p])'
                PROVE  led'[slot[p]] = p /\ op[p] # "off"
    BY DEF VerifiedInv
  <2>1. slot[p] \in Slots
    BY DEF IInv, TypeOK
  <2>. QED
    BY <2>1, <1>4 DEF IInv, VerifiedInv
<1>10. TrackedInv'
  BY <1>4 DEF IInv, TrackedInv, Publishing
<1>11. DiskInv'
  BY DEF IInv, DiskInv
<1>12. ReconcileInv'
  BY <1>4 DEF IInv, ReconcileInv
<1>. QED
  BY <1>5, <1>6, <1>7, <1>8, <1>9, <1>10, <1>11, <1>12 DEF IInv

\* The process dies.  What was verified but not published, or stored but not saved,
\* is lost, and fate says so; the rest is on the disk.
LEMMA CrashStep ==
  ASSUME IInv, Crash
  PROVE  IInv'
<1>. USE DEF Crash
<1>1. /\ fate' \in [Reqs -> Fates]
      /\ \A r \in Reqs : fate[r] # "none" => fate'[r] # "none"
      /\ \A r \in Reqs : pc[r] \in {"writing", "verified"} => fate'[r] # "none"
      /\ \A r \in Reqs, s \in Slots :
           dirty /\ records[s] = r /\ disk[s] # r => fate'[r] # "none"
  BY DEF IInv, TypeOK, Fates
<1>2. PICK sent \in SUBSET {p \in Procs : pc[p] = "writing"} :
        late' = late \cup {<<slot[p], Command(p)>> : p \in sent}
  OBVIOUS
<1>3. \A p \in Procs :
        /\ Command(p) \in Reqs \cup {Dark}
        /\ Command(p) \in Reqs => Command(p) = p
  BY CommandOwn DEF IInv
<1>4. late' \subseteq Slots \X (Reqs \cup {Dark})
  <2>. SUFFICES ASSUME NEW c \in late'
                PROVE  c \in Slots \X (Reqs \cup {Dark})
    OBVIOUS
  <2>1. CASE c \in late
    BY <2>1 DEF IInv, TypeOK
  <2>2. CASE c \notin late
    <3>1. PICK p \in sent : c = <<slot[p], Command(p)>>
      BY <2>2, <1>2
    <3>2. p \in Procs
      OBVIOUS
    <3>3. slot[p] \in Slots
      BY <3>2 DEF IInv, TypeOK
    <3>4. Command(p) \in Reqs \cup {Dark}
      BY <3>2, <1>3
    <3>5. <<slot[p], Command(p)>> \in Slots \X (Reqs \cup {Dark})
      BY <3>3, <3>4
    <3>. QED
      BY <3>1, <3>5
  <2>. QED
    BY <2>1, <2>2
<1>5. \A s \in Slots : Claimed(s)' => Claimed(s)
  BY <1>1 DEF Claimed
<1>6. \A p \in Procs : pc'[p] \in {"idle", "done"}
  OBVIOUS
<1>7. TypeOK'
  <2>1. /\ crashes' \in 0..MaxCrashes
        /\ tries' \in 0..(MaxAttempts - 1)
        /\ fails' \in [Slots -> 0..(MaxAttempts - 1)]
    BY ConstantsAssumption DEF IInv, TypeOK
  <2>2. /\ queue' \in [Encl -> Seq(Procs)]
        /\ pc' \in [Procs -> {"idle", "queued", "writing", "verified", "done"}]
        /\ agenda' \in [Slots -> Reqs \cup {None}]
        /\ records' \in [Slots -> Reqs \cup {None}]
        /\ observed' \in [Slots -> {"lit", "dark", "absent"}]
    BY DEF NoRecords
  <2>. QED
    BY <2>1, <2>2, <1>1, <1>4 DEF IInv, TypeOK
<1>8. LockInv'
  BY <1>6 DEF LockInv
<1>9. PhaseInv'
  BY DEF IInv, PhaseInv, Procs
<1>10. LateInv'
  <2>. SUFFICES ASSUME NEW c \in late', c[2] \in Reqs
                PROVE  fate'[c[2]] # "none"
    BY DEF LateInv
  <2>1. CASE c \in late
    BY <2>1, <1>1 DEF IInv, LateInv
  <2>2. CASE c \notin late
    <3>1. PICK p \in sent : c = <<slot[p], Command(p)>>
      BY <2>2, <1>2
    <3>2. p \in Procs /\ pc[p] = "writing" /\ c[2] = p
      BY <3>1, <1>3
    <3>. QED
      BY <3>2, <1>1
  <2>. QED
    BY <2>1, <2>2
<1>11. VerifiedInv'
  BY <1>6 DEF VerifiedInv
<1>12. TrackedInv'
  <2>. SUFFICES ASSUME NEW s \in Slots, Claimed(s)'
                PROVE  disk[s] = led[s]
    BY DEF TrackedInv
  <2>1. Claimed(s) /\ led[s] \in Reqs /\ fate'[led[s]] = "none"
    BY <1>5 DEF Claimed
  <2>2. records[s] = led[s]
    BY <2>1, <1>1 DEF IInv, TrackedInv, Publishing
  <2>3. CASE dirty
    BY <2>1, <2>2, <2>3, <1>1
  <2>4. CASE ~dirty
    BY <2>1, <2>2, <2>4, ConstantsAssumption DEF IInv, DiskInv, TypeOK
  <2>. QED
    BY <2>3, <2>4
<1>13. DiskInv'
  BY DEF DiskInv
<1>14. ReconcileInv'
  BY DEF ReconcileInv
<1>. QED
  BY <1>7, <1>8, <1>9, <1>10, <1>11, <1>12, <1>13, <1>14 DEF IInv

\* Nothing happens.
LEMMA StutterStep ==
  ASSUME IInv, UNCHANGED vars
  PROVE  IInv'
<1>. USE DEF IInv, vars, hardware, store, memory, tasks, sweep
<1>1. TypeOK'
  BY DEF TypeOK, Procs, Ops, Lamp, Fates, NoRecords
<1>2. LockInv'
  BY DEF TypeOK, LockInv, Holds, Procs
<1>3. PhaseInv'
  BY DEF TypeOK, PhaseInv, Procs
<1>4. LateInv'
  BY DEF TypeOK, LateInv
<1>5. VerifiedInv'
  BY DEF TypeOK, VerifiedInv, Claimed
<1>6. TrackedInv'
  BY DEF TypeOK, TrackedInv, Claimed, Publishing
<1>7. DiskInv'
  BY DEF TypeOK, DiskInv, NoRecords
<1>8. ReconcileInv'
  BY DEF TypeOK, ReconcileInv, Claimed, NoRecords
<1>. QED
  BY <1>1, <1>2, <1>3, <1>4, <1>5, <1>6, <1>7, <1>8

-----------------------------------------------------------------------------
(***************************************************************************)
(* The invariant, and the theorems that follow from it.                    *)
(***************************************************************************)

\* The invariant holds when the application is first installed.
LEMMA InitInv == Init => IInv
<1>. SUFFICES ASSUME Init
              PROVE  IInv
  OBVIOUS
<1>. USE DEF Init
<1>1. (CHOOSE s \in Slots : TRUE) \in Slots
  BY ConstantsAssumption
<1>2. TypeOK
  <2>1. fails \in [Slots -> 0..(MaxAttempts - 1)] /\ crashes \in 0..MaxCrashes
        /\ tries \in 0..(MaxAttempts - 1)
    BY ConstantsAssumption
  <2>2. queue \in [Encl -> Seq(Procs)]
    OBVIOUS
  <2>. QED
    BY <1>1, <2>1, <2>2 DEF TypeOK, Lamp, Ops, Fates, NoRecords
<1>3. \A p \in Procs : pc[p] = "idle"
  OBVIOUS
<1>4. \A s \in Slots : led[s] \notin Reqs
  BY ConstantsAssumption
<1>5. LockInv /\ LateInv /\ DiskInv /\ ReconcileInv
  BY <1>3 DEF LockInv, LateInv, DiskInv, ReconcileInv
<1>6. PhaseInv
  BY <1>3 DEF PhaseInv, Procs
<1>7. VerifiedInv /\ TrackedInv
  BY <1>3, <1>4 DEF VerifiedInv, TrackedInv, Claimed
<1>. QED
  BY <1>2, <1>5, <1>6, <1>7 DEF IInv

\* Every step of the engine, its environment and its crashes keeps it.
LEMMA NextInv == IInv /\ [Next]_vars => IInv'
<1>. SUFFICES ASSUME IInv, [Next]_vars
              PROVE  IInv'
  OBVIOUS
<1>1. ASSUME NEW r \in Reqs, Submit(r) \/ RequestFails(r) \/ Expire(r)
      PROVE  IInv'
  BY <1>1, SubmitStep, RequestFailsStep, ExpireStep
<1>2. ASSUME NEW p \in Procs, Proceed(p)
      PROVE  IInv'
  BY <1>2, ReadStep, WriteStep, PublishStep DEF Proceed
<1>3. CASE TimerFails
  BY <1>3, ClearFailsStep, GiveUpStep, OtherStep, ReconcileFailsStep DEF TimerFails
<1>4. ASSUME NEW s \in Slots,
             TimerVisits(s) \/ BackoffElapses(s) \/ ExternalChange(s)
      PROVE  IInv'
  <2>1. CASE TimerVisits(s)
    BY <2>1, SkipStep, StartClearStep, DropStep, KeepStep, ReconcileStep
    DEF TimerVisits
  <2>. QED
    BY <1>4, <2>1, BackoffStep, ExternalStep
<1>5. ASSUME NEW c \in late, LateEffect(c)
      PROVE  IInv'
  BY <1>5, LateStep
<1>6. CASE TickStart
  BY <1>6, TickStep
<1>7. CASE Boot
  BY <1>7, BootStep
<1>8. CASE ReconcileDone
  BY <1>8, DoneStep
<1>9. CASE Crash
  BY <1>9, CrashStep
<1>10. CASE UNCHANGED vars
  BY <1>10, StutterStep
<1>. QED
  BY <1>1, <1>2, <1>3, <1>4, <1>5, <1>6, <1>7, <1>8, <1>9, <1>10 DEF Next

\* The strengthened invariant of the engine holds in every reachable state.
THEOREM Invariance == Spec => []IInv
<1>1. Init => IInv
  BY InitInv
<1>2. IInv /\ [Next]_vars => IInv'
  BY NextInv
<1>. QED
  BY <1>1, <1>2, PTL DEF Spec

\* The engine's variables keep their types; fails[s] stays below the retry limit
\* of _tick, and no snapshot or local variable goes wrong over a crash.
THEOREM TypeCorrect == Spec => []TypeOK
<1>1. IInv => TypeOK
  BY DEF IInv
<1>. QED
  BY <1>1, Invariance, PTL

\* The lock of identify() works for any number of requests, slots and enclosures:
\* at most one of them per enclosure is between its write and its publication.
THEOREM OneWriter == Spec => []OneWriterPerEnclosure
<1>1. IInv => OneWriterPerEnclosure
  BY DEF IInv, LockInv, OneWriterPerEnclosure, Holds
<1>. QED
  BY <1>1, Invariance, PTL

\* A lit LED's owner is never lost or confused without a named reason, over any
\* number of concurrent requests, timer clears, failures, crashes and restarts.
THEOREM Attribution == Spec => []Attributed
<1>1. IInv => Attributed
  BY DEF IInv, TrackedInv, Attributed, Claimed
<1>. QED
  BY <1>1, Invariance, PTL

\* Between two steps of the event loop the records file is exact, unless the last
\* save failed.
THEOREM Durability == Spec => []Durable
<1>1. IInv => Durable
  BY DEF IInv, DiskInv, Durable
<1>. QED
  BY <1>1, Invariance, PTL

\* Reconciliation at start-up switches off only an LED whose record has expired.
THEOREM ReconcileIsPrecise == Spec => []ReconcileClearsOnlyExpired
<1>1. IInv => ReconcileClearsOnlyExpired
  BY DEF IInv, ReconcileInv, ReconcileClearsOnlyExpired
<1>. QED
  BY <1>1, Invariance, PTL

=============================================================================
