--------------------------- MODULE ServicesProofs ---------------------------
(***************************************************************************)
(* Theorems about the parts of Services, for any value of their constants: *)
(* the enclosure lock, the chassis poll, the rate limiter and the audit    *)
(* log, each of itself; and the parts side by side, where what is proved   *)
(* of a part alone (here, in AccountsProofs and in SlotMapProofs) holds of *)
(* it beside the others.                                                   *)
(***************************************************************************)
EXTENDS Services, AccountsProofs, SlotMapProofs

-----------------------------------------------------------------------------
(***************************************************************************)
(* The enclosure lock: its inductive invariant.                            *)
(***************************************************************************)

Outside == {"idle", "wait", "nested_wait"}

\* TypeOK without its numbers, and the depths.
KindsOK ==
  /\ owner \in Threads \cup {None}
  /\ pc \in [Threads -> Steps]
  /\ bay \in [Writers -> Slots \cup {None}]
  /\ seen \in [Sweepers -> SUBSET Slots]
  /\ inflight \subseteq Writers \X Slots /\ orphans \subseteq inflight

DepthOK == depth \in [Threads -> {0, 1, 2}]

CrashesOK == crashes \in 0..MaxCrashes

\* Who has the lock has entered a section, and only a command runs in two.
HeldBy(t) ==
  /\ owner = t => depth[t] # 0
  /\ pc[t] \in Outside => owner # t /\ depth[t] = 0
  /\ depth[t] = 2 => pc[t] = "command" \/ pc[t] = "nested_exit"

HeldInv == \A t \in Threads : HeldBy(t)

BayInv == \A w \in Writers : pc[w] # "idle" => bay[w] \in Slots

pending == inflight \ orphans

\* What has not settled, and is not given up, is the command of the one who has the
\* lock, and whose outer section took it.
PendingInv ==
  \A c \in pending :
    /\ c[1] = owner
    /\ pc[c[1]] \in {"nested_exit", "settle", "exit"}
    /\ pc[c[1]] = "nested_exit" => depth[c[1]] = 2

LockInv == KindsOK /\ DepthOK /\ CrashesOK /\ HeldInv /\ BayInv /\ PendingInv

LEMMA Kinds ==
  /\ Writers \subseteq Threads /\ Sweepers \subseteq Threads /\ Helpers \subseteq Threads
  /\ Writers \cap Sweepers = {} /\ None \notin Threads /\ None \notin Slots
  BY ConstantsAssumption DEF ConstantsAssumption, Threads

USE Kinds

-----------------------------------------------------------------------------
(***************************************************************************)
(* A step on the inductive invariant, action by action.                    *)
(***************************************************************************)

LEMMA LockStarts == Init => LockInv
  <1> HAVE Init
  <1>1. CrashesOK
    BY ConstantsAssumption DEF ConstantsAssumption, Init, CrashesOK
  <1>2. KindsOK /\ DepthOK /\ HeldInv /\ BayInv /\ PendingInv
    BY DEF Init, KindsOK, DepthOK, HeldInv, HeldBy, BayInv, PendingInv, pending, Steps
  <1> QED BY <1>1, <1>2 DEF LockInv

\* Arithmetic on the depth: one level up, and one down.
LEMMA Deeper ==
  ASSUME DepthOK, NEW t \in Threads
  PROVE  /\ depth[t] > 0 <=> depth[t] # 0
         /\ depth[t] = 1 => depth[t] + 1 = 2
         /\ LeftDepth(t) = IF depth[t] = 2 THEN 1 ELSE 0
  BY DEF DepthOK, LeftDepth

LEMMA Leaving ==
  ASSUME LockInv, NEW t \in Threads, Leaves(t)
  PROVE  /\ depth' = [depth EXCEPT ![t] = IF depth[t] = 2 THEN 1 ELSE 0]
         /\ owner' = IF owner = t /\ depth[t] = 1 THEN None ELSE owner
  BY Deeper DEF LockInv, Leaves, Released, Releases

LEMMA Nesting ==
  ASSUME LockInv, NEW w \in Writers, Nest(w)
  PROVE  \/ depth[w] = 1 /\ depth' = [depth EXCEPT ![w] = 2] /\ pc' = [pc EXCEPT ![w] = "command"]
         \/ /\ depth[w] = 0 /\ depth' = depth
            /\ \/ pc' = [pc EXCEPT ![w] = "nested_wait"]
               \/ pc' = [pc EXCEPT ![w] = "command"]
  <1>1. w \in Threads /\ depth[w] \in {0, 1}
    BY DEF LockInv, DepthOK, HeldInv, HeldBy, Nest
  <1>2. CASE depth[w] = 0
    BY <1>1, <1>2, Deeper DEF LockInv, Nest, Goes
  <1>3. CASE depth[w] = 1
    BY <1>1, <1>3, Deeper DEF LockInv, Nest, Goes
  <1> QED BY <1>1, <1>2, <1>3

LEMMA CrashesKept ==
  ASSUME LockInv, UNCHANGED crashes
  PROVE  CrashesOK'
  BY DEF LockInv, CrashesOK

\* A step of one thread, ...
Alone(t) ==
  \A s \in Threads : s # t => pc'[s] = pc[s] /\ depth'[s] = depth[s]

\* ... as HeldInv sees it, ...
LEMMA HeldStep ==
  ASSUME LockInv, NEW t \in Threads, Alone(t), HeldBy(t)',
         owner' = owner \/ owner' = None \/ owner' = t
  PROVE  HeldInv'
  <1> SUFFICES ASSUME NEW s \in Threads, s # t
               PROVE  HeldBy(s)'
    BY DEF HeldInv
  <1>1. pc'[s] = pc[s] /\ depth'[s] = depth[s] /\ (owner' = s => owner = s)
    BY DEF Alone
  <1>2. HeldBy(s)
    BY DEF LockInv, HeldInv
  <1> QED BY <1>1, <1>2 DEF HeldBy

\* ... and as PendingInv does, when it adds no command.
LEMMA PendingStep ==
  ASSUME LockInv, NEW t \in Threads, Alone(t),
         pending' \subseteq pending,
         \A c \in pending' : owner' = owner,
         \A c \in pending' : c[1] = t =>
           /\ pc'[t] \in {"nested_exit", "settle", "exit"}
           /\ pc'[t] = "nested_exit" => depth'[t] = 2
  PROVE  PendingInv'
  <1> SUFFICES ASSUME NEW c \in pending'
               PROVE  /\ c[1] = owner'
                      /\ pc'[c[1]] \in {"nested_exit", "settle", "exit"}
                      /\ pc'[c[1]] = "nested_exit" => depth'[c[1]] = 2
    BY DEF PendingInv
  <1>1. c \in pending /\ c[1] = owner' /\ c[1] \in Threads
    BY DEF LockInv, KindsOK, PendingInv, pending
  <1>2. CASE c[1] = t
    BY <1>1, <1>2
  <1>3. CASE c[1] # t
    BY <1>1, <1>3 DEF Alone, LockInv, PendingInv
  <1> QED BY <1>2, <1>3

\* The commands of the one who has the lock are all there is to give up.
LEMMA PendingOfOwner ==
  ASSUME LockInv, NEW dead, owner \notin dead
  PROVE  inflight \ (orphans \cup Abandons(dead)) = pending
  BY DEF LockInv, PendingInv, pending, Abandons

LEMMA PendingAllGivenUp ==
  ASSUME LockInv, NEW dead, owner \in dead
  PROVE  inflight \ (orphans \cup Abandons(dead)) = {}
  BY DEF LockInv, PendingInv, pending, Abandons

LEMMA EnterInv ==
  ASSUME LockInv, NEW t \in Threads, Enter(t)
  PROVE  LockInv'
  <1>0. /\ pc[t] = "idle" /\ owner # t /\ depth[t] = 0
        /\ depth' = depth /\ owner' = owner /\ pending' = pending
    BY DEF LockInv, HeldInv, HeldBy, Outside, Enter, lock_vars, hw_vars, pending
  <1>1. Alone(t) /\ pc'[t] \in {"wait", "section"}
    BY <1>0 DEF Enter, Goes, Alone, LockInv, KindsOK
  <1>2. PICK step \in {"wait", "section"} : pc' = [pc EXCEPT ![t] = step]
    BY DEF Enter, Goes
  <1>3. KindsOK'
    BY <1>2 DEF LockInv, KindsOK, Enter, Steps, lock_vars, hw_vars
  <1>4. DepthOK'
    BY <1>0 DEF LockInv, DepthOK
  <1>5. HeldInv'
    <2>1. owner' = owner \/ owner' = None \/ owner' = t
      BY <1>0, <1>1
    <2>2. HeldBy(t)'
      BY <1>0, <1>1 DEF HeldBy, Outside
    <2> QED BY <1>0, <1>1, <2>1, <2>2, HeldStep
  <1>6. BayInv'
    BY DEF LockInv, KindsOK, BayInv, Enter, Goes
  <1>7. PendingInv'
    <2>1. \A c \in pending : c[1] # t
      BY <1>0 DEF LockInv, PendingInv
    <2> QED BY <1>0, <1>1, <2>1, PendingStep
  <1> QED BY <1>3, <1>4, <1>5, <1>6, <1>7, CrashesKept DEF LockInv, Enter

\* Getting the lock, at either wait.
LEMMA AcquiresInv ==
  ASSUME LockInv, NEW t \in Threads, NEW step \in {"section", "command"},
         pc[t] \in {"wait", "nested_wait"}, Acquires(t, step),
         UNCHANGED <<bay, seen, hw_vars, crashes>>
  PROVE  LockInv'
  <1>0. pending = {} /\ pending' = {}
    <2>1. \A c \in pending : c[1] \in Threads /\ c[1] = owner
      BY DEF LockInv, PendingInv, KindsOK, pending
    <2> QED BY <2>1 DEF Acquires, Free, hw_vars, pending
  <1>1. KindsOK' /\ DepthOK'
    BY DEF LockInv, KindsOK, DepthOK, Acquires, Goes, Steps, hw_vars
  <1>2. Alone(t) /\ owner' = t /\ depth'[t] = 1 /\ pc'[t] = step
    BY DEF Acquires, Goes, Alone, LockInv, KindsOK, DepthOK
  <1>3. HeldInv'
    <2>1. owner' = owner \/ owner' = None \/ owner' = t
      BY <1>2
    <2>2. HeldBy(t)'
      BY <1>2 DEF HeldBy, Outside
    <2> QED BY <1>2, <2>1, <2>2, HeldStep
  <1>4. BayInv'
    BY DEF LockInv, KindsOK, BayInv, Acquires, Goes
  <1>5. PendingInv'
    BY <1>0 DEF PendingInv
  <1> QED BY <1>1, <1>3, <1>4, <1>5, CrashesKept DEF LockInv

\* Going on without it.
LEMMA TimesOutInv ==
  ASSUME LockInv, NEW t \in Threads, NEW step \in {"section", "command"},
         pc[t] \in {"wait", "nested_wait"}, TimesOut(t, step),
         UNCHANGED <<bay, seen, hw_vars, crashes>>
  PROVE  LockInv'
  <1>0. owner # t /\ owner' = owner /\ pending' = pending
    BY DEF LockInv, HeldInv, HeldBy, Outside, TimesOut, hw_vars, pending
  <1>1. KindsOK' /\ DepthOK'
    BY DEF LockInv, KindsOK, DepthOK, TimesOut, Goes, Steps, hw_vars
  <1>2. Alone(t) /\ depth'[t] = 1 /\ pc'[t] = step
    BY DEF TimesOut, Goes, Alone, LockInv, KindsOK, DepthOK
  <1>3. HeldInv'
    <2>1. owner' = owner \/ owner' = None \/ owner' = t
      BY <1>0, <1>2
    <2>2. HeldBy(t)'
      BY <1>0, <1>2 DEF HeldBy, Outside
    <2> QED BY <1>0, <1>2, <2>1, <2>2, HeldStep
  <1>4. BayInv'
    BY DEF LockInv, KindsOK, BayInv, TimesOut, Goes
  <1>5. PendingInv'
    <2>1. \A c \in pending : c[1] # t
      BY <1>0 DEF LockInv, PendingInv
    <2> QED BY <1>0, <1>2, <2>1, PendingStep
  <1> QED BY <1>1, <1>3, <1>4, <1>5, CrashesKept DEF LockInv

LEMMA ExitInv ==
  ASSUME LockInv, NEW t \in Threads, Exit(t)
  PROVE  LockInv'
  <1>0. /\ pc[t] = "exit" /\ pc' = [pc EXCEPT ![t] = "idle"]
        /\ depth' = [depth EXCEPT ![t] = IF depth[t] = 2 THEN 1 ELSE 0]
        /\ owner' = IF owner = t /\ depth[t] = 1 THEN None ELSE owner
    BY Leaving DEF Exit, Goes
  <1>1. depth[t] \in {0, 1} /\ (owner = t => depth[t] = 1)
    BY <1>0 DEF LockInv, DepthOK, HeldInv, HeldBy
  <1>2. /\ Alone(t) /\ pc'[t] = "idle" /\ depth'[t] = 0
        /\ owner' # t /\ (owner' = owner \/ owner' = None)
    BY <1>0, <1>1 DEF Alone, LockInv, KindsOK, DepthOK
  <1>3. KindsOK'
    BY <1>0 DEF LockInv, KindsOK, Exit, Steps, Abandons
  <1>4. DepthOK'
    BY <1>0 DEF LockInv, DepthOK
  <1>5. HeldInv'
    <2>1. owner' = owner \/ owner' = None \/ owner' = t
      BY <1>2
    <2>2. HeldBy(t)'
      BY <1>2 DEF HeldBy, Outside
    <2> QED BY <1>2, <2>1, <2>2, HeldStep
  <1>6. BayInv'
    BY <1>0 DEF LockInv, KindsOK, BayInv, Exit
  <1>7. PendingInv'
    <2>1. pending' \subseteq pending /\ \A c \in pending' : c[1] # t
      <3>1. CASE t \in Writers
        BY <3>1 DEF Exit, pending, Abandons
      <3>2. CASE t \notin Writers
        BY <3>2 DEF Exit, pending, LockInv, KindsOK
      <3> QED BY <3>1, <3>2
    <2>2. \A c \in pending' : owner' = owner
      BY <1>0, <2>1 DEF LockInv, PendingInv
    <2> QED BY <1>2, <2>1, <2>2, PendingStep
  <1> QED BY <1>3, <1>4, <1>5, <1>6, <1>7, CrashesKept DEF LockInv, Exit

LEMMA NestInv ==
  ASSUME LockInv, NEW w \in Writers, Nest(w)
  PROVE  LockInv'
  <1>0. /\ w \in Threads /\ pc[w] = "section"
        /\ pending' = pending /\ owner' = owner
    BY DEF Nest, pending, hw_vars
  <1>1. /\ pc'[w] \in {"nested_wait", "command"} /\ depth'[w] \in {0, 2}
        /\ owner = w => depth'[w] = 2
        /\ pc'[w] = "nested_wait" => depth'[w] = 0
        /\ Alone(w)
    <2>1. CASE depth[w] = 1
      BY <1>0, <2>1, Nesting DEF Alone, LockInv, KindsOK, DepthOK
    <2>2. CASE depth[w] = 0
      BY <1>0, <2>2, Nesting DEF Alone, LockInv, KindsOK, DepthOK, HeldInv, HeldBy
    <2> QED BY <2>1, <2>2, Nesting
  <1>2. KindsOK' /\ DepthOK'
    BY <1>0, Nesting DEF LockInv, KindsOK, DepthOK, Nest, Steps, hw_vars
  <1>3. HeldInv'
    <2>1. owner' = owner \/ owner' = None \/ owner' = w
      BY <1>0, <1>1
    <2>2. HeldBy(w)'
      BY <1>0, <1>1 DEF HeldBy, Outside
    <2> QED BY <1>0, <1>1, <2>1, <2>2, HeldStep
  <1>4. BayInv'
    BY <1>0, Nesting DEF LockInv, KindsOK, BayInv, Nest
  <1>5. PendingInv'
    <2>1. \A c \in pending : c[1] # w
      BY <1>0 DEF LockInv, PendingInv
    <2> QED BY <1>0, <1>1, <2>1, PendingStep
  <1> QED BY <1>2, <1>3, <1>4, <1>5, CrashesKept DEF LockInv, Nest

LEMMA CommandInv ==
  ASSUME LockInv, NEW w \in Writers, Command(w)
  PROVE  LockInv'
  <1> DEFINE c == <<w, bay[w]>>
  <1>0. /\ w \in Threads /\ c \in Writers \X Slots
        /\ pc[w] = "command" /\ pc' = [pc EXCEPT ![w] = "nested_exit"]
        /\ owner' = owner /\ depth' = depth
    BY DEF LockInv, BayInv, Command, Goes, lock_vars
  <1>1. KindsOK' /\ DepthOK'
    BY <1>0 DEF LockInv, KindsOK, DepthOK, Command, Steps
  <1>2. HeldInv'
    BY <1>0 DEF LockInv, KindsOK, HeldInv, HeldBy, Outside
  <1>3. BayInv'
    BY <1>0 DEF LockInv, KindsOK, BayInv, Command
  <1>4. PendingInv'
    <2>1. \A b \in pending' : b \in pending \/ (b = c /\ owner = w /\ depth[w] = 2)
      BY DEF Command, pending
    <2>2. \A b \in pending : b[1] # w /\ b[1] \in Threads
      BY <1>0 DEF LockInv, PendingInv, KindsOK, pending
    <2>3. pc'[w] = "nested_exit" /\ \A s \in Threads : s # w => pc'[s] = pc[s]
      BY <1>0 DEF LockInv, KindsOK
    <2> SUFFICES ASSUME NEW b \in pending'
                 PROVE  /\ b[1] = owner'
                        /\ pc'[b[1]] \in {"nested_exit", "settle", "exit"}
                        /\ pc'[b[1]] = "nested_exit" => depth'[b[1]] = 2
      BY DEF PendingInv
    <2>4. CASE b \in pending
      BY <1>0, <2>2, <2>3, <2>4 DEF LockInv, PendingInv
    <2>5. CASE b = c /\ owner = w /\ depth[w] = 2
      BY <1>0, <2>3, <2>5
    <2> QED BY <2>1, <2>4, <2>5
  <1> QED BY <1>1, <1>2, <1>3, <1>4, CrashesKept DEF LockInv, Command

LEMMA NestExitInv ==
  ASSUME LockInv, NEW w \in Writers, NestExit(w)
  PROVE  LockInv'
  <1>0. /\ w \in Threads /\ pc[w] = "nested_exit" /\ pc' = [pc EXCEPT ![w] = "settle"]
        /\ depth' = [depth EXCEPT ![w] = IF depth[w] = 2 THEN 1 ELSE 0]
        /\ owner' = IF owner = w /\ depth[w] = 1 THEN None ELSE owner
        /\ pending' = pending
    BY Leaving DEF NestExit, Goes, hw_vars, pending
  <1>1. /\ Alone(w) /\ pc'[w] = "settle" /\ depth'[w] = IF depth[w] = 2 THEN 1 ELSE 0
        /\ depth[w] \in {0, 1, 2} /\ (owner = w => depth[w] # 0)
    BY <1>0 DEF LockInv, DepthOK, KindsOK, HeldInv, HeldBy, Alone
  <1>2. KindsOK'
    BY <1>0 DEF LockInv, KindsOK, NestExit, Steps, hw_vars
  <1>3. DepthOK'
    BY <1>0 DEF LockInv, DepthOK
  <1>4. HeldInv'
    <2>1. (owner' = owner \/ owner' = None) /\ (owner' = w => depth'[w] # 0)
      BY <1>0, <1>1
    <2>2. HeldBy(w)'
      BY <1>1, <2>1 DEF HeldBy, Outside
    <2> QED BY <1>0, <1>1, <2>1, <2>2, HeldStep
  <1>5. BayInv'
    BY <1>0 DEF LockInv, KindsOK, BayInv, NestExit
  <1>6. PendingInv'
    <2>1. \A c \in pending : c[1] = w => depth[w] = 2
      BY <1>0 DEF LockInv, PendingInv
    <2>2. \A c \in pending : owner' = owner
      BY <1>0, <2>1 DEF LockInv, PendingInv
    <2> QED BY <1>0, <1>1, <2>2, PendingStep
  <1> QED BY <1>2, <1>3, <1>4, <1>5, <1>6, CrashesKept DEF LockInv, NestExit

\* Of a command that fails nothing is waited for.
LEMMA FailedPending ==
  ASSUME LockInv, NEW w \in Writers, CommandFails(w)
  PROVE  /\ pending' = pending /\ \A c \in pending : c[1] # w
         /\ owner = w => pending' = {} /\ owner' = None
         /\ owner # w => owner' = owner
  <1>0. w \in Threads /\ pc[w] = "command"
    BY DEF CommandFails
  <1>1. PICK late \in {{}, {<<w, bay[w]>>}} :
          /\ inflight' = inflight \cup late
          /\ orphans' = orphans \cup Abandons({w}) \cup late
    BY DEF CommandFails
  <1>2. \A c \in pending : c[1] # w /\ c[1] = owner
    BY <1>0 DEF LockInv, PendingInv
  <1>3. pending' = pending
    BY <1>1, <1>2 DEF pending, Abandons
  <1> QED BY <1>0, <1>2, <1>3 DEF CommandFails, LockInv

LEMMA CommandFailsInv ==
  ASSUME LockInv, NEW w \in Writers, CommandFails(w)
  PROVE  LockInv'
  <1>0. /\ w \in Threads /\ <<w, bay[w]>> \in Writers \X Slots
        /\ pc' = [pc EXCEPT ![w] = "idle"] /\ depth' = [depth EXCEPT ![w] = 0]
        /\ owner' = IF owner = w THEN None ELSE owner
    BY DEF LockInv, BayInv, CommandFails, Goes
  <1>1. KindsOK' /\ DepthOK'
    BY <1>0 DEF LockInv, KindsOK, DepthOK, CommandFails, Steps, Abandons
  <1>2. /\ Alone(w) /\ pc'[w] = "idle" /\ depth'[w] = 0
        /\ owner' # w /\ (owner' = owner \/ owner' = None)
    BY <1>0 DEF Alone, LockInv, KindsOK, DepthOK
  <1>3. HeldInv'
    <2>1. owner' = owner \/ owner' = None \/ owner' = w
      BY <1>0, <1>2
    <2>2. HeldBy(w)'
      BY <1>0, <1>2 DEF HeldBy, Outside
    <2> QED BY <1>0, <1>2, <2>1, <2>2, HeldStep
  <1>4. BayInv'
    BY <1>0 DEF LockInv, KindsOK, BayInv, CommandFails
  <1>5. PendingInv'
    <2>1. \A c \in pending' : owner' = owner
      BY FailedPending
    <2> QED BY <1>0, <1>2, <2>1, FailedPending, PendingStep
  <1> QED BY <1>1, <1>3, <1>4, <1>5, CrashesKept DEF LockInv, CommandFails

LEMMA SettledInv ==
  ASSUME LockInv, NEW w \in Writers, Settled(w)
  PROVE  LockInv'
  <1>0. /\ w \in Threads /\ pc[w] = "settle" /\ pc' = [pc EXCEPT ![w] = "exit"]
        /\ depth' = depth /\ owner' = owner /\ pending' = pending
    BY DEF Settled, Goes, lock_vars, hw_vars, pending
  <1>1. KindsOK' /\ DepthOK' /\ Alone(w) /\ pc'[w] = "exit"
    BY <1>0 DEF LockInv, KindsOK, DepthOK, Settled, Steps, hw_vars, Alone
  <1>2. HeldInv'
    BY <1>0 DEF LockInv, KindsOK, HeldInv, HeldBy, Outside
  <1>3. BayInv'
    BY <1>0 DEF LockInv, KindsOK, BayInv, Settled
  <1>4. PendingInv'
    BY <1>0, <1>1, PendingStep
  <1> QED BY <1>1, <1>2, <1>3, <1>4, CrashesKept DEF LockInv, Settled

LEMMA ReadSlotInv ==
  ASSUME LockInv, NEW r \in Sweepers, NEW s \in Slots, ReadSlot(r, s)
  PROVE  LockInv'
  <1>0. /\ r \in Threads /\ r \notin Writers /\ pc[r] = "section"
        /\ depth' = depth /\ owner' = owner /\ pending' = pending
    BY DEF ReadSlot, lock_vars, hw_vars, pending
  <1>1. PICK step \in {"section", "exit"} : pc' = [pc EXCEPT ![r] = step]
    BY <1>0 DEF ReadSlot, Goes, LockInv, KindsOK
  <1>2. KindsOK' /\ DepthOK' /\ Alone(r)
    BY <1>0, <1>1 DEF LockInv, KindsOK, DepthOK, ReadSlot, Steps, hw_vars, Alone
  <1>3. HeldInv'
    BY <1>0, <1>1 DEF LockInv, KindsOK, HeldInv, HeldBy, Outside
  <1>4. BayInv'
    BY <1>0, <1>1 DEF LockInv, KindsOK, BayInv, ReadSlot
  <1>5. PendingInv'
    <2>1. \A c \in pending : c[1] # r
      BY <1>0 DEF LockInv, PendingInv
    <2> QED BY <1>0, <1>1, <1>2, <2>1, PendingStep
  <1> QED BY <1>2, <1>3, <1>4, <1>5, CrashesKept DEF LockInv, ReadSlot

LEMMA TakesEffectInv ==
  ASSUME LockInv, NEW c \in inflight, TakesEffect(c)
  PROVE  LockInv'
  <1>1. KindsOK' /\ DepthOK'
    BY DEF LockInv, KindsOK, DepthOK, TakesEffect, lock_vars
  <1>2. HeldInv' /\ BayInv'
    BY DEF LockInv, HeldInv, HeldBy, BayInv, TakesEffect, lock_vars
  <1>3. PendingInv'
    BY DEF LockInv, PendingInv, pending, TakesEffect, lock_vars
  <1> QED BY <1>1, <1>2, <1>3, CrashesKept DEF LockInv, TakesEffect

LEMMA CrashPending ==
  ASSUME LockInv, NEW dead, Crash(dead)
  PROVE  /\ owner \in dead => pending' = {} /\ owner' = None
         /\ owner \notin dead => pending' = pending /\ owner' = owner
  BY PendingOfOwner, PendingAllGivenUp DEF Crash, pending

LEMMA CrashInv ==
  ASSUME LockInv, NEW dead \in SUBSET Threads, Crash(dead)
  PROVE  LockInv'
  <1>1. KindsOK' /\ DepthOK'
    BY DEF LockInv, KindsOK, DepthOK, Crash, Steps, Abandons
  <1>2. HeldInv'
    <2> SUFFICES ASSUME NEW s \in Threads PROVE HeldBy(s)'
      BY DEF HeldInv
    <2>1. CASE s \in dead
      <3>1. pc'[s] = "idle" /\ depth'[s] = 0 /\ owner' # s
        BY <2>1 DEF Crash
      <3> QED BY <3>1 DEF HeldBy
    <2>2. CASE s \notin dead
      <3>1. pc'[s] = pc[s] /\ depth'[s] = depth[s] /\ (owner' = s => owner = s)
        BY <2>2 DEF Crash
      <3> QED BY <3>1 DEF LockInv, HeldInv, HeldBy
    <2> QED BY <2>1, <2>2
  <1>3. BayInv'
    BY DEF LockInv, KindsOK, DepthOK, BayInv, Crash
  <1>4. PendingInv'
    BY CrashPending DEF LockInv, KindsOK, DepthOK, PendingInv, Crash, pending
  <1>5. CrashesOK'
    BY ConstantsAssumption DEF ConstantsAssumption, LockInv, CrashesOK, Crash
  <1> QED BY <1>1, <1>2, <1>3, <1>4, <1>5 DEF LockInv

LEMMA LockKept ==
  ASSUME LockInv, [Next]_vars
  PROVE  LockInv'
  <1>1. CASE \E t \in Threads : Section(t)
    <2> PICK t \in Threads : Section(t)
      BY <1>1
    <2>1. CASE Enter(t)
      BY <2>1, EnterInv
    <2>2. CASE Acquire(t)
      BY <2>2, AcquiresInv DEF Acquire
    <2>3. CASE GoUnsynchronised(t)
      BY <2>3, TimesOutInv DEF GoUnsynchronised
    <2>4. CASE Exit(t)
      BY <2>4, ExitInv
    <2> QED BY <2>1, <2>2, <2>3, <2>4 DEF Section
  <1>2. CASE \E w \in Writers : Write(w)
    <2> PICK w \in Writers : Write(w)
      BY <1>2
    <2>0. w \in Threads
      OBVIOUS
    <2>1. CASE Nest(w) \/ Command(w) \/ NestExit(w)
      BY <2>1, NestInv, CommandInv, NestExitInv
    <2>2. CASE NestAcquire(w)
      BY <2>0, <2>2, AcquiresInv DEF NestAcquire
    <2>3. CASE NestGoUnsynchronised(w)
      BY <2>0, <2>3, TimesOutInv DEF NestGoUnsynchronised
    <2>4. CASE CommandFails(w) \/ Settled(w)
      BY <2>4, CommandFailsInv, SettledInv
    <2> QED BY <2>1, <2>2, <2>3, <2>4 DEF Write
  <1>3. CASE \E r \in Sweepers : Sweep(r)
    BY <1>3, ReadSlotInv DEF Sweep
  <1>4. CASE \E c \in inflight : TakesEffect(c)
    BY <1>4, TakesEffectInv
  <1>5. CASE Crash(Helpers) \/ Crash(Threads \ Helpers)
    BY <1>5, CrashInv
  <1>6. CASE UNCHANGED vars
    BY <1>6, CrashesKept DEF vars, lock_vars, hw_vars, LockInv, KindsOK, DepthOK, HeldInv,
                              HeldBy, BayInv, PendingInv, pending
  <1> QED BY <1>1, <1>2, <1>3, <1>4, <1>5, <1>6 DEF Next

LEMMA LockInvariance == Spec => []LockInv
  <1>1. LockInv /\ [Next]_vars => LockInv'
    BY LockKept
  <1> QED BY <1>1, LockStarts, PTL DEF Spec

-----------------------------------------------------------------------------
(***************************************************************************)
(* Theorems about the lock.                                                *)
(***************************************************************************)

\* LockTypeCorrect: enclosure_access() nests two levels at most, and the processor knows of
\* no command that no writer gave.
THEOREM LockTypeCorrect == Spec => []TypeOK
  <1>1. LockInv => TypeOK
    BY DEF LockInv, KindsOK, DepthOK, CrashesOK, TypeOK
  <1> QED BY <1>1, LockInvariance, PTL

\* HoldsNothingOutside: whichever way its sections were left, by an exception, without a
\* lock file, after a time-out or by the death of the process, a thread outside
\* enclosure_access() holds no lock and counts no section.
THEOREM HoldsNothingOutside == Spec => []NothingHeldOutside
  <1>1. LockInv => NothingHeldOutside
    BY DEF LockInv, HeldInv, HeldBy, NothingHeldOutside, Outside
  <1> QED BY <1>1, LockInvariance, PTL

-----------------------------------------------------------------------------
(***************************************************************************)
(* The refinement.  Every step of the lock is one of the shelf, or none.   *)
(***************************************************************************)

ShelfStep == [Shelf!ShelfNext]_(Shelf!shelf_vars)

\* The shelf's side of a step that leaves it alone.
LEMMA ShelfStutters ==
  ASSUME owner' = owner, pending' = pending
  PROVE  ShelfStep
  BY DEF ShelfStep, Shelf!shelf_vars, pending

LEMMA ShelfGiven ==
  ASSUME owner \in Threads, owner' = None, pending' = {}
  PROVE  ShelfStep
  BY DEF ShelfStep, Shelf!ShelfNext, Shelf!Give, pending

LEMMA ShelfTaken ==
  ASSUME NEW t \in Threads, owner = None, owner' = t, pending' = pending
  PROVE  ShelfStep
  BY DEF ShelfStep, Shelf!ShelfNext, Shelf!Take, pending

LEMMA SectionRefines ==
  ASSUME LockInv, NEW t \in Threads, Section(t)
  PROVE  ShelfStep
  <1>1. CASE Enter(t)
    BY <1>1, ShelfStutters DEF Enter, lock_vars, hw_vars, pending
  <1>2. CASE Acquire(t)
    BY <1>2, ShelfTaken DEF Acquire, Acquires, Free, hw_vars, pending
  <1>3. CASE GoUnsynchronised(t)
    BY <1>3, ShelfStutters DEF GoUnsynchronised, TimesOut, hw_vars, pending
  <1>4. CASE Exit(t)
    <2>1. CASE owner = t
      <3>1. owner' = None
        BY <1>4, <2>1, Leaving DEF LockInv, DepthOK, HeldInv, HeldBy, Exit
      <3>2. pending' = {}
        BY <1>4, <2>1 DEF LockInv, KindsOK, PendingInv, pending, Exit, Abandons
      <3> QED BY <2>1, <3>1, <3>2, ShelfGiven
    <2>2. CASE owner # t
      <3>1. owner' = owner
        BY <1>4, <2>2 DEF Exit, Leaves, Released, Releases
      <3>2. pending' = pending
        BY <1>4, <2>2 DEF LockInv, KindsOK, PendingInv, pending, Exit, Abandons
      <3> QED BY <3>1, <3>2, ShelfStutters
    <2> QED BY <2>1, <2>2
  <1> QED BY <1>1, <1>2, <1>3, <1>4 DEF Section

\* A command is the shelf's only if the outer section of its writer got the lock.
LEMMA CommandRefines ==
  ASSUME LockInv, NEW w \in Writers, Command(w)
  PROVE  ShelfStep
  <1> DEFINE c == <<w, bay[w]>>
  <1>0. w \in Threads /\ c \in Writers \X Slots /\ c[1] = w
    BY DEF LockInv, BayInv, Command
  <1>1. owner' = owner
    BY DEF Command, lock_vars
  <1>2. CASE owner = w /\ depth[w] = 2
    <2>1. pending' = pending \cup {c}
      BY <1>2 DEF Command, pending
    <2>2. Shelf!Issue(w, c)
      BY <1>0, <1>1, <1>2, <2>1 DEF Shelf!Issue, pending
    <2> QED BY <1>0, <2>2 DEF ShelfStep, Shelf!ShelfNext
  <1>3. CASE ~(owner = w /\ depth[w] = 2)
    <2>1. pending' = pending \ {c}
      BY <1>3 DEF Command, pending
    <2>2. Shelf!Settle(c)
      BY <1>1, <2>1 DEF Shelf!Settle, pending
    <2> QED BY <1>0, <2>2 DEF ShelfStep, Shelf!ShelfNext
  <1> QED BY <1>2, <1>3

LEMMA WriteRefines ==
  ASSUME LockInv, NEW w \in Writers, Write(w)
  PROVE  ShelfStep
  <1>0. w \in Threads
    OBVIOUS
  <1>1. CASE Nest(w)
    BY <1>1, ShelfStutters DEF Nest, hw_vars, pending
  <1>2. CASE NestAcquire(w)
    BY <1>0, <1>2, ShelfTaken DEF NestAcquire, Acquires, Free, hw_vars, pending
  <1>3. CASE NestGoUnsynchronised(w)
    BY <1>3, ShelfStutters DEF NestGoUnsynchronised, TimesOut, hw_vars, pending
  <1>4. CASE Command(w)
    BY <1>4, CommandRefines
  <1>5. CASE NestExit(w)
    <2>0. pending' = pending
      BY <1>5 DEF NestExit, hw_vars, pending
    <2>1. CASE Releases(w)
      <3>1. owner = w /\ owner' = None /\ depth[w] = 1
        BY <1>5, <2>1 DEF NestExit, Leaves, Released, Releases
      <3>2. pending = {}
        BY <1>5, <3>1 DEF LockInv, PendingInv, NestExit
      <3> QED BY <1>0, <2>0, <3>1, <3>2, ShelfGiven
    <2>2. CASE ~Releases(w)
      BY <1>5, <2>0, <2>2, ShelfStutters DEF NestExit, Leaves, Released
    <2> QED BY <2>1, <2>2
  <1>6. CASE CommandFails(w)
    BY <1>0, <1>6, FailedPending, ShelfGiven, ShelfStutters
  <1>7. CASE Settled(w)
    BY <1>7, ShelfStutters DEF Settled, lock_vars, hw_vars, pending
  <1> QED BY <1>1, <1>2, <1>3, <1>4, <1>5, <1>6, <1>7 DEF Write

LEMMA NextRefines ==
  ASSUME LockInv, [Next]_vars
  PROVE  ShelfStep
  <1>1. CASE \E t \in Threads : Section(t)
    BY <1>1, SectionRefines
  <1>2. CASE \E w \in Writers : Write(w)
    BY <1>2, WriteRefines
  <1>3. CASE \E r \in Sweepers : Sweep(r)
    BY <1>3, ShelfStutters DEF Sweep, ReadSlot, lock_vars, hw_vars, pending
  <1>4. CASE \E c \in inflight : TakesEffect(c)
    <2> PICK c \in inflight : TakesEffect(c)
      BY <1>4
    <2>1. c \in Writers \X Slots
      BY DEF LockInv, KindsOK
    <2>2. Shelf!Settle(c)
      BY DEF TakesEffect, lock_vars, Shelf!Settle
    <2> QED BY <2>1, <2>2 DEF ShelfStep, Shelf!ShelfNext
  <1>5. CASE Crash(Helpers) \/ Crash(Threads \ Helpers)
    <2> PICK dead \in SUBSET Threads : Crash(dead)
      BY <1>5
    <2>1. CASE owner \in dead
      BY <2>1, CrashPending, ShelfGiven
    <2>2. CASE owner \notin dead
      BY <2>2, CrashPending, ShelfStutters
    <2> QED BY <2>1, <2>2
  <1>6. CASE UNCHANGED vars
    BY <1>6, ShelfStutters DEF vars, lock_vars, hw_vars, pending
  <1> QED BY <1>1, <1>2, <1>3, <1>4, <1>5, <1>6 DEF Next

\* LockIsTheShelf: the flock of enclosure_access(), shared by the threads of two
\* processes, with nested sections, waits that time out, lock files that cannot be
\* opened, commands that fail late and deaths, implements ExclusiveShelf: nobody gets
\* the lock while a command of the one who has it has not settled (access.py:1-8).
THEOREM LockIsTheShelf == Spec => ImplementsExclusiveShelf
  <1>1. Init => Shelf!ShelfInit
    BY DEF Init, Shelf!ShelfInit
  <1>2. LockInv /\ [Next]_vars => ShelfStep
    BY NextRefines
  <1> QED BY <1>1, <1>2, LockInvariance, PTL
        DEF Spec, ShelfStep, ImplementsExclusiveShelf, Shelf!ShelfSpec

HIDE Kinds

-----------------------------------------------------------------------------
(***************************************************************************)
(* The chassis poll: what may be left of an earlier one.                   *)
(***************************************************************************)

Excused(e) ==
  \/ outcome[e] = "no_sg_ses"
  \/ outcome[e] \in {"no_sg", "not_listed"} /\ AnotherAnswered(e)

\* A poll has done with the enclosures it has listed and not left.
Done(e) == refs[e] # "not_listed" /\ e \notin left

\* Of an enclosure it has asked, the dict of a poll holds something new or marked.
Collecting ==
  Polling =>
    \A e \in Enclosures :
      /\ e \in left => collected[e] = chassis[e]
      /\ e \in answered => refs[e] = "sg" /\ e \notin left /\ collected[e] = NewReading
      /\ (e \notin answered /\ refs[e] = "sg" /\ e \notin left) =>
           (collected[e] # Missing => collected[e].stale)

\* The maps of those the poll has come to are new or gone.
Mapping ==
  Polling =>
    \A e \in Enclosures : Done(e) =>
      /\ e \notin answered => sas_by_slot[e] = Missing
      /\ e \in answered /\ polled # e => sas_by_slot[e] # "old"

\* Nothing has a map that has no telemetry.
MapNeedsReading ==
  /\ ~Polling => \A e \in Enclosures : sas_by_slot[e] # Missing => chassis[e] # Missing
  /\ Polling => \A e \in Enclosures : sas_by_slot[e] # Missing => collected[e] # Missing

AtRest == ~Polling => answered = {} /\ polled = Missing

AskedAnswered == polled # Missing => Polling /\ polled \in answered

ChassisInv ==
  /\ ChassisTypeOK /\ OldNeedsAnExcuse /\ OldMapIsOfTheUnlisted
  /\ Collecting /\ Mapping /\ MapNeedsReading /\ AtRest /\ AskedAnswered

-----------------------------------------------------------------------------
(***************************************************************************)
(* A step on the inductive invariant, action by action.                    *)
(***************************************************************************)

\* The constant tells absence from what it is the absence of.
LEMMA MissingIsNone ==
  /\ Missing \notin Readings /\ Missing \notin Enclosures
  /\ Missing \notin [Enclosures -> Listings]
  /\ Missing # "new" /\ Missing # "old"
  BY ChassisAssumption DEF ChassisAssumption

USE MissingIsNone

\* New telemetry, and what marking does to it.
LEMMA Marking ==
  /\ NewReading \in Readings /\ ~NewReading.old
  /\ \A r \in Readings : /\ [r EXCEPT !.stale = TRUE] \in Readings
                         /\ [r EXCEPT !.stale = TRUE].stale
  BY DEF NewReading, Readings

LEMMA ChassisStarts == ChassisInit => ChassisInv
  <1> HAVE ChassisInit
  <1>1. ChassisTypeOK
    BY DEF ChassisInit, ChassisTypeOK, Nowhere, Listings, Outcomes
  <1>2. OldNeedsAnExcuse /\ OldMapIsOfTheUnlisted
    BY DEF ChassisInit, OldNeedsAnExcuse, OldMapIsOfTheUnlisted, PassesForNew, Nowhere
  <1>3. Collecting /\ Mapping /\ MapNeedsReading /\ AtRest /\ AskedAnswered
    BY DEF ChassisInit, Collecting, Mapping, MapNeedsReading, AtRest, AskedAnswered, Polling,
           Nowhere
  <1> QED BY <1>1, <1>2, <1>3 DEF ChassisInv

\* What no poll writes leaves the invariant alone.
LEMMA WorldInv ==
  ASSUME ChassisInv, Discover \/ ToolComesOrGoes
  PROVE  ChassisInv'
  <1>0. UNCHANGED <<chassis, sas_by_slot, poll_vars, outcome>>
    BY DEF Discover, ToolComesOrGoes
  <1>1. ChassisTypeOK'
    BY DEF ChassisInv, ChassisTypeOK, Discover, ToolComesOrGoes, poll_vars
  <1>2. OldNeedsAnExcuse' /\ OldMapIsOfTheUnlisted'
    BY <1>0 DEF ChassisInv, OldNeedsAnExcuse, OldMapIsOfTheUnlisted, PassesForNew, AnotherAnswered
  <1>3. Collecting' /\ Mapping' /\ MapNeedsReading' /\ AtRest' /\ AskedAnswered'
    BY <1>0 DEF ChassisInv, Collecting, Mapping, MapNeedsReading, AtRest, AskedAnswered, Polling,
                Done, poll_vars
  <1> QED BY <1>1, <1>2, <1>3 DEF ChassisInv

LEMMA AgedType ==
  ASSUME NEW readings \in [Enclosures -> Readings \cup {Missing}], NEW fresh
  PROVE  /\ Aged(readings, fresh) \in [Enclosures -> Readings \cup {Missing}]
         /\ \A e \in Enclosures :
              /\ Aged(readings, fresh)[e] = Missing <=> readings[e] = Missing
              /\ readings[e] # Missing => Aged(readings, fresh)[e].stale = readings[e].stale
              /\ e \in fresh => Aged(readings, fresh)[e] = readings[e]
  <1>1. \A r \in Readings : /\ [r EXCEPT !.old = TRUE] \in Readings
                            /\ [r EXCEPT !.old = TRUE].stale = r.stale
    BY DEF Readings
  <1> QED BY <1>1 DEF Aged

LEMMA MarkedType ==
  ASSUME NEW readings \in [Enclosures -> Readings \cup {Missing}]
  PROVE  /\ Marked(readings) \in [Enclosures -> Readings \cup {Missing}]
         /\ \A e \in Enclosures :
              /\ Marked(readings)[e] = Missing <=> readings[e] = Missing
              /\ readings[e] # Missing => Marked(readings)[e].stale
  BY Marking DEF Marked

LEMMA NoToolInv ==
  ASSUME ChassisInv, NoTool
  PROVE  ChassisInv'
  <1>1. ChassisTypeOK'
    BY AgedType DEF ChassisInv, ChassisTypeOK, NoTool, Nowhere, Outcomes, poll_vars
  <1>2. OldNeedsAnExcuse' /\ OldMapIsOfTheUnlisted'
    BY DEF NoTool, OldNeedsAnExcuse, OldMapIsOfTheUnlisted, Nowhere
  <1>3. Collecting' /\ Mapping' /\ MapNeedsReading' /\ AtRest' /\ AskedAnswered'
    BY DEF ChassisInv, NoTool, Collecting, Mapping, MapNeedsReading, AtRest, AskedAnswered, Polling,
           Nowhere, poll_vars
  <1> QED BY <1>1, <1>2, <1>3 DEF ChassisInv

LEMMA StartPollInv ==
  ASSUME ChassisInv, StartPoll
  PROVE  ChassisInv'
  <1>1. ChassisTypeOK'
    BY DEF ChassisInv, ChassisTypeOK, StartPoll
  <1>2. OldNeedsAnExcuse' /\ OldMapIsOfTheUnlisted'
    BY DEF ChassisInv, StartPoll, OldNeedsAnExcuse, OldMapIsOfTheUnlisted, PassesForNew,
           AnotherAnswered
  <1>3. Polling'
    BY DEF ChassisInv, ChassisTypeOK, StartPoll, Polling
  <1>4. \A e \in Enclosures : refs'[e] = "not_listed" \/ e \in left'
    BY DEF StartPoll
  <1>5. Collecting' /\ Mapping'
    BY <1>4 DEF StartPoll, Collecting, Mapping, Done
  <1>6. MapNeedsReading' /\ AtRest' /\ AskedAnswered'
    BY <1>3 DEF ChassisInv, StartPoll, MapNeedsReading, AtRest, AskedAnswered, Polling
  <1> QED BY <1>1, <1>2, <1>5, <1>6 DEF ChassisInv

LEMMA NoDeviceInv ==
  ASSUME ChassisInv, NEW e \in Enclosures, NoDevice(e)
  PROVE  ChassisInv'
  <1>0. /\ Polling /\ Polling' /\ e \in left /\ left' = left \ {e} /\ refs[e] = "no_sg"
        /\ sas_by_slot' = [sas_by_slot EXCEPT ![e] = Missing]
        /\ UNCHANGED <<chassis, polled, refs, collected, answered, outcome>>
    BY DEF NoDevice, ComesTo, Polling, Without
  <1>1. ChassisTypeOK'
    BY <1>0 DEF ChassisInv, ChassisTypeOK, NoDevice
  <1>2. OldNeedsAnExcuse' /\ OldMapIsOfTheUnlisted'
    BY <1>0 DEF ChassisInv, ChassisTypeOK, OldNeedsAnExcuse, OldMapIsOfTheUnlisted, PassesForNew,
                AnotherAnswered
  <1>3. Collecting' /\ Mapping'
    BY <1>0 DEF ChassisInv, ChassisTypeOK, Collecting, Mapping, Done
  <1>4. MapNeedsReading' /\ AtRest' /\ AskedAnswered'
    BY <1>0 DEF ChassisInv, ChassisTypeOK, MapNeedsReading, AtRest, AskedAnswered
  <1> QED BY <1>1, <1>2, <1>3, <1>4 DEF ChassisInv

LEMMA ReadTelemetryInv ==
  ASSUME ChassisInv, NEW e \in Enclosures, ReadTelemetry(e)
  PROVE  ChassisInv'
  <1>0. /\ Polling /\ Polling' /\ e \in left /\ left' = left \ {e} /\ refs[e] = "sg"
        /\ polled = Missing /\ polled' = e
        /\ collected' = [collected EXCEPT ![e] = NewReading]
        /\ answered' = answered \cup {e}
        /\ UNCHANGED <<chassis, refs, sas_by_slot, outcome>>
    BY DEF ReadTelemetry, ComesTo, Polling
  <1>1. NewReading \in Readings
    BY Marking
  <1>2. ChassisTypeOK'
    BY <1>0, <1>1 DEF ChassisInv, ChassisTypeOK, ReadTelemetry
  <1>3. OldNeedsAnExcuse' /\ OldMapIsOfTheUnlisted'
    BY <1>0 DEF ChassisInv, OldNeedsAnExcuse, OldMapIsOfTheUnlisted, PassesForNew, AnotherAnswered
  <1>4. Collecting' /\ Mapping'
    BY <1>0 DEF ChassisInv, ChassisTypeOK, Collecting, Mapping, Done
  <1>5. MapNeedsReading' /\ AtRest' /\ AskedAnswered'
    BY <1>0, <1>1 DEF ChassisInv, ChassisTypeOK, MapNeedsReading, AtRest, AskedAnswered
  <1> QED BY <1>2, <1>3, <1>4, <1>5 DEF ChassisInv

LEMMA TelemetryFailsInv ==
  ASSUME ChassisInv, NEW e \in Enclosures, TelemetryFails(e)
  PROVE  ChassisInv'
  <1>0. /\ Polling /\ Polling' /\ e \in left /\ left' = left \ {e} /\ refs[e] = "sg"
        /\ polled = Missing /\ sas_by_slot' = [sas_by_slot EXCEPT ![e] = Missing]
        /\ UNCHANGED <<polled, refs, answered, outcome>>
    BY DEF TelemetryFails, ComesTo, Polling, Without
  <1>1. collected[e] = chassis[e]
    BY <1>0 DEF ChassisInv, Collecting
  <1>2. /\ collected' \in [Enclosures -> Readings \cup {Missing}]
        /\ chassis' \in [Enclosures -> Readings \cup {Missing}]
        /\ \A f \in Enclosures : f # e => collected'[f] = collected[f] /\ chassis'[f] = chassis[f]
        /\ collected[e] = Missing => collected'[e] = Missing /\ chassis'[e] = Missing
        /\ collected[e] # Missing => collected'[e] # Missing
        /\ collected'[e] # Missing => collected'[e].stale
        /\ chassis'[e] # Missing => chassis'[e].stale
    <2>1. CASE collected[e] = Missing
      BY <1>1, <2>1 DEF TelemetryFails, ChassisInv, ChassisTypeOK
    <2>2. CASE collected[e] # Missing
      <3>1. /\ collected' = [collected EXCEPT ![e] = [collected[e] EXCEPT !.stale = TRUE]]
            /\ chassis' = [chassis EXCEPT ![e] = [chassis[e] EXCEPT !.stale = TRUE]]
            /\ collected[e] \in Readings
        BY <2>2 DEF TelemetryFails, ChassisInv, ChassisTypeOK
      <3> QED BY <1>1, <2>2, <3>1, Marking DEF ChassisInv, ChassisTypeOK
    <2> QED BY <2>1, <2>2
  <1>3. ChassisTypeOK'
    BY <1>0, <1>2 DEF ChassisInv, ChassisTypeOK, TelemetryFails
  <1>4. OldNeedsAnExcuse' /\ OldMapIsOfTheUnlisted'
    BY <1>0, <1>2 DEF ChassisInv, ChassisTypeOK, OldNeedsAnExcuse, OldMapIsOfTheUnlisted,
                      PassesForNew, AnotherAnswered
  <1>5. Collecting' /\ Mapping'
    BY <1>0, <1>2 DEF ChassisInv, ChassisTypeOK, Collecting, Mapping, Done
  <1>6. MapNeedsReading' /\ AtRest' /\ AskedAnswered'
    BY <1>0, <1>2 DEF ChassisInv, ChassisTypeOK, MapNeedsReading, AtRest, AskedAnswered
  <1> QED BY <1>3, <1>4, <1>5, <1>6 DEF ChassisInv

LEMMA AddressesInv ==
  ASSUME ChassisInv, ReadSlotAddresses \/ SlotAddressesFail
  PROVE  ChassisInv'
  <1>0. PICK map \in {"new", Missing} :
          /\ Polling /\ Polling' /\ polled \in answered /\ polled' = Missing
          /\ polled \in Enclosures
          /\ sas_by_slot' = [sas_by_slot EXCEPT ![polled] = map]
          /\ UNCHANGED <<chassis, refs, left, collected, answered, outcome>>
    BY DEF ChassisInv, AskedAnswered, ChassisTypeOK, ReadSlotAddresses, SlotAddressesFail, Without,
           Polling
  <1>1. ChassisTypeOK'
    BY <1>0 DEF ChassisInv, ChassisTypeOK, ReadSlotAddresses, SlotAddressesFail
  <1>2. OldNeedsAnExcuse' /\ OldMapIsOfTheUnlisted'
    BY <1>0 DEF ChassisInv, ChassisTypeOK, OldNeedsAnExcuse, OldMapIsOfTheUnlisted, PassesForNew,
                AnotherAnswered
  <1>3. Collecting' /\ Mapping'
    BY <1>0 DEF ChassisInv, ChassisTypeOK, Collecting, Mapping, Done
  <1>4. collected[polled] # Missing
    BY <1>0, Marking DEF ChassisInv, Collecting
  <1>5. MapNeedsReading' /\ AtRest' /\ AskedAnswered'
    BY <1>0, <1>4 DEF ChassisInv, ChassisTypeOK, MapNeedsReading, AtRest, AskedAnswered
  <1> QED BY <1>1, <1>2, <1>3, <1>5 DEF ChassisInv

\* What a poll leaves behind that read something ...
LEMMA FinishRead ==
  ASSUME ChassisInv, FinishPoll, ReadAny, NEW e \in Enclosures
  PROVE  /\ PassesForNew(e)' => outcome'[e] \in {"no_sg", "not_listed"} /\ AnotherAnswered(e)'
         /\ sas_by_slot'[e] = "old" => outcome'[e] = "not_listed" /\ AnotherAnswered(e)'
         /\ sas_by_slot'[e] # Missing => chassis'[e] # Missing
  <1>0. /\ Polling /\ polled = Missing /\ left = {}
        /\ chassis' = Aged(collected, answered)
        /\ sas_by_slot' = AgedMaps(sas_by_slot, answered)
        /\ outcome' = [f \in Enclosures |->
                   IF f \in answered THEN "read"
                   ELSE IF refs[f] = "sg" THEN "failed" ELSE refs[f]]
    BY DEF FinishPoll
  <1>1. refs \in [Enclosures -> Listings] /\ answered \subseteq Enclosures
    BY <1>0 DEF ChassisInv, ChassisTypeOK, Polling
  <1>2. e \notin answered => AnotherAnswered(e)'
    BY <1>0, <1>1 DEF ReadAny, AnotherAnswered
  <1>3. CASE e \in answered
    <2>1. collected[e] = NewReading /\ sas_by_slot[e] # "old"
      BY <1>0, <1>3 DEF ChassisInv, Collecting, Mapping, Done
    <2>2. chassis'[e] = NewReading
      BY <1>0, <1>3, <2>1 DEF Aged
    <2>3. ~PassesForNew(e)' /\ chassis'[e] # Missing
      BY <2>2, Marking DEF PassesForNew
    <2>4. sas_by_slot'[e] # "old"
      BY <1>0, <1>3, <2>1 DEF AgedMaps
    <2> QED BY <2>3, <2>4
  <1>4. CASE e \notin answered
    <2>1. outcome'[e] = IF refs[e] = "sg" THEN "failed" ELSE refs[e]
      BY <1>0, <1>4
    <2>2. PassesForNew(e)' => refs[e] # "sg"
      BY <1>0, <1>4, AgedType DEF ChassisInv, ChassisTypeOK, Collecting, PassesForNew
    <2>3. sas_by_slot'[e] # Missing => refs[e] = "not_listed"
      BY <1>0, <1>4 DEF ChassisInv, Mapping, Done, AgedMaps
    <2>4. sas_by_slot'[e] # Missing => chassis'[e] # Missing
      BY <1>0, <1>4, AgedType DEF ChassisInv, ChassisTypeOK, MapNeedsReading, AgedMaps
    <2> QED BY <1>1, <1>2, <1>4, <2>1, <2>2, <2>3, <2>4 DEF Listings
  <1> QED BY <1>3, <1>4

\* ... and one that did not.
LEMMA FinishUnread ==
  ASSUME ChassisInv, FinishPoll, ~ReadAny, NEW e \in Enclosures
  PROVE  ~PassesForNew(e)' /\ sas_by_slot'[e] = Missing
  <1>0. /\ Polling /\ chassis' = Aged(Marked(chassis), {})
        /\ \/ collected = Nowhere(Missing) /\ sas_by_slot' = AgedMaps(sas_by_slot, {})
           \/ sas_by_slot' = Nowhere(Missing)
    BY DEF FinishPoll
  <1>1. ~PassesForNew(e)'
    BY <1>0, MarkedType, AgedType DEF ChassisInv, ChassisTypeOK, PassesForNew
  <1>2. sas_by_slot'[e] = Missing
    BY <1>0 DEF ChassisInv, MapNeedsReading, Nowhere, AgedMaps
  <1> QED BY <1>1, <1>2

LEMMA FinishPollInv ==
  ASSUME ChassisInv, FinishPoll
  PROVE  ChassisInv'
  <1>0. ~Polling' /\ answered' = {} /\ polled' = Missing
    BY DEF FinishPoll, Polling
  <1>1. ChassisTypeOK'
    <2>1. chassis' \in [Enclosures -> Readings \cup {Missing}]
      BY AgedType, MarkedType DEF ChassisInv, ChassisTypeOK, FinishPoll
    <2>2. sas_by_slot' \in [Enclosures -> {"new", "old", Missing}]
      BY DEF ChassisInv, ChassisTypeOK, FinishPoll, AgedMaps, Nowhere
    <2>3. outcome' \in [Enclosures -> Outcomes]
      BY DEF ChassisInv, ChassisTypeOK, FinishPoll, Polling, Outcomes, Listings
    <2> QED BY <2>1, <2>2, <2>3 DEF ChassisInv, ChassisTypeOK, FinishPoll, Nowhere
  <1>2. OldNeedsAnExcuse'
    BY FinishRead, FinishUnread DEF OldNeedsAnExcuse
  <1>3. OldMapIsOfTheUnlisted'
    BY FinishRead, FinishUnread DEF OldMapIsOfTheUnlisted
  <1>4. MapNeedsReading'
    BY <1>0, FinishRead, FinishUnread DEF MapNeedsReading
  <1>5. Collecting' /\ Mapping' /\ AtRest' /\ AskedAnswered'
    BY <1>0 DEF Collecting, Mapping, AtRest, AskedAnswered
  <1> QED BY <1>1, <1>2, <1>3, <1>4, <1>5 DEF ChassisInv

LEMMA ChassisKept ==
  ASSUME ChassisInv, [ChassisNext]_chassis_vars
  PROVE  ChassisInv'
  <1>1. CASE Discover \/ ToolComesOrGoes
    BY <1>1, WorldInv
  <1>2. CASE NoTool
    BY <1>2, NoToolInv
  <1>3. CASE StartPoll
    BY <1>3, StartPollInv
  <1>4. CASE \E e \in Enclosures : NoDevice(e) \/ ReadTelemetry(e) \/ TelemetryFails(e)
    BY <1>4, NoDeviceInv, ReadTelemetryInv, TelemetryFailsInv
  <1>5. CASE ReadSlotAddresses \/ SlotAddressesFail
    BY <1>5, AddressesInv
  <1>6. CASE FinishPoll
    BY <1>6, FinishPollInv
  <1>7. CASE UNCHANGED chassis_vars
    BY <1>7 DEF chassis_vars, poll_vars, ChassisInv, ChassisTypeOK, OldNeedsAnExcuse,
                OldMapIsOfTheUnlisted, PassesForNew, AnotherAnswered, Collecting, Mapping, Done,
                MapNeedsReading, AtRest, AskedAnswered, Polling
  <1> QED BY <1>1, <1>2, <1>3, <1>4, <1>5, <1>6, <1>7 DEF ChassisNext

LEMMA ChassisInvariance == ChassisSpec => []ChassisInv
  <1>1. ChassisInv /\ [ChassisNext]_chassis_vars => ChassisInv'
    BY ChassisKept
  <1> QED BY <1>1, ChassisStarts, PTL DEF ChassisSpec

-----------------------------------------------------------------------------
(***************************************************************************)
(* Theorems about the chassis poll.                                        *)
(***************************************************************************)

\* ChassisTypeCorrect: the caches and the locals of poll_chassis() keep their types.
THEOREM ChassisTypeCorrect == ChassisSpec => []ChassisTypeOK
  <1>1. ChassisInv => ChassisTypeOK
    BY DEF ChassisInv
  <1> QED BY <1>1, ChassisInvariance, PTL

\* StaleReadingsAreExcused: telemetry that the last poll_chassis() did not obtain is
\* marked, unless sg_ses was missing or the poll went on to read another enclosure and
\* had not asked this one.
THEOREM StaleReadingsAreExcused == ChassisSpec => []OldNeedsAnExcuse
  <1>1. ChassisInv => OldNeedsAnExcuse
    BY DEF ChassisInv
  <1> QED BY <1>1, ChassisInvariance, PTL

\* MapsAreDropped: no map of SAS addresses outlives a poll_chassis() that had the
\* enclosure on its list and did not read the map (state.py:412-415).
THEOREM MapsAreDropped == ChassisSpec => []OldMapIsOfTheUnlisted
  <1>1. ChassisInv => OldMapIsOfTheUnlisted
    BY DEF ChassisInv
  <1> QED BY <1>1, ChassisInvariance, PTL

HIDE MissingIsNone

-----------------------------------------------------------------------------
(***************************************************************************)
(* The rate limiter.                                                       *)
(***************************************************************************)

\* Who has taken a time is not older than Delay.
TimesTaken ==
  \A c \in Callers : now[c] # NotNow =>
    /\ calling[c] \in Addresses
    /\ now[c] \in Times /\ now[c] <= clock /\ clock - now[c] <= Delay

\* What no window that is still open can hold has been forgotten, and nothing else.
HitsAreRecent ==
  \A a \in Addresses :
    /\ hits[a] \subseteq admitted[a]
    /\ \A h \in admitted[a] :
         /\ h.time <= clock
         /\ clock - h.time < Window => h \in hits[a]

\* The number of an attempt is a new one.
Numbered ==
  \A a \in Addresses :
    /\ IsFiniteSet(admitted[a])
    /\ \A h \in admitted[a] : h.nth <= Cardinality(admitted[a])

\* Nobody checks at a time when pruning is overdue, and a pruning leaves what is young.
PrunedInTime ==
  /\ last_prune <= clock /\ checked <= clock
  /\ checked - last_prune < Window
  /\ \A a \in Addresses :
       hits[a] # {} => \E h \in hits[a] : last_prune - h.time <= Window

LimiterInv ==
  /\ LimiterTypeOK /\ TimesTaken /\ HitsAreRecent /\ Numbered /\ PrunedInTime
  /\ LimitHoldsUpToDelay

LEMMA LimiterStarts == LimiterInit => LimiterInv
<1> SUFFICES ASSUME LimiterInit PROVE LimiterInv
  OBVIOUS
<1> USE LimiterAssumption DEF LimiterAssumption, LimiterInit
<1>1. LimiterTypeOK
  BY DEF LimiterTypeOK, Times
<1>2. TimesTaken /\ HitsAreRecent
  BY DEF TimesTaken, HitsAreRecent
<1>3. Numbered
  BY FS_EmptySet DEF Numbered
<1>4. PrunedInTime
  BY DEF PrunedInTime
<1>5. LimitHoldsUpToDelay
  <2> SUFFICES ASSUME NEW a \in Addresses, NEW t \in Times
               PROVE  Cardinality(Within(admitted[a], t, t + Window - Delay)) <= Attempts
    BY DEF LimitHoldsUpToDelay
  <2>1. Within(admitted[a], t, t + Window - Delay) = {}
    BY DEF Within
  <2> QED BY <2>1, FS_EmptySet
<1> QED BY <1>1, <1>2, <1>3, <1>4, <1>5 DEF LimiterInv

LEMMA TickKeeps == LimiterInv /\ Tick => LimiterInv'
<1> SUFFICES ASSUME LimiterInv, Tick PROVE LimiterInv'
  OBVIOUS
<1> USE LimiterAssumption DEF LimiterAssumption, LimiterInv, Tick
<1>1. LimiterTypeOK'
  BY DEF LimiterTypeOK, Times
<1>2. TimesTaken'
  BY DEF LimiterTypeOK, TimesTaken, Times
<1>3. HitsAreRecent'
  BY DEF LimiterTypeOK, HitsAreRecent, Times, Hits
<1>4. Numbered'
  BY DEF Numbered
<1>5. PrunedInTime'
  BY DEF LimiterTypeOK, PrunedInTime, Times
<1>6. LimitHoldsUpToDelay'
  BY DEF LimitHoldsUpToDelay, Times
<1> QED BY <1>1, <1>2, <1>3, <1>4, <1>5, <1>6

LEMMA CallKeeps ==
  ASSUME LimiterInv, NEW c \in Callers, NEW a \in Addresses, Call(c, a)
  PROVE  LimiterInv'
<1> USE LimiterAssumption DEF LimiterAssumption, LimiterInv, Call
<1>1. LimiterTypeOK'
  BY DEF LimiterTypeOK, Times
<1>2. TimesTaken'
  BY DEF LimiterTypeOK, TimesTaken, Times
<1>3. HitsAreRecent' /\ Numbered' /\ PrunedInTime'
  BY DEF HitsAreRecent, Numbered, PrunedInTime
<1>4. LimitHoldsUpToDelay'
  BY DEF LimitHoldsUpToDelay
<1> QED BY <1>1, <1>2, <1>3, <1>4

LEMMA ResetKeeps ==
  ASSUME LimiterInv, NEW a \in Addresses, Reset(a)
  PROVE  LimiterInv'
<1> USE LimiterAssumption DEF LimiterAssumption, LimiterInv, Reset
<1>1. LimiterTypeOK'
  BY DEF LimiterTypeOK
<1>2. TimesTaken'
  BY DEF TimesTaken
<1>3. HitsAreRecent'
  BY DEF LimiterTypeOK, HitsAreRecent
<1>4. Numbered'
  BY FS_EmptySet DEF LimiterTypeOK, Numbered
<1>5. PrunedInTime'
  BY DEF LimiterTypeOK, PrunedInTime
<1>6. LimitHoldsUpToDelay'
  <2> SUFFICES ASSUME NEW b \in Addresses, NEW t \in Times
               PROVE  Cardinality(Within(admitted'[b], t, t + Window - Delay)) <= Attempts
    BY DEF LimitHoldsUpToDelay
  <2>1. CASE b = a
    <3>1. Within(admitted'[b], t, t + Window - Delay) = {}
      BY <2>1 DEF LimiterTypeOK, Within
    <3>2. Cardinality({}) = 0
      BY FS_EmptySet
    <3>3. Cardinality(Within(admitted'[b], t, t + Window - Delay)) = 0
      BY <3>1, <3>2
    <3> QED BY <3>3
  <2>2. CASE b # a
    BY <2>2 DEF LimiterTypeOK, LimitHoldsUpToDelay
  <2> QED BY <2>1, <2>2
<1> QED BY <1>1, <1>2, <1>3, <1>4, <1>5, <1>6

\* What a check has before it: the recent attempts are all that its windows can hold.
LEMMA PruningKeeps ==
  ASSUME LimiterInv, NEW c \in Callers, now[c] # NotNow
  PROVE  /\ Pruned(now[c]) \in [Addresses -> SUBSET Hits]
         /\ \A a \in Addresses :
              /\ Pruned(now[c])[a] \subseteq hits[a]
              /\ \A h \in hits[a] : now[c] - h.time < Window => h \in Pruned(now[c])[a]
              /\ PruneDue(now[c]) /\ Pruned(now[c])[a] # {} =>
                   \E h \in Pruned(now[c])[a] : now[c] - h.time < Window
              /\ ~PruneDue(now[c]) => Pruned(now[c])[a] = hits[a]
<1> USE DEF LimiterInv, LimiterTypeOK
<1>1. CASE ~PruneDue(now[c])
  BY <1>1 DEF Pruned
<1>2. CASE PruneDue(now[c])
  <2>1. Pruned(now[c]) =
          [a \in Addresses |-> IF Recent(hits[a], now[c]) = {} THEN {} ELSE hits[a]]
    BY <1>2 DEF Pruned
  <2> QED BY <1>2, <2>1 DEF Recent
<1> QED BY <1>1, <1>2

\* The fields of an attempt are numbers.
LEMMA AttemptsAreHits ==
  ASSUME LimiterTypeOK, NEW a \in Addresses, NEW h \in admitted[a]
  PROVE  h.time \in Nat /\ h.nth \in Nat
<1>1. h \in Hits
  BY DEF LimiterTypeOK
<1> QED BY <1>1, LimiterAssumption DEF Hits, Times, LimiterAssumption

\* A check: what its attempt may overrun, it has counted.
LEMMA CheckKeeps ==
  ASSUME LimiterInv, NEW c \in Callers, Check(c)
  PROVE  LimiterInv'
<1> DEFINE a == calling[c]
           t == now[c]
           recent == Recent(Pruned(t)[a], t)
           new == Attempt(a, t)
<1>1. /\ t # NotNow /\ a \in Addresses /\ t \in Times /\ clock \in Times
      /\ t <= clock /\ clock - t <= Delay
  BY DEF LimiterInv, TimesTaken, Check, LimiterTypeOK
<1>2. /\ hits \in [Addresses -> SUBSET Hits] /\ admitted \in [Addresses -> SUBSET Hits]
      /\ now \in [Callers -> Times \cup {NotNow}]
      /\ calling \in [Callers -> Addresses \cup {NotNow}]
      /\ last_prune \in Times /\ checked \in Times
  BY DEF LimiterInv, LimiterTypeOK
<1>3. /\ Attempts \in Nat \ {0} /\ Window \in Nat \ {0} /\ MaxClock \in Nat
      /\ Delay \in Nat /\ Delay <= Window /\ NotNow \notin Times /\ Times \subseteq Nat
  BY LimiterAssumption DEF LimiterAssumption, Times
<1>4. /\ Pruned(t) \in [Addresses -> SUBSET Hits]
      /\ \A b \in Addresses :
           /\ Pruned(t)[b] \subseteq hits[b]
           /\ \A h \in hits[b] : t - h.time < Window => h \in Pruned(t)[b]
           /\ PruneDue(t) /\ Pruned(t)[b] # {} =>
                \E h \in Pruned(t)[b] : t - h.time < Window
           /\ ~PruneDue(t) => Pruned(t)[b] = hits[b]
  BY <1>1, PruningKeeps
<1>5. /\ IsFiniteSet(admitted[a]) /\ Cardinality(admitted[a]) \in Nat
      /\ \A h \in admitted[a] : h.nth <= Cardinality(admitted[a])
  BY <1>1, FS_CardinalityType DEF LimiterInv, Numbered
<1>6. new \in Hits /\ new.time = t /\ new.nth = Cardinality(admitted[a]) + 1
  BY <1>1, <1>5 DEF Attempt, Hits
<1>7. new \notin admitted[a]
  BY <1>2, <1>1, <1>5, <1>6 DEF Hits
<1>8. /\ recent \subseteq Pruned(t)[a]
      /\ \A h \in admitted[a] : clock - h.time < Window => h \in recent
  <2>1. recent \subseteq Pruned(t)[a]
    BY DEF Recent
  <2> SUFFICES ASSUME NEW h \in admitted[a], clock - h.time < Window
               PROVE  h \in recent
    BY <2>1
  <2>2. h.time \in Nat /\ t \in Nat /\ clock \in Nat
    BY <1>1, <1>3, AttemptsAreHits DEF LimiterInv
  <2>3. t - h.time < Window /\ h \in hits[a]
    BY <2>2, <1>1, <1>3 DEF LimiterInv, HitsAreRecent
  <2> QED BY <2>2, <2>3, <1>1, <1>4 DEF Recent
<1> HIDE DEF recent, new
<1>9. /\ last_prune' = IF PruneDue(t) THEN t ELSE last_prune
      /\ checked' = t /\ UNCHANGED clock
      /\ now' = [now EXCEPT ![c] = NotNow] /\ calling' = [calling EXCEPT ![c] = NotNow]
  BY DEF Check
<1>10. /\ last_prune' \in Times /\ last_prune' <= clock /\ t - last_prune' < Window
       /\ last_prune' - t <= Delay
  BY <1>1, <1>2, <1>3, <1>9 DEF LimiterInv, PrunedInTime, PruneDue
<1>11. TimesTaken'
  BY <1>1, <1>2, <1>3, <1>9 DEF LimiterInv, TimesTaken
<1>12. \A b \in Addresses : Pruned(t)[b] # {} =>
         \E h \in Pruned(t)[b] : last_prune' - h.time <= Window
  <2> SUFFICES ASSUME NEW b \in Addresses, Pruned(t)[b] # {}
               PROVE  \E h \in Pruned(t)[b] : last_prune' - h.time <= Window
    OBVIOUS
  <2>1. CASE PruneDue(t)
    <3>1. PICK h \in Pruned(t)[b] : t - h.time < Window
      BY <2>1, <1>4
    <3>2. h.time \in Nat /\ t \in Nat
      <4>1. h \in admitted[b]
        BY <1>4 DEF LimiterInv, HitsAreRecent
      <4> QED BY <4>1, <1>1, <1>3, AttemptsAreHits DEF LimiterInv
    <3>3. last_prune' = t
      BY <2>1, <1>9
    <3>4. last_prune' - h.time <= Window
      BY <3>1, <3>2, <3>3, <1>1, <1>3
    <3> QED BY <3>4
  <2>2. CASE ~PruneDue(t)
    BY <2>2, <1>4, <1>9 DEF LimiterInv, PrunedInTime
  <2> QED BY <2>1, <2>2
<1>13. CASE HasRoom(recent)
  <2>1. /\ hits' = [Pruned(t) EXCEPT ![a] = recent \cup {new}]
        /\ admitted' = [admitted EXCEPT ![a] = @ \cup {new}]
    BY <1>13 DEF Check, recent, new
  <2>2. /\ hits'[a] = recent \cup {new} /\ admitted'[a] = admitted[a] \cup {new}
        /\ \A b \in Addresses \ {a} :
             hits'[b] = Pruned(t)[b] /\ admitted'[b] = admitted[b]
    BY <2>1, <1>1, <1>2, <1>4
  <2>3. LimiterTypeOK'
    <3>1. hits' \in [Addresses -> SUBSET Hits] /\ admitted' \in [Addresses -> SUBSET Hits]
      BY <2>1, <1>1, <1>2, <1>4, <1>6, <1>8
    <3> QED BY <3>1, <1>1, <1>2, <1>9, <1>10 DEF LimiterTypeOK
  <2>4. HitsAreRecent'
    <3> SUFFICES ASSUME NEW b \in Addresses
                 PROVE  /\ hits'[b] \subseteq admitted'[b]
                        /\ \A h \in admitted'[b] :
                             /\ h.time <= clock
                             /\ clock - h.time < Window => h \in hits'[b]
      BY <1>9 DEF HitsAreRecent
    <3>1. CASE b = a
      BY <3>1, <2>2, <1>1, <1>4, <1>6, <1>8 DEF LimiterInv, HitsAreRecent
    <3>2. CASE b # a
      <4>1. \A h \in admitted[b] : h.time \in Nat
        BY AttemptsAreHits DEF LimiterInv
      <4> QED BY <4>1, <3>2, <2>2, <1>1, <1>3, <1>4 DEF LimiterInv, HitsAreRecent
    <3> QED BY <3>1, <3>2
  <2>5. IsFiniteSet(admitted'[a]) /\ Cardinality(admitted'[a]) = Cardinality(admitted[a]) + 1
    BY <2>2, <1>5, <1>7, FS_AddElement
  <2>6. Numbered'
    <3> SUFFICES ASSUME NEW b \in Addresses
                 PROVE  /\ IsFiniteSet(admitted'[b])
                        /\ \A h \in admitted'[b] : h.nth <= Cardinality(admitted'[b])
      BY DEF Numbered
    <3>1. CASE b = a
      <4>1. \A h \in admitted[a] : h.nth \in Nat
        BY <1>1, AttemptsAreHits DEF LimiterInv
      <4>2. \A h \in admitted'[a] :
              h \in admitted[a] \/ h.nth = Cardinality(admitted[a]) + 1
        BY <2>2, <1>6
      <4>3. \A h \in admitted'[a] : h.nth <= Cardinality(admitted[a]) + 1
        BY <4>1, <4>2, <1>5
      <4> QED BY <4>3, <3>1, <2>5
    <3>2. CASE b # a
      BY <3>2, <2>2 DEF LimiterInv, Numbered
    <3> QED BY <3>1, <3>2
  <2>7. PrunedInTime'
    <3>1. \A b \in Addresses :
            hits'[b] # {} => \E h \in hits'[b] : last_prune' - h.time <= Window
      <4> SUFFICES ASSUME NEW b \in Addresses, hits'[b] # {}
                   PROVE  \E h \in hits'[b] : last_prune' - h.time <= Window
        OBVIOUS
      <4>1. CASE b = a
        <5>1. new \in hits'[b]
          BY <4>1, <2>2
        <5>2. last_prune' \in Nat /\ new.time \in Nat /\ new.time = t
          BY <1>1, <1>3, <1>6, <1>10
        <5>3. last_prune' - new.time <= Window
          BY <5>2, <1>3, <1>10
        <5> QED BY <5>1, <5>3
      <4>2. CASE b # a
        BY <4>2, <2>2, <1>12
      <4> QED BY <4>1, <4>2
    <3> QED BY <3>1, <1>1, <1>9, <1>10 DEF PrunedInTime
  <2>8. LimitHoldsUpToDelay'
    <3> SUFFICES ASSUME NEW b \in Addresses, NEW u \in Times
                 PROVE  Cardinality(Within(admitted'[b], u, u + Window - Delay)) <= Attempts
      BY DEF LimitHoldsUpToDelay
    <3>1. CASE b # a \/ ~(u <= t /\ t < u + Window - Delay)
      <4>1. Within(admitted'[b], u, u + Window - Delay)
              = Within(admitted[b], u, u + Window - Delay)
        BY <3>1, <2>2, <1>6 DEF Within
      <4> QED BY <4>1 DEF LimiterInv, LimitHoldsUpToDelay
    <3>2. CASE b = a /\ u <= t /\ t < u + Window - Delay
      <4> DEFINE before == Within(admitted[a], u, u + Window - Delay)
      <4>1. Within(admitted'[b], u, u + Window - Delay) = before \cup {new}
        BY <3>2, <2>2, <1>6 DEF Within
      <4>2. before \subseteq recent
        <5> SUFFICES ASSUME NEW h \in before PROVE h \in recent
          OBVIOUS
        <5>1. h \in admitted[a] /\ u <= h.time
          BY DEF Within
        <5>2. h.time \in Nat
          BY <5>1, <1>1, AttemptsAreHits DEF LimiterInv
        <5>3. u \in Nat /\ t \in Nat /\ clock \in Nat
          BY <1>1, <1>3
        <5>4. clock - h.time < Window
          BY <5>1, <5>2, <5>3, <3>2, <1>1, <1>3
        <5> QED BY <5>1, <5>4, <1>8
      <4>3. IsFiniteSet(recent)
        <5>1. recent \subseteq admitted[a]
          BY <1>1, <1>4, <1>8 DEF LimiterInv, HitsAreRecent
        <5> QED BY <5>1, <1>5, FS_Subset
      <4>4. IsFiniteSet(before) /\ Cardinality(before) <= Cardinality(recent)
        BY <4>2, <4>3, FS_Subset
      <4>5. /\ Cardinality(recent) \in Nat /\ Cardinality(before) \in Nat
            /\ Cardinality(before \cup {new}) \in Nat
            /\ Cardinality(before \cup {new}) <= Cardinality(before) + 1
        <5> HIDE DEF before, new, recent
        <5>1. Cardinality(recent) \in Nat /\ Cardinality(before) \in Nat
          BY <4>3, <4>4, FS_CardinalityType
        <5>2. Cardinality(before \cup {new}) =
                IF new \in before THEN Cardinality(before) ELSE Cardinality(before) + 1
          BY <4>4, FS_AddElement
        <5> QED BY <5>1, <5>2
      <4>6. Cardinality(recent) < Attempts
        BY <1>13 DEF HasRoom
      <4>7. Cardinality(before \cup {new}) <= Attempts
        <5> HIDE DEF before
        <5> QED BY <4>4, <4>5, <4>6, <1>3
      <4> QED BY <4>1, <4>7
    <3> QED BY <3>1, <3>2
  <2> QED BY <2>3, <2>4, <2>6, <2>7, <2>8, <1>11 DEF LimiterInv
<1>14. CASE ~HasRoom(recent)
  <2>1. hits' = Pruned(t) /\ UNCHANGED admitted
    BY <1>14 DEF Check, recent
  <2>2. LimiterTypeOK'
    BY <2>1, <1>1, <1>2, <1>4, <1>9, <1>10 DEF LimiterTypeOK
  <2>3. HitsAreRecent'
    <3>1. \A b \in Addresses : \A h \in admitted[b] : h.time \in Nat
      BY AttemptsAreHits DEF LimiterInv
    <3> SUFFICES ASSUME NEW b \in Addresses
                 PROVE  /\ hits'[b] \subseteq admitted'[b]
                        /\ \A h \in admitted'[b] :
                             /\ h.time <= clock
                             /\ clock - h.time < Window => h \in hits'[b]
      BY <1>9 DEF HitsAreRecent
    <3>2. hits'[b] = Pruned(t)[b] /\ admitted'[b] = admitted[b]
      BY <2>1
    <3>3. hits'[b] \subseteq admitted'[b]
      BY <3>2, <1>4 DEF LimiterInv, HitsAreRecent
    <3>4. ASSUME NEW h \in admitted[b], clock - h.time < Window
          PROVE  h \in Pruned(t)[b]
      <4>1. h.time \in Nat /\ t \in Nat /\ clock \in Nat /\ t - h.time < Window
        BY <3>1, <3>4, <1>1, <1>3
      <4> QED BY <3>4, <4>1, <1>4 DEF LimiterInv, HitsAreRecent
    <3>5. \A h \in admitted[b] : h.time <= clock
      BY DEF LimiterInv, HitsAreRecent
    <3> QED BY <3>2, <3>3, <3>4, <3>5
  <2>4. Numbered'
    BY <2>1 DEF LimiterInv, Numbered
  <2>5. PrunedInTime'
    BY <2>1, <1>1, <1>9, <1>10, <1>12 DEF PrunedInTime
  <2>6. LimitHoldsUpToDelay'
    BY <2>1 DEF LimiterInv, LimitHoldsUpToDelay
  <2> QED BY <2>2, <2>3, <2>4, <2>5, <2>6, <1>11 DEF LimiterInv
<1> QED BY <1>13, <1>14

LEMMA LimiterStep == LimiterInv /\ [LimiterNext]_limiter_vars => LimiterInv'
<1> SUFFICES ASSUME LimiterInv, [LimiterNext]_limiter_vars PROVE LimiterInv'
  OBVIOUS
<1>1. CASE UNCHANGED limiter_vars
  BY <1>1 DEF limiter_vars, LimiterInv, LimiterTypeOK, TimesTaken, HitsAreRecent, Numbered,
              PrunedInTime, LimitHoldsUpToDelay
<1>2. CASE LimiterNext
  BY <1>2, TickKeeps, CallKeeps, CheckKeeps, ResetKeeps DEF LimiterNext
<1> QED BY <1>1, <1>2

\* An address that is remembered was seen within the last two windows.
LEMMA LimiterInvIsEnough == LimiterInv => LimiterHolds
<1> SUFFICES ASSUME LimiterInv PROVE OldAddressesGo
  BY DEF LimiterInv, LimiterHolds
<1> SUFFICES ASSUME NEW a \in Addresses, hits[a] # {}
             PROVE  \E h \in hits[a] : checked - h.time < 2 * Window
  BY DEF OldAddressesGo
<1>1. PICK h \in hits[a] : last_prune - h.time <= Window
  BY DEF LimiterInv, PrunedInTime
<1>2. /\ h.time \in Nat /\ checked \in Nat /\ last_prune \in Nat /\ Window \in Nat
      /\ checked - last_prune < Window
  BY LimiterAssumption
  DEF LimiterAssumption, LimiterInv, LimiterTypeOK, PrunedInTime, Hits, Times
<1> QED BY <1>1, <1>2

\* AttemptsAreLimited: whoever of an address calls, no window (less the delay between a
\* caller's look at the clock and its check) admits more than Attempts, and no address is
\* remembered for longer than two windows (services/auth.py, check() and _prune()).
THEOREM AttemptsAreLimited == LimiterSpec => []LimiterHolds
<1>1. LimiterSpec => []LimiterInv
  BY LimiterStarts, LimiterStep, PTL DEF LimiterSpec
<1> QED BY <1>1, LimiterInvIsEnough, PTL

\* LimiterTypeCorrect: the limiter's tables and its callers' places have their types.
THEOREM LimiterTypeCorrect == LimiterSpec => []LimiterTypeOK
<1>1. LimiterSpec => []LimiterInv
  BY LimiterStarts, LimiterStep, PTL DEF LimiterSpec
<1>2. LimiterInv => LimiterTypeOK
  BY DEF LimiterInv
<1> QED BY <1>1, <1>2, PTL

-----------------------------------------------------------------------------
(***************************************************************************)
(* The audit log.                                                          *)
(***************************************************************************)

InLock == {"locked", "rotating", "appending"}

\* The lock: one recorder between it and the end of its append.
Exclusive ==
  \A q, r \in Recorders : recording[q] \in InLock /\ recording[r] \in InLock => q = r

\* Nobody else writes between the look at the size and what follows from it.
SizeHolds ==
  \A r \in Recorders :
    /\ recording[r] = "rotating" => current # NoFile /\ Len(content[current]) >= Full
    /\ recording[r] = "appending" /\ ~unrotated =>
         current = NoFile \/ Len(content[current]) < Full

\* An entry under way is its recorder's alone and not in the log yet.
EntriesAreNew ==
  /\ \A g \in DOMAIN content : \A k \in 1..Len(content[g]) : content[g][k] <= built
  /\ \A r \in Recorders : recording[r] # "idle" =>
       /\ entry[r] \in 1..built
       /\ \A q \in Recorders \ {r} : recording[q] # "idle" => entry[q] # entry[r]
       /\ \A g \in DOMAIN content : \A k \in 1..Len(content[g]) : content[g][k] # entry[r]

WrittenOnce ==
  \A g \in DOMAIN content : \A i, k \in 1..Len(content[g]) :
    content[g][i] \in AllEntries /\ content[g][i] = content[g][k] => i = k

\* What was acknowledged is there, as long as there is somebody to look at it.
AckedIsWritten ==
  \A n \in AllEntries, g \in DOMAIN content :
    <<n, g>> \in acked => \E k \in 1..Len(content[g]) : content[g][k] = n

\* A view is of lines that are still where they were.
ViewsAgree ==
  \A v \in Viewers :
    /\ viewing[v].at # "away" =>
         viewing[v].generation \in DOMAIN content /\ viewing[v].before \subseteq acked
    /\ viewing[v].at = "shown" =>
         \A n \in AllEntries, k \in 1..Len(content[viewing[v].generation]) :
           /\ <<n, viewing[v].generation>> \in viewing[v].before
           /\ content[viewing[v].generation][k] = n
           /\ viewing[v].lines - k < Limit
           => n \in Entries(viewing[v].shown)

AuditInv ==
  /\ AuditTypeOK /\ Exclusive /\ SizeHolds /\ EntriesAreNew /\ WrittenOnce /\ AckedIsWritten
  /\ ViewsAgree /\ OnlyOldEntriesGo

-----------------------------------------------------------------------------

\* What a line does to a file: it is added, or sticks to a torn one.
LEMMA LineAdded ==
  ASSUME NEW lines \in Seq(Lines), NEW line \in Lines
  PROVE  /\ WithLine(lines, line) \in Seq(Lines)
         /\ EndsTorn(lines) =>
              /\ Len(lines) > 0 /\ lines[Len(lines)] = Torn
              /\ Len(WithLine(lines, line)) = Len(lines)
              /\ WithLine(lines, line)[Len(lines)] \in {Torn, Glued}
         /\ ~EndsTorn(lines) =>
              /\ Len(WithLine(lines, line)) = Len(lines) + 1
              /\ WithLine(lines, line)[Len(lines) + 1] = line
         /\ \A k \in 1..Len(lines) :
              lines[k] # Torn \/ k < Len(lines) => WithLine(lines, line)[k] = lines[k]
<1>1. Torn \in Lines /\ Glued \in Lines
  BY DEF Lines
<1>2. CASE ~EndsTorn(lines)
  <2>1. WithLine(lines, line) = Append(lines, line)
    BY <1>2 DEF WithLine
  <2> QED BY <1>2, <2>1, AppendProperties
<1>3. CASE EndsTorn(lines)
  <2>1. Len(lines) \in Nat /\ Len(lines) > 0 /\ lines[Len(lines)] = Torn
    BY <1>3 DEF EndsTorn
  <2>2. PICK last \in {Torn, Glued} :
          WithLine(lines, line) = [lines EXCEPT ![Len(lines)] = last]
    BY <1>3 DEF WithLine
  <2>3. /\ WithLine(lines, line) \in Seq(Lines)
        /\ Len(WithLine(lines, line)) = Len(lines)
        /\ \A k \in 1..Len(lines) :
             WithLine(lines, line)[k] = IF k = Len(lines) THEN last ELSE lines[k]
    BY <1>1, <2>1, <2>2, ExceptSeq
  <2> QED BY <1>3, <2>1, <2>3
<1> QED BY <1>2, <1>3

LEMMA LastLinesAre ==
  ASSUME NEW lines \in Seq(Lines), NEW n \in 0..Len(lines)
  PROVE  /\ LastLines(lines, n) \in Seq(Lines)
         /\ Len(LastLines(lines, n)) = n
         /\ \A k \in 1..n : LastLines(lines, n)[k] = lines[Len(lines) - n + k]
<1>1. Len(lines) \in Nat
  OBVIOUS
<1> QED BY <1>1, SubSeqProperties DEF LastLines

\* A window ends as the file does, for as long as Limit.
LEMMA WindowEnds ==
  ASSUME NEW lines \in Seq(Lines), NEW window \in Windows(lines)
  PROVE  /\ window \in Seq(Lines)
         /\ \A age \in 0..(Limit - 1) : age < Len(lines) =>
              /\ age < Len(window)
              /\ window[Len(window) - age] = lines[Len(lines) - age]
<1>1. Limit \in Nat \ {0} /\ Len(lines) \in Nat /\ Glued \in Lines
  BY AuditAssumption DEF AuditAssumption, Lines
<1>2. \A n \in 0..Len(lines) :
        /\ LastLines(lines, n) \in Seq(Lines)
        /\ Len(LastLines(lines, n)) = n
        /\ \A k \in 1..n : LastLines(lines, n)[k] = lines[Len(lines) - n + k]
  BY LastLinesAre
<1>3. ASSUME Enough(Newlines(window)), window \in Seq(Lines)
      PROVE  Len(window) > Limit
  BY <1>1, <1>3 DEF Enough, Newlines
<1>4. CASE window = lines
  BY <1>1, <1>4
<1>5. ASSUME NEW n \in 0..Len(lines), window = LastLines(lines, n), Enough(Newlines(window))
      PROVE  /\ window \in Seq(Lines)
             /\ \A age \in 0..(Limit - 1) : age < Len(lines) =>
                  /\ age < Len(window)
                  /\ window[Len(window) - age] = lines[Len(lines) - age]
  <2>1. window \in Seq(Lines) /\ Len(window) = n
        /\ \A k \in 1..n : window[k] = lines[Len(lines) - n + k]
    BY <1>2, <1>5
  <2>2. n > Limit
    BY <1>3, <1>5, <2>1
  <2>3. \A age \in 0..(Limit - 1) : n - age \in 1..n /\ Len(lines) - n + (n - age) = Len(lines) - age
    BY <1>1, <2>2
  <2> QED BY <1>1, <2>1, <2>2, <2>3
<1>6. ASSUME NEW n \in 0..(Len(lines) - 1), window = <<Glued>> \o LastLines(lines, n),
             Enough(Newlines(window))
      PROVE  /\ window \in Seq(Lines)
             /\ \A age \in 0..(Limit - 1) : age < Len(lines) =>
                  /\ age < Len(window)
                  /\ window[Len(window) - age] = lines[Len(lines) - age]
  <2>1. /\ LastLines(lines, n) \in Seq(Lines) /\ Len(LastLines(lines, n)) = n
        /\ \A k \in 1..n : LastLines(lines, n)[k] = lines[Len(lines) - n + k]
    BY <1>1, <1>2
  <2>2. /\ window \in Seq(Lines) /\ Len(window) = n + 1
        /\ \A k \in 1..n : window[k + 1] = lines[Len(lines) - n + k]
    BY <1>1, <1>6, <2>1
  <2>3. n >= Limit
    BY <1>1, <1>3, <1>6, <2>2
  <2>4. \A age \in 0..(Limit - 1) :
          /\ n - age \in 1..n /\ (n - age) + 1 = Len(window) - age
          /\ Len(lines) - n + (n - age) = Len(lines) - age
    BY <1>1, <2>2, <2>3
  <2> QED BY <1>1, <2>2, <2>3, <2>4
<1> QED BY <1>4, <1>5, <1>6 DEF Windows

\* A view has the entries among the last Limit lines of its window.
LEMMA ViewHasTheLast ==
  ASSUME NEW window \in Seq(Lines)
  PROVE  /\ Shown(window) \in UNION {[ages -> AllEntries] : ages \in SUBSET (0..(Limit - 1))}
         /\ \A age \in 0..(Limit - 1) :
              age < Len(window) /\ window[Len(window) - age] \in AllEntries =>
                window[Len(window) - age] \in Entries(Shown(window))
<1> DEFINE last == IF Len(window) <= Limit THEN window ELSE LastLines(window, Limit)
           ages == {k \in 0..(Len(last) - 1) : last[Len(last) - k] \in AllEntries}
<1>1. Limit \in Nat \ {0} /\ Len(window) \in Nat
  BY AuditAssumption DEF AuditAssumption
<1>2. /\ last \in Seq(Lines) /\ Len(last) \in Nat /\ Len(last) <= Limit
      /\ \A age \in 0..(Limit - 1) : age < Len(window) =>
           age < Len(last) /\ last[Len(last) - age] = window[Len(window) - age]
  <2>1. CASE Len(window) <= Limit
    BY <1>1, <2>1
  <2>2. CASE Len(window) > Limit
    <3>1. last = LastLines(window, Limit) /\ Limit \in 0..Len(window)
      BY <1>1, <2>2
    <3>2. /\ last \in Seq(Lines) /\ Len(last) = Limit
          /\ \A k \in 1..Limit : last[k] = window[Len(window) - Limit + k]
      BY <3>1, LastLinesAre
    <3>3. \A age \in 0..(Limit - 1) :
            /\ Limit - age \in 1..Limit
            /\ Len(window) - Limit + (Limit - age) = Len(window) - age
      BY <1>1
    <3> QED BY <1>1, <3>2, <3>3
  <2> QED BY <1>1, <2>1, <2>2
<1>3. Shown(window) = [age \in ages |-> last[Len(last) - age]]
  BY DEF Shown
<1> HIDE DEF last
<1>4. ages \in SUBSET (0..(Limit - 1)) /\ Shown(window) \in [ages -> AllEntries]
  BY <1>1, <1>2, <1>3
<1>5. ASSUME NEW age \in 0..(Limit - 1), age < Len(window),
             window[Len(window) - age] \in AllEntries
      PROVE  window[Len(window) - age] \in Entries(Shown(window))
  <2>1. age \in ages /\ Shown(window)[age] = window[Len(window) - age]
    BY <1>1, <1>2, <1>3, <1>5
  <2>2. age \in DOMAIN Shown(window)
    BY <1>4, <2>1
  <2> QED BY <1>5, <2>1, <2>2 DEF Entries
<1> QED BY <1>4, <1>5

-----------------------------------------------------------------------------

LEMMA AuditStarts == AuditInit => AuditInv
<1> SUFFICES ASSUME AuditInit PROVE AuditInv
  OBVIOUS
<1> USE AuditAssumption DEF AuditAssumption, AuditInit
<1>1. AuditTypeOK
  <2>1. content \in Seq(Seq(Lines)) /\ acked \subseteq AllEntries \X DOMAIN content
    OBVIOUS
  <2>2. Away \in Views
    BY DEF Views
  <2>3. viewing \in [Viewers -> Views]
    BY <2>2
  <2>4. recording \in [Recorders -> {"idle"}] /\ entry \in [Recorders -> {0}]
    OBVIOUS
  <2>5. built = 0 /\ 0 \in 0..MaxEntries /\ current = NoFile /\ previous = NoFile
    OBVIOUS
  <2> QED BY <2>1, <2>3, <2>4, <2>5 DEF AuditTypeOK
<1>2. Exclusive /\ SizeHolds /\ EntriesAreNew /\ WrittenOnce /\ AckedIsWritten
  BY DEF Exclusive, InLock, SizeHolds, EntriesAreNew, WrittenOnce, AckedIsWritten
<1>3. ViewsAgree /\ OnlyOldEntriesGo
  BY DEF ViewsAgree, OnlyOldEntriesGo, Away
<1> QED BY <1>1, <1>2, <1>3 DEF AuditInv

\* Steps that leave the files alone keep what is said of them alone.
LEMMA FilesKeep ==
  ASSUME AuditInv, UNCHANGED <<content, acked>>, built' >= built, built' \in Nat
  PROVE  /\ WrittenOnce' /\ AckedIsWritten'
         /\ \A g \in DOMAIN content' : \A k \in 1..Len(content'[g]) : content'[g][k] <= built'
<1>1. WrittenOnce' /\ AckedIsWritten'
  BY DEF AuditInv, WrittenOnce, AckedIsWritten
<1>2. \A g \in DOMAIN content : \A k \in 1..Len(content[g]) : content[g][k] \in Int
  BY AuditAssumption
  DEF AuditInv, AuditTypeOK, Lines, AllEntries, Torn, Glued, AuditAssumption
<1> QED BY <1>1, <1>2 DEF AuditInv, EntriesAreNew, AuditTypeOK

LEMMA BuildKeeps == ASSUME AuditInv, NEW r \in Recorders, Build(r) PROVE AuditInv'
<1>1. AuditTypeOK'
  BY AuditAssumption DEF AuditAssumption, AuditInv, AuditTypeOK, Build, Moves, log_vars
<1>2. Exclusive' /\ SizeHolds'
  BY DEF AuditInv, AuditTypeOK, Exclusive, InLock, SizeHolds, Build, Moves, log_vars
<1>3. /\ built \in Nat /\ built' = built + 1 /\ UNCHANGED <<log_vars, acked, viewing>>
      /\ entry' = [entry EXCEPT ![r] = built + 1]
      /\ recording' = [recording EXCEPT ![r] = "built"] /\ recording[r] = "idle"
  BY AuditAssumption DEF AuditAssumption, AuditInv, AuditTypeOK, Build, Moves
<1>4. /\ WrittenOnce' /\ AckedIsWritten'
      /\ \A g \in DOMAIN content' : \A k \in 1..Len(content'[g]) : content'[g][k] <= built'
  BY <1>3, FilesKeep DEF log_vars
<1>5. EntriesAreNew'
  <2> SUFFICES ASSUME NEW q \in Recorders, recording'[q] # "idle"
               PROVE  /\ entry'[q] \in 1..built'
                      /\ \A p \in Recorders \ {q} : recording'[p] # "idle" => entry'[p] # entry'[q]
                      /\ \A g \in DOMAIN content' : \A k \in 1..Len(content'[g]) :
                           content'[g][k] # entry'[q]
    BY <1>4 DEF EntriesAreNew
  <2>1. CASE q = r
    <3>1. entry'[q] = built + 1
      BY <1>3, <2>1 DEF AuditInv, AuditTypeOK
    <3>2. \A p \in Recorders \ {q} : recording'[p] # "idle" => entry'[p] \in 1..built
      BY <1>3, <2>1 DEF AuditInv, AuditTypeOK, EntriesAreNew
    <3>3. \A g \in DOMAIN content : \A k \in 1..Len(content[g]) : content[g][k] <= built
      BY DEF AuditInv, EntriesAreNew
    <3> QED BY <1>3, <3>1, <3>2, <3>3 DEF log_vars
  <2>2. CASE q # r
    <3>1. entry'[q] = entry[q] /\ recording[q] # "idle"
      BY <1>3, <2>2 DEF AuditInv, AuditTypeOK
    <3>2. entry[q] \in 1..built
      BY <3>1 DEF AuditInv, EntriesAreNew
    <3>3. ASSUME NEW p \in Recorders \ {q}, recording'[p] # "idle"
          PROVE  entry'[p] # entry'[q]
      <4>1. CASE p = r
        BY <1>3, <3>1, <3>2, <4>1 DEF AuditInv, AuditTypeOK
      <4>2. CASE p # r
        BY <1>3, <3>1, <3>3, <4>2 DEF AuditInv, AuditTypeOK, EntriesAreNew
      <4> QED BY <4>1, <4>2
    <3>4. \A g \in DOMAIN content : \A k \in 1..Len(content[g]) : content[g][k] # entry[q]
      BY <3>1 DEF AuditInv, EntriesAreNew
    <3> QED BY <1>3, <3>1, <3>2, <3>3, <3>4 DEF log_vars
  <2> QED BY <2>1, <2>2
<1>6. ViewsAgree'
  BY <1>3 DEF AuditInv, ViewsAgree, log_vars
<1>7. OnlyOldEntriesGo'
  BY DEF AuditInv, OnlyOldEntriesGo, Build, log_vars
<1> QED BY <1>1, <1>2, <1>4, <1>5, <1>6, <1>7 DEF AuditInv

\* Taking the lock, and the look at the size.
LEMMA LockKeeps == ASSUME AuditInv, NEW r \in Recorders, Lock(r) PROVE AuditInv'
<1> USE DEF Lock, Moves, log_vars
<1>1. AuditTypeOK'
  BY DEF AuditInv, AuditTypeOK
<1>2. Exclusive'
  BY DEF AuditInv, AuditTypeOK, Exclusive, InLock, LockFree
<1>3. SizeHolds'
  BY DEF AuditInv, AuditTypeOK, SizeHolds
<1>4. EntriesAreNew'
  BY DEF AuditInv, AuditTypeOK, EntriesAreNew
<1>5. WrittenOnce' /\ AckedIsWritten'
  BY DEF AuditInv, WrittenOnce, AckedIsWritten
<1>6. ViewsAgree' /\ OnlyOldEntriesGo'
  BY DEF AuditInv, ViewsAgree, OnlyOldEntriesGo
<1> QED BY <1>1, <1>2, <1>3, <1>4, <1>5, <1>6 DEF AuditInv

LEMMA CheckSizeKeeps == ASSUME AuditInv, NEW r \in Recorders, CheckSize(r) PROVE AuditInv'
<1> USE DEF CheckSize, Moves, log_vars
<1>1. AuditTypeOK'
  BY DEF AuditInv, AuditTypeOK
<1>2. Exclusive'
  BY DEF AuditInv, AuditTypeOK, Exclusive, InLock
<1>3. SizeHolds'
  <2> SUFFICES ASSUME NEW q \in Recorders
               PROVE  /\ recording'[q] = "rotating" =>
                           current # NoFile /\ Len(content[current]) >= Full
                      /\ recording'[q] = "appending" /\ ~unrotated =>
                           current = NoFile \/ Len(content[current]) < Full
    BY DEF SizeHolds
  <2>1. CASE q = r
    <3>1. current # NoFile => Len(content[current]) \in Nat /\ Full \in Nat
      BY AuditAssumption DEF AuditAssumption, AuditInv, AuditTypeOK
    <3> QED BY <2>1, <3>1 DEF AuditInv, AuditTypeOK
  <2>2. CASE q # r
    BY <2>2 DEF AuditInv, AuditTypeOK, SizeHolds
  <2> QED BY <2>1, <2>2
<1>4. EntriesAreNew'
  BY DEF AuditInv, AuditTypeOK, EntriesAreNew
<1>5. WrittenOnce' /\ AckedIsWritten'
  BY DEF AuditInv, WrittenOnce, AckedIsWritten
<1>6. ViewsAgree' /\ OnlyOldEntriesGo'
  BY DEF AuditInv, ViewsAgree, OnlyOldEntriesGo
<1> QED BY <1>1, <1>2, <1>3, <1>4, <1>5, <1>6 DEF AuditInv

LEMMA RotateKeeps == ASSUME AuditInv, NEW r \in Recorders, Rotate(r) PROVE AuditInv'
<1> USE DEF Rotate, Moves
<1>1. AuditTypeOK'
  BY DEF AuditInv, AuditTypeOK
<1>2. Exclusive'
  BY DEF AuditInv, AuditTypeOK, Exclusive, InLock
<1>3. current # NoFile /\ Len(content[current]) >= Full
  BY DEF AuditInv, SizeHolds
<1>4. SizeHolds'
  <2> SUFFICES ASSUME NEW q \in Recorders
               PROVE  /\ recording'[q] = "rotating" =>
                           current' # NoFile /\ Len(content'[current']) >= Full
                      /\ recording'[q] = "appending" /\ ~unrotated' =>
                           current' = NoFile \/ Len(content'[current']) < Full
    BY DEF SizeHolds
  <2>1. CASE q = r
    BY <2>1 DEF AuditInv, AuditTypeOK
  <2>2. CASE q # r
    BY <2>2 DEF AuditInv, AuditTypeOK, Exclusive, InLock
  <2> QED BY <2>1, <2>2
<1>5. EntriesAreNew'
  BY DEF AuditInv, AuditTypeOK, EntriesAreNew
<1>6. WrittenOnce' /\ AckedIsWritten'
  BY DEF AuditInv, WrittenOnce, AckedIsWritten
<1>7. ViewsAgree'
  BY DEF AuditInv, ViewsAgree
<1>8. OnlyOldEntriesGo'
  <2>1. CASE previous' = current /\ current' = NoFile /\ UNCHANGED unrotated
    BY <1>3, <2>1 DEF AuditInv, OnlyOldEntriesGo
  <2>2. CASE unrotated' = TRUE /\ UNCHANGED <<current, previous>>
    BY <2>2 DEF AuditInv, OnlyOldEntriesGo
  <2> QED BY <2>1, <2>2
<1> QED BY <1>1, <1>2, <1>4, <1>5, <1>6, <1>7, <1>8 DEF AuditInv

LEMMA DiesKeeps == ASSUME AuditInv, AuditDies PROVE AuditInv'
<1> USE DEF AuditDies, log_vars
<1>1. AuditTypeOK'
  BY AuditAssumption DEF AuditAssumption, AuditInv, AuditTypeOK, Views
<1>2. Exclusive' /\ SizeHolds'
  BY DEF Exclusive, InLock, SizeHolds
<1>3. EntriesAreNew'
  BY DEF AuditInv, EntriesAreNew
<1>4. WrittenOnce' /\ AckedIsWritten'
  BY DEF AuditInv, WrittenOnce, AckedIsWritten
<1>5. ViewsAgree' /\ OnlyOldEntriesGo'
  BY DEF AuditInv, ViewsAgree, OnlyOldEntriesGo, Away
<1> QED BY <1>1, <1>2, <1>3, <1>4, <1>5 DEF AuditInv

-----------------------------------------------------------------------------

LEMMA TailOpenKeeps == ASSUME AuditInv, NEW v \in Viewers, TailOpen(v) PROVE AuditInv'
<1> USE DEF TailOpen, log_vars
<1>1. viewing'[v] = [at |-> "open", generation |-> current, before |-> acked]
      /\ \A w \in Viewers \ {v} : viewing'[w] = viewing[w]
  BY DEF AuditInv, AuditTypeOK
<1>2. viewing'[v] \in Views
  <2>1. current \in Nat \ {0} /\ acked \in SUBSET (AllEntries \X (Nat \ {0}))
    BY DEF AuditInv, AuditTypeOK
  <2> QED BY <1>1, <2>1 DEF Views
<1>3. AuditTypeOK'
  BY <1>2 DEF AuditInv, AuditTypeOK
<1>4. Exclusive' /\ SizeHolds' /\ EntriesAreNew' /\ WrittenOnce' /\ AckedIsWritten'
  BY DEF AuditInv, Exclusive, SizeHolds, EntriesAreNew, WrittenOnce, AckedIsWritten
<1>5. ViewsAgree'
  <2>1. current \in DOMAIN content
    BY DEF AuditInv, AuditTypeOK
  <2> QED BY <1>1, <2>1 DEF AuditInv, ViewsAgree
<1>6. OnlyOldEntriesGo'
  BY DEF AuditInv, OnlyOldEntriesGo
<1> QED BY <1>3, <1>4, <1>5, <1>6 DEF AuditInv

LEMMA TailReadKeeps == ASSUME AuditInv, NEW v \in Viewers, TailRead(v) PROVE AuditInv'
<1> DEFINE g == viewing[v].generation
           lines == content[g]
<1>1. PICK window \in Windows(lines) :
        viewing' = [viewing EXCEPT ![v] =
          [at |-> "shown", generation |-> @.generation, before |-> @.before,
           lines |-> Len(lines), shown |-> Shown(window)]]
  BY DEF TailRead
<1>2. viewing[v].at = "open" /\ UNCHANGED <<content, current, previous, recording, entry, built, acked, unrotated>>
  BY DEF TailRead, log_vars
<1>3. g \in DOMAIN content /\ lines \in Seq(Lines) /\ viewing[v].before \subseteq acked
  <2>1. viewing[v].at # "away"
    BY <1>2
  <2>2. g \in DOMAIN content /\ viewing[v].before \subseteq acked
    BY <2>1 DEF AuditInv, ViewsAgree
  <2>3. content \in Seq(Seq(Lines))
    BY DEF AuditInv, AuditTypeOK
  <2> QED BY <2>2, <2>3
<1>4. /\ window \in Seq(Lines)
      /\ \A age \in 0..(Limit - 1) : age < Len(lines) =>
           /\ age < Len(window)
           /\ window[Len(window) - age] = lines[Len(lines) - age]
  BY <1>3, WindowEnds
<1>5. /\ Shown(window) \in UNION {[ages -> AllEntries] : ages \in SUBSET (0..(Limit - 1))}
      /\ \A age \in 0..(Limit - 1) :
           age < Len(window) /\ window[Len(window) - age] \in AllEntries =>
             window[Len(window) - age] \in Entries(Shown(window))
  BY <1>4, ViewHasTheLast
<1>6. /\ viewing'[v] = [at |-> "shown", generation |-> g, before |-> viewing[v].before,
                        lines |-> Len(lines), shown |-> Shown(window)]
      /\ \A w \in Viewers \ {v} : viewing'[w] = viewing[w]
      /\ viewing' = [viewing EXCEPT ![v] = viewing'[v]]
  BY <1>1 DEF AuditInv, AuditTypeOK
<1> HIDE DEF g, lines
<1>7. viewing'[v] \in Views
  <2>1. /\ g \in Nat \ {0} /\ Len(lines) \in Nat
        /\ viewing[v].before \in SUBSET (AllEntries \X (Nat \ {0}))
    BY <1>3 DEF AuditInv, AuditTypeOK
  <2> QED BY <1>5, <1>6, <2>1 DEF Views
<1>8. AuditTypeOK'
  BY <1>2, <1>6, <1>7 DEF AuditInv, AuditTypeOK
<1>9. Exclusive' /\ SizeHolds' /\ EntriesAreNew' /\ WrittenOnce' /\ AckedIsWritten'
  BY <1>2 DEF AuditInv, Exclusive, SizeHolds, EntriesAreNew, WrittenOnce, AckedIsWritten
<1>10. ViewsAgree'
  <2>1. ASSUME NEW k \in 1..Len(lines), lines[k] \in AllEntries, Len(lines) - k < Limit
        PROVE  lines[k] \in Entries(Shown(window))
    <3>1. Len(lines) \in Nat /\ Limit \in Nat
      BY <1>3, AuditAssumption DEF AuditAssumption
    <3>2. Len(lines) - k \in 0..(Limit - 1) /\ Len(lines) - k < Len(lines)
          /\ Len(lines) - (Len(lines) - k) = k
      BY <2>1, <3>1
    <3>3. /\ Len(lines) - k < Len(window)
          /\ window[Len(window) - (Len(lines) - k)] = lines[k]
      BY <1>4, <3>2
    <3> QED BY <1>5, <2>1, <3>2, <3>3
  <2>2. ASSUME NEW w \in Viewers
        PROVE  /\ viewing'[w].at # "away" =>
                    viewing'[w].generation \in DOMAIN content /\ viewing'[w].before \subseteq acked
               /\ viewing'[w].at = "shown" =>
                    \A n \in AllEntries, k \in 1..Len(content[viewing'[w].generation]) :
                      /\ <<n, viewing'[w].generation>> \in viewing'[w].before
                      /\ content[viewing'[w].generation][k] = n
                      /\ viewing'[w].lines - k < Limit
                      => n \in Entries(viewing'[w].shown)
    <3>1. CASE w = v
      <4>1. viewing'[w].generation = g /\ viewing'[w].before = viewing[v].before
            /\ viewing'[w].lines = Len(lines) /\ viewing'[w].shown = Shown(window)
        BY <1>6, <3>1
      <4>2. content[viewing'[w].generation] = lines
        BY <4>1 DEF lines
      <4> QED BY <1>3, <2>1, <4>1, <4>2
    <3>2. CASE w # v
      BY <1>6, <3>2 DEF AuditInv, ViewsAgree
    <3> QED BY <3>1, <3>2
  <2> QED BY <1>2, <2>2 DEF ViewsAgree
<1>11. OnlyOldEntriesGo'
  BY <1>2 DEF AuditInv, OnlyOldEntriesGo
<1> QED BY <1>8, <1>9, <1>10, <1>11 DEF AuditInv

LEMMA TailEndsKeeps == ASSUME AuditInv, NEW v \in Viewers, TailEnds(v) PROVE AuditInv'
<1> USE DEF TailEnds, log_vars
<1>1. AuditTypeOK'
  BY DEF AuditInv, AuditTypeOK, Views
<1>2. Exclusive' /\ SizeHolds' /\ EntriesAreNew' /\ WrittenOnce' /\ AckedIsWritten'
  BY DEF AuditInv, Exclusive, SizeHolds, EntriesAreNew, WrittenOnce, AckedIsWritten
<1>3. ViewsAgree' /\ OnlyOldEntriesGo'
  BY DEF AuditInv, AuditTypeOK, ViewsAgree, OnlyOldEntriesGo, Away
<1> QED BY <1>1, <1>2, <1>3 DEF AuditInv

-----------------------------------------------------------------------------

\* The file that is opened: one of before, or an empty one.
LEMMA OpenedIs ==
  ASSUME AuditTypeOK
  PROVE  /\ Opened \in Seq(Seq(Lines)) /\ Target \in DOMAIN Opened
         /\ DOMAIN content \subseteq DOMAIN Opened
         /\ \A g \in DOMAIN content : Opened[g] = content[g]
         /\ \A g \in DOMAIN Opened \ DOMAIN content : g = Target /\ Opened[g] = <<>>
         /\ current # NoFile => Target = current /\ Opened = content
         /\ current = NoFile => Opened[Target] = <<>> /\ Target \notin DOMAIN content
<1>1. content \in Seq(Seq(Lines)) /\ Len(content) \in Nat
      /\ current \in DOMAIN content \cup {NoFile}
  BY DEF AuditTypeOK
<1>2. CASE current # NoFile
  BY <1>1, <1>2 DEF Opened, Target
<1>3. CASE current = NoFile
  <2>1. Opened = Append(content, <<>>) /\ Target = Len(content) + 1
    BY <1>3 DEF Opened, Target
  <2>2. <<>> \in Seq(Lines)
    OBVIOUS
  <2>3. /\ Opened \in Seq(Seq(Lines)) /\ Len(Opened) = Len(content) + 1
        /\ \A g \in 1..Len(content) : Opened[g] = content[g]
        /\ Opened[Len(content) + 1] = <<>>
    BY <1>1, <2>1, <2>2, AppendProperties
  <2> QED BY <1>1, <1>3, <2>1, <2>3
<1> QED BY <1>2, <1>3

\* What a write, of an entry or of a part of one, makes of the lines of before.
Wrote(r, line) ==
  /\ content' = [Opened EXCEPT ![Target] = WithLine(@, line)]
  /\ current' = Target
  /\ acked' = IF line = Torn \/ EndsTorn(Opened[Target]) THEN acked
              ELSE acked \cup {<<entry[r], Target>>}

LEMMA FileGrows ==
  ASSUME AuditTypeOK, NEW r \in Recorders, NEW line \in {entry[r], Torn},
         entry[r] \in AllEntries, Wrote(r, line)
  PROVE  /\ content' \in Seq(Seq(Lines)) /\ DOMAIN content' = DOMAIN Opened
         /\ \A g \in DOMAIN Opened \ {Target} : content'[g] = Opened[g]
         /\ \A g \in DOMAIN Opened :
              /\ Len(Opened[g]) <= Len(content'[g])
              /\ \A k \in 1..Len(Opened[g]) :
                   Opened[g][k] # Torn => content'[g][k] = Opened[g][k]
         /\ \A g \in DOMAIN Opened : \A k \in 1..Len(content'[g]) :
              \/ k <= Len(Opened[g]) /\ content'[g][k] = Opened[g][k]
              \/ content'[g][k] \in {Torn, Glued}
              \/ /\ g = Target /\ k = Len(Opened[g]) + 1
                 /\ content'[g][k] = entry[r]
         /\ Len(content'[Target]) <= Len(Opened[Target]) + 1
         /\ line # Torn /\ ~EndsTorn(Opened[Target]) =>
              /\ Len(content'[Target]) = Len(Opened[Target]) + 1
              /\ content'[Target][Len(Opened[Target]) + 1] = entry[r]
<1> DEFINE old == Opened[Target]
           new == WithLine(old, line)
<1>1. Opened \in Seq(Seq(Lines)) /\ Target \in DOMAIN Opened /\ line \in Lines
  BY OpenedIs DEF Lines
<1>2. old \in Seq(Lines) /\ Len(old) \in Nat
  BY <1>1
<1>3. /\ new \in Seq(Lines)
      /\ EndsTorn(old) =>
           /\ Len(old) > 0 /\ old[Len(old)] = Torn /\ Len(new) = Len(old)
           /\ new[Len(old)] \in {Torn, Glued}
      /\ ~EndsTorn(old) => Len(new) = Len(old) + 1 /\ new[Len(old) + 1] = line
      /\ \A k \in 1..Len(old) : old[k] # Torn \/ k < Len(old) => new[k] = old[k]
  BY <1>1, <1>2, LineAdded
<1> HIDE DEF old, new
<1>4. content' = [Opened EXCEPT ![Target] = new]
  BY DEF Wrote, old, new
<1>5. /\ content' \in Seq(Seq(Lines)) /\ DOMAIN content' = DOMAIN Opened
      /\ content'[Target] = new /\ \A g \in DOMAIN Opened \ {Target} : content'[g] = Opened[g]
  BY <1>1, <1>3, <1>4
<1>6. Opened[Target] = old
  BY DEF old
<1>7. \A g \in DOMAIN Opened : Len(Opened[g]) \in Nat
  BY <1>1
<1>8. /\ Len(old) <= Len(new) /\ Len(new) <= Len(old) + 1 /\ Len(new) \in Nat
      /\ \A k \in 1..Len(old) : old[k] # Torn => new[k] = old[k]
  BY <1>2, <1>3
<1>9. ASSUME NEW k \in 1..Len(new)
      PROVE  \/ k <= Len(old) /\ new[k] = old[k]
             \/ new[k] \in {Torn, Glued}
             \/ k = Len(old) + 1 /\ new[k] = entry[r]
  <2>1. CASE EndsTorn(old)
    BY <1>2, <1>3, <2>1
  <2>2. CASE ~EndsTorn(old)
    <3>1. CASE k = Len(old) + 1
      BY <1>3, <2>2, <3>1
    <3>2. CASE k # Len(old) + 1
      <4>1. k \in 1..Len(old) /\ Len(old) > 0
        BY <1>2, <1>3, <2>2, <3>2
      <4>2. k = Len(old) => old[k] # Torn
        BY <1>2, <2>2, <4>1 DEF EndsTorn
      <4> QED BY <1>2, <1>3, <4>1, <4>2
    <3> QED BY <3>1, <3>2
  <2> QED BY <2>1, <2>2
<1>10. \A g \in DOMAIN Opened : \A k \in 1..Len(content'[g]) :
         \/ k <= Len(Opened[g]) /\ content'[g][k] = Opened[g][k]
         \/ content'[g][k] \in {Torn, Glued}
         \/ g = Target /\ k = Len(Opened[g]) + 1 /\ content'[g][k] = entry[r]
  <2> TAKE g \in DOMAIN Opened
  <2>1. CASE g = Target
    BY <1>5, <1>6, <1>9, <2>1
  <2>2. CASE g # Target
    <3>1. content'[g] = Opened[g] /\ Len(Opened[g]) \in Nat
      BY <1>5, <1>7, <2>2
    <3> QED BY <3>1
  <2> QED BY <2>1, <2>2
<1>11. \A g \in DOMAIN Opened :
         /\ Len(Opened[g]) <= Len(content'[g])
         /\ \A k \in 1..Len(Opened[g]) :
              Opened[g][k] # Torn => content'[g][k] = Opened[g][k]
  <2> TAKE g \in DOMAIN Opened
  <2>1. CASE g = Target
    BY <1>5, <1>6, <1>8, <2>1
  <2>2. CASE g # Target
    <3>1. content'[g] = Opened[g] /\ Len(Opened[g]) \in Nat
      BY <1>5, <1>7, <2>2
    <3> QED BY <3>1
  <2> QED BY <2>1, <2>2
<1>12. line # Torn /\ ~EndsTorn(Opened[Target]) =>
         /\ Len(content'[Target]) = Len(Opened[Target]) + 1
         /\ content'[Target][Len(Opened[Target]) + 1] = entry[r]
  BY <1>3, <1>5, <1>6
<1>13. Len(content'[Target]) <= Len(Opened[Target]) + 1
  BY <1>5, <1>6, <1>8
<1> QED BY <1>5, <1>10, <1>11, <1>12, <1>13

\* A write keeps the invariant.
LEMMA WriteKeeps ==
  ASSUME AuditInv, NEW r \in Recorders, NEW line \in {entry[r], Torn},
         recording[r] = "appending", Wrote(r, line),
         Moves(r, "idle"), entry' = [entry EXCEPT ![r] = 0],
         UNCHANGED <<previous, built, unrotated, viewing>>
  PROVE  AuditInv'
<1> USE DEF Moves
<1>1. /\ AuditTypeOK /\ built \in Nat /\ Full \in Nat \ {0} /\ Limit \in Nat
      /\ entry[r] \in AllEntries /\ entry[r] \in 1..built /\ NoFile \notin Nat
  BY AuditAssumption
  DEF AuditAssumption, AuditInv, AuditTypeOK, EntriesAreNew, AllEntries
<1>2. /\ Opened \in Seq(Seq(Lines)) /\ Target \in DOMAIN Opened
      /\ DOMAIN content \subseteq DOMAIN Opened
      /\ \A g \in DOMAIN content : Opened[g] = content[g]
      /\ \A g \in DOMAIN Opened \ DOMAIN content : g = Target /\ Opened[g] = <<>>
      /\ current # NoFile => Target = current /\ Opened = content
      /\ current = NoFile => Opened[Target] = <<>> /\ Target \notin DOMAIN content
  BY <1>1, OpenedIs
<1>3. /\ content' \in Seq(Seq(Lines)) /\ DOMAIN content' = DOMAIN Opened
      /\ \A g \in DOMAIN Opened \ {Target} : content'[g] = Opened[g]
      /\ \A g \in DOMAIN Opened :
           /\ Len(Opened[g]) <= Len(content'[g])
           /\ \A k \in 1..Len(Opened[g]) :
                Opened[g][k] # Torn => content'[g][k] = Opened[g][k]
      /\ \A g \in DOMAIN Opened : \A k \in 1..Len(content'[g]) :
           \/ k <= Len(Opened[g]) /\ content'[g][k] = Opened[g][k]
           \/ content'[g][k] \in {Torn, Glued}
           \/ g = Target /\ k = Len(Opened[g]) + 1 /\ content'[g][k] = entry[r]
      /\ Len(content'[Target]) <= Len(Opened[Target]) + 1
      /\ line # Torn /\ ~EndsTorn(Opened[Target]) =>
           /\ Len(content'[Target]) = Len(Opened[Target]) + 1
           /\ content'[Target][Len(Opened[Target]) + 1] = entry[r]
  BY <1>1, FileGrows
<1>4. /\ current' = Target /\ acked \subseteq acked'
      /\ acked' \subseteq acked \cup {<<entry[r], Target>>}
      /\ acked' # acked => line # Torn /\ ~EndsTorn(Opened[Target])
  BY DEF Wrote
<1>5. /\ \A g \in DOMAIN Opened : Opened[g] \in Seq(Lines) /\ Len(Opened[g]) \in Nat
      /\ \A g \in DOMAIN content' : content'[g] \in Seq(Lines) /\ Len(content'[g]) \in Nat
  <2>1. \A files \in Seq(Seq(Lines)) : \A g \in DOMAIN files :
          files[g] \in Seq(Lines) /\ Len(files[g]) \in Nat
    OBVIOUS
  <2>2. Opened \in Seq(Seq(Lines)) /\ content' \in Seq(Seq(Lines))
    BY <1>2, <1>3
  <2> QED BY <2>1, <2>2
<1>6. \A g \in DOMAIN Opened : Len(Opened[g]) > 0 => g \in DOMAIN content /\ Opened[g] = content[g]
  BY <1>2
\* An entry's line was there before, or is the one that has been added.
<1>7. ASSUME NEW g \in DOMAIN content', NEW k \in 1..Len(content'[g]),
             content'[g][k] \notin {Torn, Glued}
      PROVE  \/ /\ g \in DOMAIN content /\ k \in 1..Len(content[g])
                /\ content'[g][k] = content[g][k]
             \/ g = Target /\ k = Len(Opened[g]) + 1 /\ content'[g][k] = entry[r]
  <2>1. CASE k <= Len(Opened[g]) /\ content'[g][k] = Opened[g][k]
    <3>1. Len(Opened[g]) > 0 /\ k \in 1..Len(Opened[g])
      BY <1>3, <1>5, <2>1
    <3> QED BY <1>3, <1>6, <2>1, <3>1
  <2>2. CASE g = Target /\ k = Len(Opened[g]) + 1 /\ content'[g][k] = entry[r]
    BY <2>2
  <2> QED BY <1>3, <1>7, <2>1, <2>2
\* And an entry's line stays where it was.
<1>8. ASSUME NEW g \in DOMAIN content, NEW k \in 1..Len(content[g]), content[g][k] # Torn
      PROVE  /\ g \in DOMAIN content' /\ k \in 1..Len(content'[g])
             /\ content'[g][k] = content[g][k]
  <2>1. g \in DOMAIN Opened /\ Opened[g] = content[g]
    BY <1>2
  <2> QED BY <1>3, <1>5, <1>8, <2>1
<1> HIDE DEF Moves
<1>9. /\ recording'[r] = "idle" /\ entry'[r] = 0
      /\ \A q \in Recorders \ {r} : recording'[q] = recording[q] /\ entry'[q] = entry[q]
      /\ recording' \in [Recorders -> {"idle", "built", "locked", "rotating", "appending"}]
      /\ entry' \in [Recorders -> 0..MaxEntries]
  <2>1. /\ recording \in [Recorders -> {"idle", "built", "locked", "rotating", "appending"}]
        /\ entry \in [Recorders -> 0..MaxEntries] /\ 0 \in 0..MaxEntries
    BY <1>1, AuditAssumption DEF AuditTypeOK, AuditAssumption
  <2>2. recording' = [recording EXCEPT ![r] = "idle"] /\ entry' = [entry EXCEPT ![r] = 0]
    BY DEF Moves
  <2> QED BY <2>1, <2>2
<1>10. AuditTypeOK'
  <2>1. acked' \subseteq AllEntries \X DOMAIN content'
    <3>1. acked \subseteq AllEntries \X DOMAIN content
      BY <1>1 DEF AuditTypeOK
    <3>2. DOMAIN content \subseteq DOMAIN content' /\ Target \in DOMAIN content'
      BY <1>2, <1>3
    <3> QED BY <1>1, <1>4, <3>1, <3>2
  <2>2. current' \in DOMAIN content' /\ previous' \in DOMAIN content' \cup {NoFile}
    BY <1>1, <1>2, <1>3, <1>4 DEF AuditTypeOK
  <2> QED BY <1>1, <1>3, <1>9, <2>1, <2>2 DEF AuditTypeOK
<1>11. Exclusive'
  BY <1>9 DEF AuditInv, Exclusive, InLock
<1>12. SizeHolds'
  <2>1. \A q \in Recorders : recording'[q] \notin InLock
    BY <1>9 DEF AuditInv, Exclusive, InLock
  <2> QED BY <2>1 DEF SizeHolds, InLock
<1>13. EntriesAreNew'
  <2>1. ASSUME NEW g \in DOMAIN content', NEW k \in 1..Len(content'[g])
        PROVE  content'[g][k] <= built'
    <3>1. CASE content'[g][k] \in {Torn, Glued}
      BY <1>1, <3>1 DEF Torn, Glued
    <3>2. CASE content'[g][k] \notin {Torn, Glued}
      BY <1>1, <1>7, <3>2 DEF AuditInv, EntriesAreNew
    <3> QED BY <3>1, <3>2
  <2>2. ASSUME NEW q \in Recorders, recording'[q] # "idle"
        PROVE  /\ entry'[q] \in 1..built'
               /\ \A p \in Recorders \ {q} : recording'[p] # "idle" => entry'[p] # entry'[q]
               /\ \A g \in DOMAIN content' : \A k \in 1..Len(content'[g]) :
                    content'[g][k] # entry'[q]
    <3>1. q # r /\ recording[q] # "idle" /\ entry'[q] = entry[q]
      BY <1>9, <2>2
    <3>2. entry[q] \in 1..built /\ entry[q] # entry[r]
      BY <3>1 DEF AuditInv, EntriesAreNew
    <3>3. \A p \in Recorders \ {q} : recording'[p] # "idle" => entry'[p] # entry'[q]
      BY <1>9, <3>1 DEF AuditInv, EntriesAreNew
    <3>4. ASSUME NEW g \in DOMAIN content', NEW k \in 1..Len(content'[g])
          PROVE  content'[g][k] # entry'[q]
      <4>1. CASE content'[g][k] \in {Torn, Glued}
        BY <1>1, <3>1, <3>2, <4>1 DEF Torn, Glued
      <4>2. CASE content'[g][k] \notin {Torn, Glued}
        BY <1>7, <3>1, <3>2, <4>2 DEF AuditInv, EntriesAreNew
      <4> QED BY <4>1, <4>2
    <3> QED BY <3>1, <3>2, <3>3, <3>4
  <2> QED BY <2>1, <2>2 DEF EntriesAreNew
<1>14. \A g \in DOMAIN content : \A k \in 1..Len(content[g]) : content[g][k] # entry[r]
  BY DEF AuditInv, EntriesAreNew
<1>15. \A n \in AllEntries : n \notin {Torn, Glued}
  BY DEF AllEntries, Torn, Glued
<1>16. WrittenOnce'
  <2> SUFFICES ASSUME NEW g \in DOMAIN content',
                      NEW i \in 1..Len(content'[g]), NEW k \in 1..Len(content'[g]),
                      content'[g][i] \in AllEntries, content'[g][i] = content'[g][k]
               PROVE  i = k
    BY DEF WrittenOnce
  <2>1. content'[g][i] \notin {Torn, Glued} /\ content'[g][k] \notin {Torn, Glued}
    BY <1>15
  <2>2. CASE g \in DOMAIN content /\ i \in 1..Len(content[g]) /\ content'[g][i] = content[g][i]
    <3>1. content'[g][k] # entry[r]
      BY <1>14, <2>2
    <3>2. k \in 1..Len(content[g]) /\ content'[g][k] = content[g][k]
      BY <1>7, <2>1, <3>1
    <3> QED BY <2>2, <3>2 DEF AuditInv, WrittenOnce
  <2>3. CASE i = Len(Opened[g]) + 1 /\ content'[g][i] = entry[r]
    BY <1>7, <1>14, <2>1, <2>3
  <2> QED BY <1>7, <2>1, <2>2, <2>3
<1>17. AckedIsWritten'
  <2> SUFFICES ASSUME NEW n \in AllEntries, NEW g \in DOMAIN content', <<n, g>> \in acked'
               PROVE  \E k \in 1..Len(content'[g]) : content'[g][k] = n
    BY DEF AckedIsWritten
  <2>1. CASE <<n, g>> \in acked
    <3>1. g \in DOMAIN content
      BY <1>1, <2>1 DEF AuditTypeOK
    <3>2. PICK k \in 1..Len(content[g]) : content[g][k] = n
      BY <2>1, <3>1 DEF AuditInv, AckedIsWritten
    <3> QED BY <1>8, <1>15, <3>1, <3>2
  <2>2. CASE <<n, g>> \notin acked
    <3>1. n = entry[r] /\ g = Target /\ line # Torn /\ ~EndsTorn(Opened[Target])
      BY <1>4, <2>2
    <3>2. Len(Opened[Target]) + 1 \in 1..Len(content'[g]) /\ content'[g][Len(Opened[Target]) + 1] = n
      BY <1>2, <1>3, <1>5, <3>1
    <3> QED BY <3>2
  <2> QED BY <2>1, <2>2
<1>18. ViewsAgree'
  <2> SUFFICES ASSUME NEW v \in Viewers
               PROVE  /\ viewing[v].at # "away" =>
                           /\ viewing[v].generation \in DOMAIN content'
                           /\ viewing[v].before \subseteq acked'
                      /\ viewing[v].at = "shown" =>
                           \A n \in AllEntries, k \in 1..Len(content'[viewing[v].generation]) :
                             /\ <<n, viewing[v].generation>> \in viewing[v].before
                             /\ content'[viewing[v].generation][k] = n
                             /\ viewing[v].lines - k < Limit
                             => n \in Entries(viewing[v].shown)
    BY DEF ViewsAgree
  <2>1. viewing[v].at # "away" =>
          viewing[v].generation \in DOMAIN content /\ viewing[v].before \subseteq acked
    BY DEF AuditInv, ViewsAgree
  <2>2. viewing[v].at # "away" =>
          viewing[v].generation \in DOMAIN content' /\ viewing[v].before \subseteq acked'
    BY <1>2, <1>3, <1>4, <2>1
  <2>3. ASSUME viewing[v].at = "shown",
               NEW n \in AllEntries, NEW k \in 1..Len(content'[viewing[v].generation]),
               <<n, viewing[v].generation>> \in viewing[v].before,
               content'[viewing[v].generation][k] = n, viewing[v].lines - k < Limit
        PROVE  n \in Entries(viewing[v].shown)
    <3> DEFINE g == viewing[v].generation
    <3>1. g \in DOMAIN content /\ g \in DOMAIN content' /\ <<n, g>> \in acked
      BY <2>1, <2>2, <2>3
    <3>2. n # entry[r]
      BY <1>14, <3>1 DEF AuditInv, AckedIsWritten
    <3>3. k \in 1..Len(content[g]) /\ content[g][k] = n
      BY <1>7, <1>15, <2>3, <3>1, <3>2
    <3> QED BY <2>3, <3>1, <3>3 DEF AuditInv, ViewsAgree
  <2> QED BY <2>2, <2>3
<1>19. OnlyOldEntriesGo'
  <2>1. ASSUME NEW ack \in acked'
        PROVE  \/ ack[2] \in {current', previous'}
               \/ previous' # NoFile /\ Len(content'[previous']) >= Full
    <3>1. CASE ack \in acked
      <4>1. CASE ack[2] \in {current, previous}
        <5>1. ack[2] \in DOMAIN content
          BY <1>1, <3>1 DEF AuditTypeOK
        <5>2. ack[2] # NoFile
          BY <1>1, <5>1 DEF AuditTypeOK
        <5> QED BY <1>2, <1>4, <4>1, <5>2
      <4>2. CASE previous # NoFile /\ Len(content[previous]) >= Full
        <5>1. previous \in DOMAIN content
          BY <4>2 DEF AuditInv, AuditTypeOK
        <5>2. previous \in DOMAIN Opened /\ Opened[previous] = content[previous]
          BY <1>2, <5>1
        <5>3. Len(content'[previous]) >= Len(Opened[previous])
          BY <1>3, <1>5, <5>2
        <5> QED BY <1>1, <1>3, <1>5, <4>2, <5>2, <5>3
      <4> QED BY <3>1, <4>1, <4>2 DEF AuditInv, OnlyOldEntriesGo
    <3>2. CASE ack \notin acked
      BY <1>4, <3>2
    <3> QED BY <3>1, <3>2
  <2>2. ASSUME ~unrotated, NEW g \in DOMAIN content'
        PROVE  Len(content'[g]) <= Full
    <3>1. CASE g = Target
      <4>1. Len(Opened[Target]) < Full
        BY <1>1, <1>2, <2>2 DEF AuditInv, SizeHolds
      <4> QED BY <1>1, <1>2, <1>3, <1>5, <3>1, <4>1
    <3>2. CASE g # Target
      <4>1. g \in DOMAIN content /\ content'[g] = content[g]
        BY <1>2, <1>3, <3>2
      <4> QED BY <2>2, <4>1 DEF AuditInv, OnlyOldEntriesGo
    <3> QED BY <3>1, <3>2
  <2> QED BY <2>1, <2>2 DEF OnlyOldEntriesGo
<1> QED BY <1>10, <1>11, <1>12, <1>13, <1>16, <1>17, <1>18, <1>19 DEF AuditInv

\* The end of an append: something was written, or the file could not be opened.
LEMMA AppendKeeps == ASSUME AuditInv, NEW r \in Recorders, AppendLine(r) PROVE AuditInv'
<1>1. /\ recording[r] = "appending" /\ Moves(r, "idle") /\ entry' = [entry EXCEPT ![r] = 0]
      /\ UNCHANGED <<previous, built, unrotated, viewing>>
      /\ \/ \E line \in {entry[r], Torn} : Wrote(r, line)
         \/ UNCHANGED <<content, current, acked>>
  BY DEF AppendLine, Wrote
<1>2. CASE \E line \in {entry[r], Torn} : Wrote(r, line)
  BY <1>1, <1>2, WriteKeeps
<1>3. CASE UNCHANGED <<content, current, acked>>
  <2>1. AuditTypeOK'
    <3>1. 0 \in 0..MaxEntries
      BY AuditAssumption DEF AuditAssumption
    <3> QED BY <1>1, <1>3, <3>1 DEF AuditInv, AuditTypeOK, Moves
  <2>2. /\ recording'[r] = "idle"
        /\ \A q \in Recorders \ {r} : recording'[q] = recording[q] /\ entry'[q] = entry[q]
    BY <1>1 DEF AuditInv, AuditTypeOK, Moves
  <2>3. Exclusive' /\ SizeHolds'
    BY <1>1, <1>3, <2>2 DEF AuditInv, Exclusive, SizeHolds, InLock
  <2>4. EntriesAreNew'
    BY <1>1, <1>3, <2>2 DEF AuditInv, EntriesAreNew
  <2>5. WrittenOnce' /\ AckedIsWritten' /\ ViewsAgree' /\ OnlyOldEntriesGo'
    BY <1>1, <1>3 DEF AuditInv, WrittenOnce, AckedIsWritten, ViewsAgree, OnlyOldEntriesGo
  <2> QED BY <2>1, <2>3, <2>4, <2>5 DEF AuditInv
<1> QED BY <1>1, <1>2, <1>3

LEMMA AuditStutters == ASSUME AuditInv, UNCHANGED audit_vars PROVE AuditInv'
<1> USE DEF audit_vars, log_vars
<1>1. AuditTypeOK'
  BY DEF AuditInv, AuditTypeOK
<1>2. Exclusive' /\ SizeHolds' /\ EntriesAreNew' /\ WrittenOnce' /\ AckedIsWritten'
  BY DEF AuditInv, Exclusive, SizeHolds, EntriesAreNew, WrittenOnce, AckedIsWritten
<1>3. ViewsAgree' /\ OnlyOldEntriesGo'
  BY DEF AuditInv, ViewsAgree, OnlyOldEntriesGo
<1> QED BY <1>1, <1>2, <1>3 DEF AuditInv

LEMMA AuditKept == AuditInv /\ [AuditNext]_audit_vars => AuditInv'
<1> SUFFICES ASSUME AuditInv, [AuditNext]_audit_vars PROVE AuditInv'
  OBVIOUS
<1>1. CASE \E r \in Recorders : Recording(r)
  BY <1>1, BuildKeeps, LockKeeps, CheckSizeKeeps, RotateKeeps, AppendKeeps DEF Recording
<1>2. CASE \E v \in Viewers : TailOpen(v) \/ TailRead(v) \/ TailEnds(v)
  BY <1>2, TailOpenKeeps, TailReadKeeps, TailEndsKeeps
<1>3. CASE AuditDies
  BY <1>3, DiesKeeps
<1>4. CASE UNCHANGED audit_vars
  BY <1>4, AuditStutters
<1> QED BY <1>1, <1>2, <1>3, <1>4 DEF AuditNext

LEMMA AuditInvariance == AuditSpec => []AuditInv
<1> QED BY AuditStarts, AuditKept, PTL DEF AuditSpec

\* AuditTypeCorrect: the files and the threads' places have their types.
THEOREM AuditTypeCorrect == AuditSpec => []AuditTypeOK
<1>1. AuditInv => AuditTypeOK
  BY DEF AuditInv
<1> QED BY <1>1, AuditInvariance, PTL

LEMMA AgreeingViewsShow == AuditInv => TailShowsTheLatest
<1> SUFFICES ASSUME AuditInv, NEW v \in Viewers, viewing[v].at = "shown", NEW n \in AllEntries,
                    <<n, viewing[v].generation>> \in viewing[v].before,
                    viewing[v].lines - Position(content[viewing[v].generation], n) < Limit
             PROVE  n \in Entries(viewing[v].shown)
  BY DEF TailShowsTheLatest
<1> DEFINE g == viewing[v].generation
           lines == content[g]
<1>1. g \in DOMAIN content /\ <<n, g>> \in acked
  BY DEF AuditInv, ViewsAgree
<1>2. \E k \in DOMAIN lines : lines[k] = n
  <2>1. \E k \in 1..Len(lines) : lines[k] = n
    BY <1>1 DEF AuditInv, AckedIsWritten
  <2>2. DOMAIN lines = 1..Len(lines)
    BY <1>1 DEF AuditInv, AuditTypeOK
  <2> QED BY <2>1, <2>2
<1>3. Position(lines, n) \in 1..Len(lines) /\ lines[Position(lines, n)] = n
  <2>1. DOMAIN lines = 1..Len(lines)
    BY <1>1 DEF AuditInv, AuditTypeOK
  <2> QED BY <1>2, <2>1 DEF Position
<1> QED BY <1>3 DEF AuditInv, ViewsAgree

\* ViewsShowTheLatest: a view of the log has every entry that was on a line of its own when
\* it was asked for and is one of the last Limit lines read, whoever records in the meantime.
THEOREM ViewsShowTheLatest == AuditSpec => []TailShowsTheLatest
<1> QED BY AgreeingViewsShow, AuditInvariance, PTL

\* OnlyOldEntriesAreLost: an entry is lost only behind a full generation, and none is larger.
THEOREM OnlyOldEntriesAreLost == AuditSpec => []OnlyOldEntriesGo
<1>1. AuditInv => OnlyOldEntriesGo
  BY DEF AuditInv
<1> QED BY <1>1, AuditInvariance, PTL

-----------------------------------------------------------------------------
(***************************************************************************)
(* The parts side by side.                                                 *)
(***************************************************************************)

\* A step of the whole is one of each part, or leaves it as it is.
LEMMA PartsStep ==
  ASSUME [ServicesNext]_services_vars
  PROVE  /\ [Next]_vars /\ [slotmap_Next]_slotmap_vars /\ [ChassisNext]_chassis_vars
         /\ [AccountsNext]_accounts_vars /\ [AuditNext]_audit_vars /\ [LimiterNext]_limiter_vars
<1>1. CASE LockMoves
  BY <1>1 DEF LockMoves
<1>2. CASE SlotsMove
  BY <1>2 DEF SlotsMove
<1>3. CASE ChassisMoves
  BY <1>3 DEF ChassisMoves
<1>4. CASE AccountsMove
  BY <1>4 DEF AccountsMove
<1>5. CASE AuditMoves
  BY <1>5 DEF AuditMoves
<1>6. CASE LimiterMoves
  BY <1>6 DEF LimiterMoves
<1>7. CASE UNCHANGED services_vars
  BY <1>7 DEF services_vars
<1> QED BY <1>1, <1>2, <1>3, <1>4, <1>5, <1>6, <1>7 DEF ServicesNext

\* PartsBehaveAsAlone: the composition is one of every part's behaviours, the lock's with its
\* fairness; no part sees another (the chassis poll of services/state.py, services/audit.py,
\* the accounts and the rate limiter of services/auth.py, enclosure/access.py and
\* enclosure/locate.py share no state).
THEOREM PartsBehaveAsAlone ==
  ServicesSpec =>
    FairSpec /\ slotmap_Spec /\ ChassisSpec /\ AccountsSpec /\ AuditSpec /\ LimiterSpec
<1>1. ServicesInit =>
        Init /\ slotmap_Init /\ ChassisInit /\ AccountsInit /\ AuditInit /\ LimiterInit
  BY DEF ServicesInit
<1>2. [ServicesNext]_services_vars =>
        /\ [Next]_vars /\ [slotmap_Next]_slotmap_vars /\ [ChassisNext]_chassis_vars
        /\ [AccountsNext]_accounts_vars /\ [AuditNext]_audit_vars /\ [LimiterNext]_limiter_vars
  BY PartsStep
<1> QED BY <1>1, <1>2, PTL
        DEF ServicesSpec, FairSpec, Spec, slotmap_Spec, ChassisSpec, AccountsSpec, AuditSpec,
            LimiterSpec

\* ServicesTypeCorrect: side by side the parts keep their types, each as it does alone.
THEOREM ServicesTypeCorrect == ServicesSpec => []ServicesTypeOK
<1>1. /\ FairSpec => []TypeOK
      /\ slotmap_Spec => []SlotMapTypeOK
      /\ ChassisSpec => []ChassisTypeOK
      /\ AccountsSpec => []AccountsTypeOK
      /\ AuditSpec => []AuditTypeOK
      /\ LimiterSpec => []LimiterTypeOK
  <2>1. FairSpec => Spec
    BY DEF FairSpec
  <2> QED BY <2>1, LockTypeCorrect, SlotMapTypeCorrect, ChassisTypeCorrect,
             AccountsTypeCorrect, AuditTypeCorrect, LimiterTypeCorrect, PTL
<1>2. TypeOK /\ SlotMapTypeOK /\ ChassisTypeOK /\ AccountsTypeOK /\ AuditTypeOK
      /\ LimiterTypeOK => ServicesTypeOK
  BY DEF ServicesTypeOK
<1> QED BY <1>1, <1>2, PartsBehaveAsAlone, PTL

=============================================================================
