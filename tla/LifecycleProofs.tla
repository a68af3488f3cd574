-------------------------- MODULE LifecycleProofs --------------------------
(***************************************************************************)
(* Theorems about Lifecycle, for any number of versions, connections,      *)
(* attempts, rewrites and deaths.                                          *)
(***************************************************************************)
EXTENDS Lifecycle, FiniteSetTheorems, SequenceTheorems, TLAPS

(***************************************************************************)
(* The inductive invariant.                                                *)
(***************************************************************************)

Holding == {"connecting", "login", "request"}

All(task) == \A i \in 1..Len(queue) : queue[i] = task

\* Who waits for the lock waits once, and who is inside holds it.
QueueMatches ==
  /\ Len(queue) = 2 => queue[1] # queue[2]
  /\ pc \in {"idle", "rest", "cancelled"} => All("stop")
  /\ closing \in {"no", "done"} => All("loop")
  /\ pc \in Holding => Len(queue) > 0 /\ queue[1] = "loop"
  /\ closing = "closing" => Len(queue) > 0 /\ queue[1] = "stop"

\* One connection at most: the one pooled, or the one being authenticated.
OneOpen ==
  /\ open = {socket, fresh} \ {None}
  /\ pc = "login" <=> fresh # None
  /\ pc \in {"connecting", "login"} => socket = None
  /\ pc = "request" => socket # None
  /\ closing \in {"closing", "done"} => socket = None
  /\ closing = "done" => pc = "cancelled"

\* stop() runs in a process that is stopping.
StopsWhenStopping == closing # "no" => phase = "stopping"

ClientInv == ClientTypeOK /\ QueueMatches /\ OneOpen /\ StopsWhenStopping

\* The certificate is whole but for the write of it.
WholeUnlessWritten ==
  IF writing = "cert" THEN cert \notin Chains \/ ~cert.whole ELSE cert \in Chains /\ cert.whole

\* What has settled was not seen during the write that is under way.
SettledIsOlder ==
  /\ settled => pending \in Chains
  /\ writing = "cert" /\ settled => pending.whole

PairServed == Running => PairMatches

\* With no restart in hand, what is mounted is what is, or is about to be, served.
NoneInHand ==
  restarts = rewrites =>
    /\ writing # "cert"
    /\ Watching /\ ~restarted => servedCert = cert
    /\ phase \in {"copy key", "check"} => servedCert = cert

TlsInv ==
  /\ TlsTypeOK /\ WholeUnlessWritten /\ SettledIsOlder /\ PairServed
  /\ RestartsAreEarned /\ NoneInHand

IInv == ClientInv /\ TlsInv

-----------------------------------------------------------------------------
(***************************************************************************)
(* The lock's queue.                                                       *)
(***************************************************************************)

\* Joining the queue.
LEMMA Joining ==
  ASSUME ClientTypeOK, NEW t \in Tasks
  PROVE  /\ Append(queue, t) \in Seq(Tasks)
         /\ Len(Append(queue, t)) = Len(queue) + 1
         /\ Append(queue, t)[Len(queue) + 1] = t
         /\ \A i \in 1..Len(queue) : Append(queue, t)[i] = queue[i]
  BY SMT DEF ClientTypeOK, Tasks

\* Leaving it.
LEMMA Leaving ==
  ASSUME ClientTypeOK, Len(queue) > 0
  PROVE  /\ Tail(queue) \in Seq(Tasks)
         /\ Len(Tail(queue)) = Len(queue) - 1
         /\ \A i \in 1..(Len(queue) - 1) : Tail(queue)[i] = queue[i + 1]
  BY SMT DEF ClientTypeOK, Tasks

\* Its head.
LEMMA Heading ==
  ASSUME ClientTypeOK, NEW t, Holds(t)
  PROVE  Len(queue) > 0 /\ queue[1] = t
  BY SMT DEF ClientTypeOK, Tasks, Holds

\* The empty queue.
LEMMA Nobody == <<>> \in Seq(Tasks) /\ Len(<<>>) = 0 /\ Len(<<>>) <= 2
  BY SMT DEF Tasks

\* Of one task there is one entry at most.
LEMMA AtMostOnce ==
  ASSUME ClientTypeOK, QueueMatches, NEW t, All(t)
  PROVE  Len(queue) \in Nat /\ Len(queue) <= 1
<1>1. Len(queue) \in Nat /\ Len(queue) <= 2
  BY LenProperties DEF ClientTypeOK
<1>2. Len(queue) # 2
  BY <1>1, SMT DEF QueueMatches, All
<1>3. ASSUME NEW n \in Nat, n <= 2, n # 2 PROVE n <= 1
  BY <1>3, SMT
<1> QED BY <1>1, <1>2, <1>3

\* The loop leaves the queue that it is at the head of.
LEMMA LoopLeaves ==
  ASSUME ClientTypeOK, QueueMatches, pc \in Holding, Release
  PROVE  /\ queue' \in Seq(Tasks) /\ Len(queue') <= 1
         /\ \A i \in 1..Len(queue') : queue'[i] = "stop"
         /\ closing # "closing"
         /\ closing \in {"no", "done"} => Len(queue') = 0
<1>1. Len(queue) > 0 /\ queue[1] = "loop" /\ Len(queue) \in Nat /\ Len(queue) <= 2
  BY SMT DEF QueueMatches, ClientTypeOK, Tasks
<1>2. /\ queue' \in Seq(Tasks) /\ Len(queue') = Len(queue) - 1
      /\ \A i \in 1..(Len(queue) - 1) : queue'[i] = queue[i + 1]
  BY <1>1, Leaving DEF Release
<1>3. Len(queue) = 2 => queue[2] = "stop"
  <2> SUFFICES ASSUME Len(queue) = 2 PROVE queue[2] = "stop"
    OBVIOUS
  <2>1. queue \in Seq(Tasks) /\ 2 \in 1..Len(queue)
    BY DEF ClientTypeOK
  <2>2. queue[2] \in Tasks
    BY <2>1, ElementOfSeq
  <2> QED BY <1>1, <2>2 DEF QueueMatches, Tasks
<1>4. closing # "closing"
  BY <1>1 DEF QueueMatches
<1>5. closing \in {"no", "done"} => Len(queue') = 0
  BY <1>1, <1>2, <1>3, SMT DEF QueueMatches, All
<1> QED BY <1>1, <1>2, <1>3, <1>4, <1>5, SMT

\* A call that ends, or fails once, leaves the queue in order.
LEMMA Ending ==
  ASSUME ClientTypeOK, QueueMatches, pc \in Holding, closing' = closing,
         Fails \/ (Returns /\ UNCHANGED cooling)
  PROVE  /\ pc' \in {"connecting", "rest", "idle"}
         /\ attempt' \in 1..2 /\ cooling' \in BOOLEAN
         /\ queue' \in Seq(Tasks) /\ Len(queue') <= 2
         /\ QueueMatches'
<1>1. CASE Release /\ pc' \in {"rest", "idle"}
  <2>1. QueueMatches'
    BY <1>1, LoopLeaves, SMT DEF QueueMatches, All, Holding, ClientTypeOK
  <2>2. queue' \in Seq(Tasks) /\ Len(queue') <= 2
    BY <1>1, LoopLeaves, SMT
  <2>3. attempt' \in 1..2 /\ cooling' \in BOOLEAN
    BY <1>1, ClientAssumption DEF Fails, Returns, ClientTypeOK
  <2> QED BY <1>1, <2>1, <2>2, <2>3
<1>2. CASE pc' = "connecting" /\ attempt' = 2 /\ UNCHANGED <<queue, cooling>>
  BY <1>2 DEF QueueMatches, All, Holding, ClientTypeOK
<1> QED BY <1>1, <1>2, ClientAssumption DEF Fails, Returns

-----------------------------------------------------------------------------
(***************************************************************************)
(* The client.                                                             *)
(***************************************************************************)

\* The poll loop's steps, and the clock's.
LEMMA PollsKeep ==
  ASSUME ClientInv, ClientStep, UNCHANGED phase
  PROVE  ClientInv'
<1> USE ClientAssumption DEF ClientInv
<1>1. CASE Call
  <2>1. Len(queue) <= 1 /\ Len(queue) \in Nat
    BY <1>1, AtMostOnce DEF Call, QueueMatches
  <2>2. "loop" \in Tasks
    BY DEF Tasks
  <2>3. queue' \in Seq(Tasks) /\ Len(queue') <= 2
    BY <1>1, <2>1, <2>2, Joining DEF Call, ClientTypeOK
  <2>4. ClientTypeOK'
    BY <1>1, <2>3 DEF Call, ClientTypeOK, Places
  <2>5. QueueMatches'
    BY <1>1, Joining, SMT DEF Call, ClientTypeOK, QueueMatches, Places, All, Tasks, Holding
  <2>6. OneOpen' /\ StopsWhenStopping'
    BY <1>1 DEF Call, OneOpen, StopsWhenStopping
  <2> QED BY <2>4, <2>5, <2>6
<1>2. CASE Proceed
  <2>1. Len(queue) > 0 /\ queue[1] = "loop" /\ pc = "waiting"
    BY <1>2, Heading DEF Proceed
  <2>2. ClientTypeOK' /\ QueueMatches'
    BY <1>2, <2>1 DEF Proceed, ClientTypeOK, QueueMatches, All, Holding, Places
  <2>3. OneOpen' /\ StopsWhenStopping'
    BY <1>2, <2>1 DEF Proceed, OneOpen, StopsWhenStopping
  <2> QED BY <2>2, <2>3
<1>3. CASE Connected
  <2>1. ClientTypeOK' /\ QueueMatches'
    BY <1>3 DEF Connected, ClientTypeOK, QueueMatches, All, Holding, Places
  <2>2. OneOpen' /\ StopsWhenStopping'
    BY <1>3 DEF Connected, OneOpen, StopsWhenStopping
  <2> QED BY <2>1, <2>2
<1>4. CASE ConnectFails
  <2>1. /\ pc' \in {"connecting", "rest", "idle"}
        /\ attempt' \in 1..2 /\ cooling' \in BOOLEAN
        /\ queue' \in Seq(Tasks) /\ Len(queue') <= 2
        /\ QueueMatches'
    BY <1>4, Ending DEF ConnectFails, Holding
  <2>2. ClientTypeOK'
    BY <1>4, <2>1 DEF ConnectFails, ClientTypeOK, Places
  <2>3. OneOpen' /\ StopsWhenStopping'
    BY <1>4, <2>1 DEF ConnectFails, OneOpen, StopsWhenStopping
  <2> QED BY <2>1, <2>2, <2>3
<1>5. CASE LoggedIn
  <2>1. ClientTypeOK' /\ QueueMatches'
    BY <1>5 DEF LoggedIn, ClientTypeOK, QueueMatches, All, Holding, Places
  <2>2. closing \notin {"closing", "done"}
    BY <1>5 DEF LoggedIn, QueueMatches, OneOpen, Holding
  <2>3. OneOpen' /\ StopsWhenStopping'
    BY <1>5, <2>2 DEF LoggedIn, OneOpen, StopsWhenStopping
  <2> QED BY <2>1, <2>3
<1>6. CASE LoginFails
  <2>1. /\ pc' \in {"connecting", "rest", "idle"}
        /\ attempt' \in 1..2 /\ cooling' \in BOOLEAN
        /\ queue' \in Seq(Tasks) /\ Len(queue') <= 2
        /\ QueueMatches'
    BY <1>6, Ending DEF LoginFails, Holding
  <2>2. ClientTypeOK'
    BY <1>6, <2>1 DEF LoginFails, ClientTypeOK, Places, Closed
  <2>3. OneOpen' /\ StopsWhenStopping'
    BY <1>6, <2>1 DEF LoginFails, OneOpen, StopsWhenStopping, Closed
  <2> QED BY <2>1, <2>2, <2>3
<1>7. CASE Answered
  <2>1. /\ pc' = "idle" /\ attempt' \in 1..2 /\ cooling' \in BOOLEAN
        /\ queue' \in Seq(Tasks) /\ Len(queue') <= 2
        /\ QueueMatches'
    BY <1>7, Ending DEF Answered, Returns, Holding
  <2>2. ClientTypeOK'
    BY <1>7, <2>1 DEF Answered, ClientTypeOK, Places
  <2>3. OneOpen' /\ StopsWhenStopping'
    BY <1>7, <2>1 DEF Answered, OneOpen, StopsWhenStopping
  <2> QED BY <2>1, <2>2, <2>3
<1>8. CASE RequestFails
  <2>1. /\ pc' \in {"connecting", "rest", "idle"}
        /\ attempt' \in 1..2 /\ cooling' \in BOOLEAN
        /\ queue' \in Seq(Tasks) /\ Len(queue') <= 2
        /\ QueueMatches'
    BY <1>8, Ending DEF RequestFails, Holding
  <2>2. ClientTypeOK'
    BY <1>8, <2>1 DEF RequestFails, ClientTypeOK, Places, Closed
  <2>3. OneOpen' /\ StopsWhenStopping'
    BY <1>8, <2>1 DEF RequestFails, OneOpen, StopsWhenStopping, Closed
  <2> QED BY <2>1, <2>2, <2>3
<1>9. CASE RestEnds
  <2>1. ClientTypeOK' /\ QueueMatches'
    BY <1>9 DEF RestEnds, ClientTypeOK, QueueMatches, All, Holding, Places
  <2>2. OneOpen' /\ StopsWhenStopping'
    BY <1>9 DEF RestEnds, OneOpen, StopsWhenStopping
  <2> QED BY <2>1, <2>2
<1>10. CASE CooldownEnds
  BY <1>10 DEF CooldownEnds, ClientTypeOK, QueueMatches, All, OneOpen, StopsWhenStopping
<1> QED BY <1>1, <1>2, <1>3, <1>4, <1>5, <1>6, <1>7, <1>8, <1>9, <1>10
        DEF ClientStep, InCall

\* The service stops.
LEMMA StoppingKeeps ==
  ASSUME ClientInv, StopCloses \/ StopEnds, UNCHANGED phase
  PROVE  ClientInv'
<1> USE DEF ClientInv
<1>1. CASE StopCloses
  <2>1. Len(queue) > 0 /\ queue[1] = "stop"
    BY <1>1, Heading DEF StopCloses
  <2>2. ClientTypeOK'
    BY <1>1 DEF StopCloses, ClientTypeOK, Closed
  <2>3. pc \notin Holding
    BY <2>1 DEF QueueMatches
  <2>4. QueueMatches'
    BY <1>1, <2>1 DEF StopCloses, QueueMatches, All
  <2>5. OneOpen'
    BY <1>1, <2>3, ClientAssumption DEF StopCloses, OneOpen, Closed, Holding
  <2>6. StopsWhenStopping'
    BY <1>1 DEF StopCloses, StopsWhenStopping
  <2> QED BY <2>2, <2>4, <2>5, <2>6
<1>2. CASE StopEnds
  <2>1. ClientTypeOK'
    BY <1>2, Nobody, SMT DEF StopEnds, ClientTypeOK, Closed, Places
  <2>2. QueueMatches'
    BY <1>2, Nobody, SMT DEF StopEnds, QueueMatches, All, Holding
  <2>3. OneOpen' /\ StopsWhenStopping'
    BY <1>2 DEF StopEnds, OneOpen, StopsWhenStopping, Closed
  <2> QED BY <2>1, <2>2, <2>3
<1> QED BY <1>1, <1>2

\* It begins to, when the watcher has stopped.
LEMMA StopBeginningKeeps ==
  ASSUME ClientInv, StopBegins, phase' = "stopping"
  PROVE  ClientInv'
<1> USE DEF ClientInv
<1>1. Len(queue) <= 1 /\ Len(queue) \in Nat
  BY AtMostOnce DEF StopBegins, QueueMatches
<1>2. "stop" \in Tasks
  BY DEF Tasks
<1>3. queue' \in Seq(Tasks) /\ Len(queue') <= 2
  BY <1>1, <1>2, Joining DEF StopBegins, ClientTypeOK
<1>4. ClientTypeOK'
  BY <1>3 DEF StopBegins, ClientTypeOK
<1>5. QueueMatches'
  BY <1>1, <1>2, Joining, SMT DEF StopBegins, ClientTypeOK, QueueMatches, All, Holding
<1>6. OneOpen' /\ StopsWhenStopping'
  BY DEF StopBegins, OneOpen, StopsWhenStopping
<1> QED BY <1>4, <1>5, <1>6

\* The next process starts as the first one did.
LEMMA ClientStarts ==
  /\ ClientInit => ClientInv
  /\ ClientGone => ClientInv'
<1>1. ASSUME ClientInit PROVE ClientInv
  <2>1. queue = <<>> /\ queue \in Seq(Tasks) /\ Len(queue) = 0 /\ Len(queue) <= 2
    BY <1>1, Nobody DEF ClientInit
  <2>2. ClientTypeOK
    <3>1. /\ pc = "idle" /\ attempt = 1 /\ socket = None /\ fresh = None
          /\ open = {} /\ cooling = FALSE /\ closing = "no"
      BY <1>1 DEF ClientInit
    <3>2. /\ pc \in Places /\ attempt \in 1..2
          /\ socket \in Conns \cup {None} /\ fresh \in Conns \cup {None}
          /\ open \subseteq Conns /\ closing \in {"no", "waiting", "closing", "done"}
      BY <3>1 DEF Places
    <3>3. cooling \in BOOLEAN
      BY <3>1
    <3> QED BY <2>1, <3>2, <3>3 DEF ClientTypeOK
  <2>3. QueueMatches
    BY <1>1, <2>1 DEF ClientInit, QueueMatches, All, Holding
  <2>4. OneOpen /\ StopsWhenStopping
    BY <1>1 DEF ClientInit, OneOpen, StopsWhenStopping
  <2> QED BY <2>2, <2>3, <2>4 DEF ClientInv
<1>2. ASSUME ClientGone PROVE ClientInv'
  <2>1. queue' = <<>> /\ queue' \in Seq(Tasks) /\ Len(queue') = 0 /\ Len(queue') <= 2
    BY <1>2, Nobody DEF ClientGone
  <2>2. ClientTypeOK'
    <3>1. /\ pc' = "idle" /\ attempt' = 1 /\ socket' = None /\ fresh' = None
          /\ open' = {} /\ cooling' = FALSE /\ closing' = "no"
      BY <1>2 DEF ClientGone
    <3>2. /\ pc' \in Places /\ attempt' \in 1..2
          /\ socket' \in Conns \cup {None} /\ fresh' \in Conns \cup {None}
          /\ open' \subseteq Conns /\ closing' \in {"no", "waiting", "closing", "done"}
      BY <3>1 DEF Places
    <3>3. cooling' \in BOOLEAN
      BY <3>1
    <3> QED BY <2>1, <3>2, <3>3 DEF ClientTypeOK
  <2>3. QueueMatches'
    BY <1>2, <2>1 DEF ClientGone, QueueMatches, All, Holding
  <2>4. OneOpen' /\ StopsWhenStopping'
    BY <1>2 DEF ClientGone, OneOpen, StopsWhenStopping
  <2> QED BY <2>2, <2>3, <2>4 DEF ClientInv
<1> QED BY <1>1, <1>2

-----------------------------------------------------------------------------
(***************************************************************************)
(* The mounted files, the watcher and the container.                       *)
(***************************************************************************)

\* The appliance writes.
LEMMA ApplianceKeeps ==
  ASSUME TlsInv, Appliance
  PROVE  TlsInv'
<1> USE TlsAssumption DEF TlsInv
<1>1. CASE RewriteBegins
  <2>1. TlsTypeOK'
    BY <1>1 DEF RewriteBegins, TlsTypeOK, Contents, copyVars, watchVars
  <2>2. WholeUnlessWritten'
    BY <1>1, ContentAssumption DEF RewriteBegins, WholeUnlessWritten
  <2>3. SettledIsOlder'
    BY <1>1, ContentAssumption
       DEF RewriteBegins, LastIsSeen, SettledIsOlder, WholeUnlessWritten, Contents, watchVars
  <2>4. PairServed'
    BY <1>1 DEF RewriteBegins, PairServed, Running, PairMatches, copyVars
  <2>5. RestartsAreEarned' /\ NoneInHand'
    <3>1. restarts' <= rewrites' /\ restarts' # rewrites'
      BY <1>1, SMT DEF RewriteBegins, RestartsAreEarned, TlsTypeOK, watchVars
    <3> QED BY <3>1 DEF RestartsAreEarned, NoneInHand
  <2> QED BY <2>1, <2>2, <2>3, <2>4, <2>5
<1>2. CASE ChainIsCut
  <2>1. cert' \in Chains /\ ~cert'.whole /\ writing = "cert"
    BY <1>2 DEF ChainIsCut, Chains, TlsTypeOK
  <2>2. TlsTypeOK'
    BY <1>2, <2>1 DEF ChainIsCut, TlsTypeOK, Contents, copyVars, watchVars
  <2>3. WholeUnlessWritten' /\ SettledIsOlder'
    BY <1>2, <2>1 DEF ChainIsCut, WholeUnlessWritten, SettledIsOlder, watchVars
  <2>4. PairServed' /\ RestartsAreEarned' /\ NoneInHand'
    BY <1>2 DEF ChainIsCut, PairServed, Running, PairMatches, RestartsAreEarned, NoneInHand,
       copyVars, watchVars
  <2> QED BY <2>2, <2>3, <2>4
<1>3. CASE CertWritten
  <2>1. cert' \in Chains /\ cert'.whole /\ writing = "cert"
    BY <1>3 DEF CertWritten, Chains, TlsTypeOK
  <2>2. TlsTypeOK'
    BY <1>3, <2>1 DEF CertWritten, TlsTypeOK, Contents, copyVars, watchVars
  <2>3. WholeUnlessWritten' /\ SettledIsOlder'
    BY <1>3, <2>1 DEF CertWritten, WholeUnlessWritten, SettledIsOlder, watchVars
  <2>4. PairServed' /\ RestartsAreEarned' /\ NoneInHand'
    BY <1>3 DEF CertWritten, PairServed, Running, PairMatches, RestartsAreEarned, NoneInHand,
       copyVars, watchVars
  <2> QED BY <2>2, <2>3, <2>4
<1>4. CASE KeyBegins \/ KeyWritten \/ ReadableFlips
  <2>1. TlsTypeOK'
    BY <1>4 DEF KeyBegins, KeyWritten, ReadableFlips, TlsTypeOK, copyVars, watchVars
  <2>2. WholeUnlessWritten' /\ SettledIsOlder'
    BY <1>4 DEF KeyBegins, KeyWritten, ReadableFlips, WholeUnlessWritten, SettledIsOlder, watchVars
  <2>3. PairServed' /\ RestartsAreEarned' /\ NoneInHand'
    BY <1>4 DEF KeyBegins, KeyWritten, ReadableFlips, PairServed, Running, PairMatches,
       RestartsAreEarned, NoneInHand, Watching, copyVars, watchVars
  <2> QED BY <2>1, <2>2, <2>3
<1> QED BY <1>1, <1>2, <1>3, <1>4 DEF Appliance

\* A restart is for a whole certificate that is not served, and is earned.
LEMMA RestartIsEarned ==
  ASSUME TlsInv, Check, restarts' # restarts
  PROVE  /\ cert \in Chains /\ cert.whole /\ cert # servedCert
         /\ writing # "cert" /\ restarts < rewrites
         /\ restarts' = restarts + 1 /\ restarted' = TRUE /\ phase' = "signalled"
         /\ UNCHANGED <<pending, settled>>
<1>1. /\ ~NothingToInstall /\ Settled /\ ~restarted /\ Watching
      /\ restarted' = TRUE /\ restarts' = restarts + 1 /\ phase' = "signalled"
      /\ UNCHANGED <<pending, settled>>
  BY DEF Check, SendsSignal
<1>2. cert # servedCert /\ pending = cert /\ settled
  BY <1>1 DEF NothingToInstall, Differs, Settled
<1>3. writing # "cert" /\ cert \in Chains /\ cert.whole
  BY <1>2 DEF TlsInv, SettledIsOlder, WholeUnlessWritten
<1>4. restarts # rewrites
  BY <1>1, <1>2 DEF TlsInv, NoneInHand
<1>5. restarts < rewrites
  BY <1>4, SMT DEF TlsInv, RestartsAreEarned, TlsTypeOK
<1> QED BY <1>1, <1>2, <1>3, <1>5

\* The watcher compares, and its clock runs.
LEMMA WatchKeeps ==
  ASSUME TlsInv, Check \/ SettleElapses
  PROVE  TlsInv'
<1> USE TlsAssumption
<1>1. CASE Check /\ restarts' # restarts
  <2>1. TlsTypeOK'
    <3>1. restarts' \in Nat
      <4>1. restarts' = restarts + 1 /\ restarts \in Nat
        BY <1>1, RestartIsEarned DEF TlsInv, TlsTypeOK
      <4> QED BY <4>1, SMT
    <3>2. phase' \in Phases
      BY <1>1, RestartIsEarned DEF Phases
    <3>3. restarted' \in BOOLEAN
      BY <1>1, RestartIsEarned
    <3> QED BY <1>1, <3>1, <3>2, <3>3, RestartIsEarned
            DEF TlsInv, Check, TlsTypeOK, mountVars, copyVars
  <2>2. WholeUnlessWritten' /\ SettledIsOlder'
    BY <1>1, RestartIsEarned DEF TlsInv, Check, WholeUnlessWritten, SettledIsOlder, mountVars
  <2>3. PairServed'
    BY <1>1 DEF TlsInv, Check, Watching, PairServed, Running, PairMatches, copyVars
  <2>4. restarts' <= rewrites' /\ rewrites' = rewrites
    <3>1. rewrites' = rewrites
      BY <1>1 DEF Check, mountVars
    <3>2. restarts < rewrites /\ restarts' = restarts + 1
      BY <1>1, RestartIsEarned
    <3> QED BY <3>1, <3>2, SMT DEF TlsInv, TlsTypeOK
  <2>5. RestartsAreEarned' /\ NoneInHand'
    BY <1>1, <2>4, RestartIsEarned
       DEF Check, RestartsAreEarned, NoneInHand, Watching, mountVars, copyVars
  <2> QED BY <2>1, <2>2, <2>3, <2>5 DEF TlsInv
<1>2. CASE Check /\ restarts' = restarts
  <2>1. /\ UNCHANGED <<phase, restarted>> /\ settled' = FALSE
        /\ pending' = NoPending \/ (pending' = cert /\ cert # Torn)
    <3>1. ~SendsSignal
      BY <1>2, SMT DEF SendsSignal, TlsInv, TlsTypeOK
    <3> QED BY <1>2, <3>1 DEF Check, NothingToInstall
  <2>2. TlsTypeOK'
    BY <1>2, <2>1 DEF TlsInv, Check, TlsTypeOK, Contents, mountVars, copyVars
  <2>3. WholeUnlessWritten' /\ SettledIsOlder'
    BY <1>2, <2>1 DEF TlsInv, Check, WholeUnlessWritten, SettledIsOlder, mountVars
  <2>4. PairServed' /\ RestartsAreEarned' /\ NoneInHand'
    BY <1>2, <2>1 DEF TlsInv, Check, PairServed, Running, PairMatches, RestartsAreEarned,
       NoneInHand, Watching, mountVars, copyVars
  <2> QED BY <2>2, <2>3, <2>4 DEF TlsInv
<1>3. CASE SettleElapses
  <2>1. TlsTypeOK'
    BY <1>3 DEF TlsInv, SettleElapses, TlsTypeOK, mountVars, copyVars
  <2>2. WholeUnlessWritten' /\ SettledIsOlder'
    BY <1>3 DEF TlsInv, SettleElapses, TlsTypeOK, WholeUnlessWritten, SettledIsOlder, mountVars
  <2>3. PairServed' /\ RestartsAreEarned' /\ NoneInHand'
    BY <1>3 DEF TlsInv, SettleElapses, PairServed, Running, PairMatches, RestartsAreEarned,
       NoneInHand, Watching, mountVars, copyVars
  <2> QED BY <2>1, <2>2, <2>3 DEF TlsInv
<1> QED BY <1>1, <1>2, <1>3

\* The process is gone.
LEMMA GoneKeeps ==
  ASSUME TlsInv, ProcessGone, deaths' \in 0..MaxDeaths
  PROVE  TlsInv'
<1> USE TlsAssumption DEF TlsInv
<1>1. TlsTypeOK'
  <2>1. 1 \in 1..MaxAttempts
    BY SMT
  <2>2. "down" \in Phases /\ Torn \in Contents
    BY DEF Phases, Contents
  <2>3. FALSE \in BOOLEAN
    OBVIOUS
  <2> QED BY <2>1, <2>2, <2>3 DEF ProcessGone, TlsTypeOK, mountVars
<1>2. WholeUnlessWritten' /\ SettledIsOlder'
  BY DEF ProcessGone, WholeUnlessWritten, SettledIsOlder, mountVars
<1>3. PairServed' /\ RestartsAreEarned' /\ NoneInHand'
  BY DEF ProcessGone, PairServed, Running, RestartsAreEarned, NoneInHand, Watching, mountVars
<1> QED BY <1>1, <1>2, <1>3

\* The watcher stops.
LEMMA WatcherStopsKeeps ==
  ASSUME TlsInv, WatcherStops
  PROVE  TlsInv'
<1> USE DEF TlsInv, WatcherStops, mountVars, copyVars, watchVars
<1>1. TlsTypeOK'
  BY DEF TlsTypeOK, Phases
<1>2. WholeUnlessWritten' /\ SettledIsOlder'
  BY DEF WholeUnlessWritten, SettledIsOlder
<1>3. PairServed' /\ RestartsAreEarned' /\ NoneInHand'
  BY DEF PairServed, Running, PairMatches, RestartsAreEarned, NoneInHand, Watching
<1> QED BY <1>1, <1>2, <1>3

\* An attempt of the entrypoint fails.
LEMMA AttemptFailsKeeps ==
  ASSUME TlsInv, AttemptFails
  PROVE  TlsInv'
<1> USE TlsAssumption
<1>1. CASE tries < MaxAttempts
  <2>1. /\ tries' = tries + 1 /\ phase' = "copy cert"
        /\ UNCHANGED <<mountVars, servedCert, servedKey, watchVars, deaths>>
    BY <1>1 DEF AttemptFails
  <2>2. TlsTypeOK'
    <3>1. tries' \in 1..MaxAttempts
      <4>1. tries \in 1..MaxAttempts /\ tries' = tries + 1
        BY <2>1 DEF TlsInv, TlsTypeOK
      <4> QED BY <1>1, <4>1, SMT
    <3>2. phase' \in Phases
      BY <2>1 DEF Phases
    <3> QED BY <2>1, <3>1, <3>2 DEF TlsInv, TlsTypeOK, mountVars, watchVars
  <2>3. WholeUnlessWritten' /\ SettledIsOlder'
    BY <2>1 DEF TlsInv, WholeUnlessWritten, SettledIsOlder, mountVars, watchVars
  <2>4. PairServed' /\ RestartsAreEarned' /\ NoneInHand'
    BY <2>1 DEF TlsInv, PairServed, Running, RestartsAreEarned, NoneInHand, Watching,
       mountVars, watchVars
  <2> QED BY <2>2, <2>3, <2>4 DEF TlsInv
<1>2. CASE ~(tries < MaxAttempts)
  BY <1>2, GoneKeeps DEF AttemptFails, TlsInv, TlsTypeOK
<1> QED BY <1>1, <1>2

\* The container starts, copies and checks.
LEMMA StartsKeep ==
  ASSUME TlsInv, ContainerStarts \/ Entrypoint
  PROVE  TlsInv'
<1> USE TlsAssumption
<1>1. CASE ContainerStarts
  <2> USE <1>1 DEF TlsInv, ContainerStarts, mountVars, copyVars, watchVars
  <2>1. TlsTypeOK'
    BY DEF TlsTypeOK, Phases
  <2>2. WholeUnlessWritten' /\ SettledIsOlder'
    BY DEF WholeUnlessWritten, SettledIsOlder
  <2>3. PairServed' /\ RestartsAreEarned' /\ NoneInHand'
    BY DEF PairServed, Running, RestartsAreEarned, NoneInHand, Watching
  <2> QED BY <2>1, <2>2, <2>3
<1>2. CASE CopyCert /\ ~AttemptFails
  <2>1. /\ phase = "copy cert" /\ servedCert' = cert /\ phase' = "copy key"
        /\ UNCHANGED <<mountVars, servedKey, tries, watchVars, deaths>>
    BY <1>2 DEF CopyCert
  <2> USE <2>1 DEF TlsInv, mountVars, watchVars
  <2>2. TlsTypeOK'
    BY DEF TlsTypeOK, Phases
  <2>3. WholeUnlessWritten' /\ SettledIsOlder'
    BY DEF WholeUnlessWritten, SettledIsOlder
  <2>4. PairServed' /\ RestartsAreEarned' /\ NoneInHand'
    BY DEF PairServed, Running, RestartsAreEarned, NoneInHand, Watching
  <2> QED BY <2>2, <2>3, <2>4
<1>3. CASE CopyKey /\ ~AttemptFails
  <2>1. /\ phase = "copy key" /\ servedKey' = key /\ phase' = "check"
        /\ UNCHANGED <<mountVars, servedCert, tries, watchVars, deaths>>
    BY <1>3 DEF CopyKey
  <2> USE <2>1 DEF TlsInv, mountVars, watchVars
  <2>2. TlsTypeOK'
    BY DEF TlsTypeOK, Phases
  <2>3. WholeUnlessWritten' /\ SettledIsOlder'
    BY DEF WholeUnlessWritten, SettledIsOlder
  <2>4. PairServed' /\ RestartsAreEarned' /\ NoneInHand'
    BY DEF PairServed, Running, RestartsAreEarned, NoneInHand, Watching
  <2> QED BY <2>2, <2>3, <2>4
<1>4. CASE CheckPair /\ ~AttemptFails
  <2>1. /\ phase = "check" /\ PairMatches /\ phase' = "serving"
        /\ UNCHANGED <<mountVars, copyVars, watchVars, deaths>>
    BY <1>4 DEF CheckPair
  <2> USE <2>1 DEF TlsInv, mountVars, copyVars, watchVars
  <2>2. TlsTypeOK'
    BY DEF TlsTypeOK, Phases
  <2>3. WholeUnlessWritten' /\ SettledIsOlder'
    BY DEF WholeUnlessWritten, SettledIsOlder
  <2>4. PairServed' /\ RestartsAreEarned' /\ NoneInHand'
    BY DEF PairServed, PairMatches, RestartsAreEarned, NoneInHand, Watching
  <2> QED BY <2>2, <2>3, <2>4
<1>5. CASE AttemptFails
  BY <1>5, AttemptFailsKeeps
<1> QED BY <1>1, <1>2, <1>3, <1>4, <1>5 DEF Entrypoint

-----------------------------------------------------------------------------
(***************************************************************************)
(* Together.                                                               *)
(***************************************************************************)

\* What is mounted is served, and nothing is open.
LEMMA InitSatisfies ==
  ASSUME Init
  PROVE  IInv
<1>1. ClientInv
  BY ClientStarts DEF Init
<1>2. cert \in Chains /\ cert.whole /\ cert.version = target /\ target \in Versions
  BY DEF Init, TlsInit, Chains
<1>3. TlsTypeOK
  <2>1. tries \in 1..MaxAttempts /\ rewrites \in 0..MaxRewrites /\ deaths \in 0..MaxDeaths
        /\ restarts \in Nat
    BY TlsAssumption DEF Init, TlsInit
  <2>2. readable \in BOOLEAN /\ settled \in BOOLEAN /\ restarted \in BOOLEAN
    BY DEF Init, TlsInit
  <2>3. phase \in Phases
    BY DEF Init, TlsInit, Phases
  <2> QED BY <1>2, <2>1, <2>2, <2>3 DEF Init, TlsInit, TlsTypeOK, Contents
<1>4. WholeUnlessWritten /\ SettledIsOlder
  BY <1>2 DEF Init, TlsInit, WholeUnlessWritten, SettledIsOlder
<1>5. PairServed /\ RestartsAreEarned /\ NoneInHand
  BY <1>2 DEF Init, TlsInit, PairServed, PairMatches, RestartsAreEarned, NoneInHand
<1> QED BY <1>1, <1>3, <1>4, <1>5 DEF IInv, TlsInv

\* A step of the one side that leaves the other alone.
LEMMA ClientFrame ==
  ASSUME ClientInv, UNCHANGED clientVars, closing # "no" => phase' = "stopping"
  PROVE  ClientInv'
  BY DEF ClientInv, clientVars, ClientTypeOK, QueueMatches, All, OneOpen, StopsWhenStopping

\* The same for the other side.
LEMMA TlsFrame ==
  ASSUME TlsInv, UNCHANGED tlsVars
  PROVE  TlsInv'
<1> USE DEF TlsInv, tlsVars, mountVars, copyVars, watchVars
<1>1. TlsTypeOK'
  BY DEF TlsTypeOK
<1>2. WholeUnlessWritten' /\ SettledIsOlder'
  BY DEF WholeUnlessWritten, SettledIsOlder
<1>3. PairServed' /\ RestartsAreEarned' /\ NoneInHand'
  BY DEF PairServed, Running, PairMatches, RestartsAreEarned, NoneInHand, Watching
<1> QED BY <1>1, <1>2, <1>3

\* Every step keeps the invariant.
LEMMA NextKeeps ==
  ASSUME IInv, [Next]_vars
  PROVE  IInv'
<1> USE DEF IInv
<1>1. CASE Mount
  <2>1. UNCHANGED phase
    BY <1>1 DEF Mount, Appliance, RewriteBegins, ChainIsCut, CertWritten, KeyBegins,
       KeyWritten, ReadableFlips
  <2> QED BY <1>1, <2>1, ApplianceKeeps, ClientFrame DEF Mount, ClientInv, StopsWhenStopping
<1>2. CASE Watch
  <2>1. closing = "no"
    BY <1>2 DEF Watch, Check, SettleElapses, Watching, ClientInv, StopsWhenStopping
  <2> QED BY <1>2, <2>1, WatchKeeps, ClientFrame DEF Watch
<1>3. CASE Polls
  BY <1>3, PollsKeep, TlsFrame DEF Polls, tlsVars
<1>4. CASE LifespanEnds
  BY <1>4, WatcherStopsKeeps, StopBeginningKeeps DEF LifespanEnds, WatcherStops
<1>5. CASE StopStep
  BY <1>5, StoppingKeeps, TlsFrame DEF StopStep, tlsVars
<1>6. CASE ProcessExits
  BY <1>6, GoneKeeps, ClientStarts DEF ProcessExits, TlsInv, TlsTypeOK
<1>7. CASE ProcessDies
  <2>1. deaths' \in 0..MaxDeaths
    <3>1. deaths \in 0..MaxDeaths /\ deaths < MaxDeaths /\ deaths' = deaths + 1
      BY <1>7 DEF ProcessDies, TlsInv, TlsTypeOK
    <3> QED BY <3>1, TlsAssumption, SMT
  <2> QED BY <1>7, <2>1, GoneKeeps, ClientStarts DEF ProcessDies
<1>8. CASE Starts
  <2>1. closing = "no"
    BY <1>8 DEF Starts, ContainerStarts, Entrypoint, CopyCert, CopyKey, CheckPair,
       ClientInv, StopsWhenStopping
  <2> QED BY <1>8, <2>1, StartsKeep, ClientFrame DEF Starts
<1>9. CASE UNCHANGED vars
  BY <1>9, ClientFrame, TlsFrame DEF vars, tlsVars, ClientInv, StopsWhenStopping
<1> QED BY <1>1, <1>2, <1>3, <1>4, <1>5, <1>6, <1>7, <1>8, <1>9 DEF Next

\* IInv holds for any number of versions, connections, rewrites and deaths.
THEOREM Invariance == Spec => []IInv
<1>1. Init => IInv
  BY InitSatisfies
<1>2. IInv /\ [Next]_vars => IInv'
  BY NextKeeps
<1> QED BY <1>1, <1>2, PTL DEF Spec

\* client.py, tls_watch.py, docker-entrypoint.sh: the state keeps its types; the lock
\* has two entries at most.
THEOREM TypeCorrect == Spec => []TypeOK
<1>1. IInv => TypeOK
  BY DEF IInv, ClientInv, TlsInv, TypeOK
<1> QED BY <1>1, Invariance, PTL

\* client.py: every connection that is open is the pooled one or the one being
\* authenticated, and there is one at most.
THEOREM ClientForgetsNothing == Spec => []NoConnectionForgotten
<1>1. ASSUME IInv PROVE NoConnectionForgotten
  <2>1. open = {socket, fresh} \ {None} /\ (socket = None \/ fresh = None)
    BY <1>1 DEF IInv, ClientInv, OneOpen
  <2>2. open = {} \/ \E c : open = {c}
    BY <2>1
  <2>3. Cardinality(open) \in {0, 1}
    BY <2>2, FS_EmptySet, FS_Singleton
  <2>4. Cardinality(open) <= 1
    BY <2>3
  <2> QED BY <2>1, <2>4 DEF NoConnectionForgotten
<1> QED BY <1>1, Invariance, PTL

\* state.py stop(): a shutdown leaves no connection open on the appliance.
THEOREM ShutdownIsClean == Spec => []StopLeavesNothingOpen
<1>1. ASSUME IInv PROVE StopLeavesNothingOpen
  BY <1>1 DEF IInv, ClientInv, OneOpen, StopLeavesNothingOpen
<1> QED BY <1>1, Invariance, PTL

\* docker-entrypoint.sh: the certificate and the key that are served are a pair.
THEOREM PairIsServed == Spec => []ServedPairMatches
<1>1. IInv => ServedPairMatches
  BY DEF IInv, TlsInv, PairServed, PairMatches, ServedPairMatches
<1> QED BY <1>1, Invariance, PTL

\* tls_watch.py: there are never more restarts than rewrites, however many deaths and
\* failed starts lie between them.
THEOREM NoRestartLoop == Spec => []RestartsAreEarned
<1>1. IInv => RestartsAreEarned
  BY DEF IInv, TlsInv
<1> QED BY <1>1, Invariance, PTL

\* tls_watch.py: a restart is for a whole certificate that is not the one served.
THEOREM RestartsArePrecise == Spec => RestartsForAWholeRenewal
<1>1. ASSUME IInv, [Next]_vars
      PROVE  [restarts' # restarts => cert \in Chains /\ cert.whole /\ cert # servedCert]_vars
  <2> SUFFICES ASSUME Next, restarts' # restarts
               PROVE  cert \in Chains /\ cert.whole /\ cert # servedCert
    BY <1>1 DEF vars, tlsVars, watchVars
  <2>1. Check
    BY DEF Next, Mount, Appliance, RewriteBegins, ChainIsCut, CertWritten, KeyBegins,
       KeyWritten, ReadableFlips, Watch, SettleElapses, Polls, LifespanEnds, WatcherStops,
       StopStep, ProcessExits, ProcessDies, ProcessGone, Starts, ContainerStarts,
       Entrypoint, CopyCert, CopyKey, CheckPair, AttemptFails, tlsVars, watchVars
  <2> QED BY <1>1, <2>1, RestartIsEarned DEF IInv
<1> QED BY <1>1, Invariance, PTL DEF Spec, RestartsForAWholeRenewal
=============================================================================
