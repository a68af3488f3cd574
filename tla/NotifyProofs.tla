---------------------------- MODULE NotifyProofs ----------------------------
(***************************************************************************)
(* Theorems about Notify, for any bays, health values and process deaths:  *)
(* types, what _last holds of what the operator was told, and that nothing *)
(* is announced twice.                                                     *)
(***************************************************************************)
EXTENDS Notify, TLAPS

-----------------------------------------------------------------------------
(***************************************************************************)
(* The inductive invariant.                                                *)
(***************************************************************************)

\* What is being sent is news to the bay it is sent for.
SentIsNews == \A b \in Bays : pending[b] # None => pending[b] # last[b]

\* The operator has heard what was accepted.
AcceptedIsTold == \A b \in accepted : told[b] = pending[b]

IInv == TypeOK /\ LastIsTold /\ SentIsNews /\ AcceptedIsTold

\* The type invariant in parts.
MapsOK ==
  /\ notify_recovery \in BOOLEAN
  /\ health \in [Bays -> Health]
  /\ last \in [Bays -> Known] /\ file \in [Bays -> Known] /\ cooling \in [Bays -> Known]
  /\ loaded \in BOOLEAN

RunOK ==
  /\ phase \in {"idle", "composed", "sending", "saving"}
  /\ bays \in [Bays -> Known] /\ pending \in [Bays -> Known]
  /\ accepted \subseteq Sent /\ rejected \subseteq Sent /\ accepted \cap rejected = {}
  /\ changed \in BOOLEAN

HistoryOK ==
  /\ told \in [Bays -> Known] /\ unaware \subseteq Bays /\ unsaved \in BOOLEAN
  /\ crashes \in 0..MaxCrashes

PhaseOK ==
  /\ phase \in {"sending", "saving"} => loaded
  /\ phase = "sending" <=> Sent # {}
  /\ IF phase = "composed" THEN bays \in [Bays -> Health] ELSE bays = Nothing

LEMMA TypeParts == TypeOK <=> MapsOK /\ RunOK /\ HistoryOK /\ PhaseOK
  BY DEF TypeOK, MapsOK, RunOK, HistoryOK, PhaseOK

LEMMA Assembled ==
  ASSUME MapsOK', RunOK', HistoryOK', PhaseOK', LastIsTold', SentIsNews', AcceptedIsTold'
  PROVE  IInv'
  BY DEF IInv, TypeOK, MapsOK, RunOK, HistoryOK, PhaseOK

LEMMA NoneIsNoHealth == None \notin Health /\ Bad \subseteq Health /\ MaxCrashes \in Nat
  BY ConstantsAssumption DEF ConstantsAssumption

LEMMA NothingIsKnown == Nothing \in [Bays -> Known]
  BY DEF Nothing, Known

LEMMA NothingIsSent == pending = Nothing => Sent = {}
  BY DEF Nothing, Sent

-----------------------------------------------------------------------------
(***************************************************************************)
(* A step on it, action by action.                                         *)
(***************************************************************************)

LEMMA InitInv == Init => IInv
  <1> HAVE Init
  <1>1. Sent = {}
    BY NothingIsSent DEF Init, Stopped
  <1>2. MapsOK /\ RunOK /\ PhaseOK
    BY <1>1, NothingIsKnown DEF Init, Stopped, MapsOK, RunOK, PhaseOK, Known
  <1>3. HistoryOK
    <2>1. crashes \in 0..MaxCrashes
      BY NoneIsNoHealth DEF Init
    <2> QED BY <2>1, NothingIsKnown DEF Init, HistoryOK
  <1>4. LastIsTold /\ SentIsNews /\ AcceptedIsTold
    BY DEF Init, Stopped, Nothing, LastIsTold, SentIsNews, AcceptedIsTold
  <1> QED BY <1>2, <1>3, <1>4, TypeParts DEF IInv

\* What the steps share that send and announce nothing.
LEMMA NothingAnnounced ==
  ASSUME IInv, UNCHANGED <<last, loaded, pending, accepted, told, unaware>>
  PROVE  LastIsTold' /\ SentIsNews' /\ AcceptedIsTold' /\ Sent' = Sent
  BY DEF IInv, LastIsTold, SentIsNews, AcceptedIsTold, Sent

LEMMA ComposeInv ==
  ASSUME IInv, Compose
  PROVE  IInv'
  <1>1. LastIsTold' /\ SentIsNews' /\ AcceptedIsTold' /\ Sent' = Sent
    BY NothingAnnounced DEF Compose, memory_vars, history_vars
  <1>2. MapsOK' /\ HistoryOK'
    BY TypeParts DEF IInv, MapsOK, HistoryOK, Compose, memory_vars, history_vars
  <1>3. RunOK'
    BY <1>1, TypeParts DEF IInv, MapsOK, RunOK, Compose, Known
  <1>4. PhaseOK'
    BY <1>1, TypeParts DEF IInv, MapsOK, PhaseOK, Compose
  <1> QED BY <1>1, <1>2, <1>3, <1>4, Assembled

LEMMA EvaluateInv ==
  ASSUME IInv, Evaluate
  PROVE  IInv'
  <1>1. PICK m \in Loads :
       LET steady == {b \in Bays : Steady(b, m[b])}
           alerts == {b \in Bays \ steady : Wants(b, m[b])}
           silent == Bays \ (steady \cup alerts)
           send   == {b \in alerts : ~Held(b)}
       IN
         /\ last' = [b \in Bays |-> IF b \in silent THEN bays[b] ELSE m[b]]
         /\ cooling' = [b \in Bays |-> IF b \in alerts THEN cooling[b] ELSE None]
         /\ pending' = [b \in Bays |-> IF b \in send THEN bays[b] ELSE None]
         /\ changed' = (silent # {})
         /\ phase' = IF send # {} THEN "sending"
                     ELSE IF silent # {} THEN "saving" ELSE "idle"
         /\ told' = [b \in Bays |-> IF b \in silent /\ bays[b] \notin Bad
                                    THEN bays[b] ELSE told[b]]
         /\ unaware' = (IF loaded THEN unaware ELSE {b \in Bays : m[b] # told[b]}) \ silent
         /\ unsaved' = IF loaded THEN unsaved ELSE m # file
    BY DEF Evaluate
  <1> DEFINE steady == {b \in Bays : Steady(b, m[b])}
             alerts == {b \in Bays \ steady : Wants(b, m[b])}
             silent == Bays \ (steady \cup alerts)
             send   == {b \in alerts : ~Held(b)}
  <1>2. /\ loaded' = TRUE /\ bays' = Nothing /\ phase = "composed"
        /\ UNCHANGED <<notify_recovery, health, file, accepted, rejected, crashes>>
    BY DEF Evaluate
  <1>3. m \in [Bays -> Known] /\ (loaded => m = last)
    BY NothingIsKnown, TypeParts DEF IInv, MapsOK, Loads
  <1>4. accepted = {} /\ rejected = {} /\ Sent = {}
    BY <1>2, TypeParts DEF IInv, RunOK, PhaseOK
  <1>5. silent \subseteq Bays /\ send \subseteq Bays /\ alerts \subseteq Bays
    OBVIOUS
  <1>6. \A b \in silent : bays[b] \notin Bad
    BY DEF Wants
  <1>7. \A b \in send : bays[b] # m[b] /\ b \notin silent
    BY DEF Steady
  <1>8. MapsOK'
    BY <1>1, <1>2, <1>3, TypeParts DEF IInv, MapsOK, RunOK, Known
  <1>9. HistoryOK'
    <2>1. told' \in [Bays -> Known]
      BY <1>1, TypeParts DEF IInv, RunOK, HistoryOK
    <2>2. unaware' \subseteq Bays /\ unsaved' \in BOOLEAN
      BY <1>1, TypeParts DEF IInv, HistoryOK
    <2> QED BY <1>2, <2>1, <2>2, TypeParts DEF IInv, HistoryOK
  <1>10. \A b \in Bays : pending'[b] = IF b \in send THEN bays[b] ELSE None
    BY <1>1
  <1>11. RunOK'
    <2>1. pending' \in [Bays -> Known]
      BY <1>1, TypeParts DEF IInv, RunOK, Known
    <2>2. bays' \in [Bays -> Known]
      BY <1>2, NothingIsKnown
    <2>3. phase' \in {"idle", "composed", "sending", "saving"} /\ changed' \in BOOLEAN
      BY <1>1
    <2> QED BY <1>2, <1>4, <2>1, <2>2, <2>3 DEF RunOK
  <1>12. PhaseOK'
    <2>1. \A b \in Bays : bays[b] # None
      BY <1>2, NoneIsNoHealth, TypeParts DEF IInv, PhaseOK
    <2>2. Sent' = send
      BY <1>5, <1>10, <2>1 DEF Sent
    <2>3. phase' = IF send # {} THEN "sending" ELSE IF silent # {} THEN "saving" ELSE "idle"
      BY <1>1
    <2> HIDE DEF send, silent
    <2> QED BY <1>2, <2>2, <2>3 DEF PhaseOK, Nothing
  <1>13. LastIsTold'
    <2> SUFFICES ASSUME NEW b \in Bays, b \notin unaware' PROVE last'[b] = told'[b]
      BY DEF LastIsTold
    <2>1. CASE b \in silent
      BY <1>1, <1>6, <2>1
    <2>2. CASE b \notin silent
      <3>1. last'[b] = m[b] /\ told'[b] = told[b]
        BY <1>1, <2>2
      <3>2. CASE loaded
        <4>1. b \notin unaware
          BY <1>1, <2>2, <3>2
        <4> QED BY <1>3, <1>4, <3>1, <3>2, <4>1 DEF IInv, LastIsTold
      <3>3. CASE ~loaded
        BY <1>1, <2>2, <3>1, <3>3
      <3> QED BY <3>2, <3>3
    <2> QED BY <2>1, <2>2
  <1>14. SentIsNews'
    BY <1>1, <1>7, <1>10 DEF SentIsNews
  <1>15. AcceptedIsTold'
    BY <1>2, <1>4 DEF AcceptedIsTold
  <1> QED BY <1>8, <1>9, <1>11, <1>12, <1>13, <1>14, <1>15, Assembled

LEMMA AcceptInv ==
  ASSUME IInv, NEW b \in Bays, Accept(b)
  PROVE  IInv'
  <1>1. pending[b] # None /\ b \notin accepted \cup rejected /\ b \in Sent
    BY DEF Accept, Awaited, Sent
  <1>2. Sent' = Sent
    BY DEF Accept, Sent
  <1>3. MapsOK'
    BY TypeParts DEF IInv, MapsOK, Accept, memory_vars
  <1>4. RunOK'
    BY <1>1, <1>2, TypeParts DEF IInv, RunOK, Accept
  <1>5. HistoryOK'
    BY TypeParts DEF IInv, HistoryOK, RunOK, Accept
  <1>6. PhaseOK'
    BY <1>2, TypeParts DEF IInv, PhaseOK, Accept, memory_vars, Nothing
  <1>7. LastIsTold'
    BY TypeParts DEF IInv, HistoryOK, LastIsTold, Accept, memory_vars
  <1>8. SentIsNews'
    BY DEF IInv, SentIsNews, Accept, memory_vars
  <1>9. AcceptedIsTold'
    BY TypeParts DEF IInv, HistoryOK, AcceptedIsTold, Accept
  <1> QED BY <1>3, <1>4, <1>5, <1>6, <1>7, <1>8, <1>9, Assembled

LEMMA RejectInv ==
  ASSUME IInv, NEW b \in Bays, Reject(b)
  PROVE  IInv'
  <1>1. pending[b] # None /\ b \notin accepted \cup rejected /\ b \in Sent
    BY DEF Reject, Awaited, Sent
  <1>2. Sent' = Sent
    BY DEF Reject, Sent
  <1>3. MapsOK'
    BY TypeParts DEF IInv, MapsOK, Reject, memory_vars
  <1>4. RunOK'
    BY <1>1, <1>2, TypeParts DEF IInv, RunOK, Reject
  <1>5. /\ told' \in [Bays -> Known] /\ unaware' \subseteq Bays
        /\ \A c \in Bays : told'[c] = told[c] \/ (c = b /\ b \in unaware')
        /\ unaware \subseteq unaware'
    <2>1. told \in [Bays -> Known] /\ unaware \subseteq Bays /\ pending[b] \in Known
      BY TypeParts DEF IInv, HistoryOK, RunOK
    <2>2. CASE UNCHANGED <<told, unaware>>
      BY <2>1, <2>2
    <2>3. CASE told' = [told EXCEPT ![b] = pending[b]] /\ unaware' = unaware \cup {b}
      BY <2>1, <2>3
    <2> QED BY <2>2, <2>3 DEF Reject
  <1>6. HistoryOK'
    BY <1>5, TypeParts DEF IInv, HistoryOK, Reject
  <1>7. PhaseOK'
    BY <1>2, TypeParts DEF IInv, PhaseOK, Reject, memory_vars, Nothing
  <1>8. LastIsTold'
    BY <1>5 DEF IInv, LastIsTold, Reject, memory_vars
  <1>9. SentIsNews'
    BY DEF IInv, SentIsNews, Reject, memory_vars
  <1>10. AcceptedIsTold'
    <2> SUFFICES ASSUME NEW c \in accepted PROVE told'[c] = pending[c]
      BY DEF AcceptedIsTold, Reject
    <2>1. c \in Bays /\ c # b
      BY <1>1, TypeParts DEF IInv, RunOK, Sent
    <2> QED BY <1>5, <2>1 DEF IInv, AcceptedIsTold
  <1> QED BY <1>3, <1>4, <1>6, <1>7, <1>8, <1>9, <1>10, Assembled

LEMMA CommitInv ==
  ASSUME IInv, Commit
  PROVE  IInv'
  <1> DEFINE sent == {b \in Bays : Commits(b)}
  <1>1. sent = accepted
    BY TypeParts DEF IInv, RunOK, Sent, Commits
  <1>2. /\ last' = [b \in Bays |-> IF b \in accepted THEN pending[b] ELSE last[b]]
        /\ cooling' = [b \in Bays |-> IF b \in accepted THEN None
                                      ELSE IF b \in Sent THEN pending[b] ELSE cooling[b]]
        /\ unaware' = unaware \ accepted
    BY <1>1 DEF Commit
  <1>3. /\ changed' = Changed /\ phase' = IF Changed THEN "saving" ELSE "idle"
        /\ pending' = Nothing /\ accepted' = {} /\ rejected' = {} /\ phase = "sending"
        /\ UNCHANGED <<notify_recovery, health, loaded, file, bays, told, unsaved, crashes>>
    BY DEF Commit
  <1>4. Sent' = {}
    BY <1>3 DEF Sent, Nothing
  <1>5. MapsOK'
    BY <1>2, <1>3, TypeParts DEF IInv, MapsOK, RunOK, Known
  <1>6. RunOK'
    <2>1. changed' \in BOOLEAN
      BY <1>3, TypeParts DEF IInv, RunOK, Changed
    <2> QED BY <1>3, <1>4, <2>1, NothingIsKnown, TypeParts DEF IInv, RunOK
  <1>7. HistoryOK'
    BY <1>2, <1>3, TypeParts DEF IInv, HistoryOK
  <1>8. PhaseOK'
    BY <1>3, <1>4, TypeParts DEF IInv, PhaseOK, Nothing
  <1>9. LastIsTold'
    BY <1>2, <1>3 DEF IInv, LastIsTold, AcceptedIsTold
  <1>10. SentIsNews' /\ AcceptedIsTold'
    BY <1>3 DEF SentIsNews, AcceptedIsTold, Nothing
  <1> QED BY <1>5, <1>6, <1>7, <1>8, <1>9, <1>10, Assembled

LEMMA SaveInv ==
  ASSUME IInv, Save
  PROVE  IInv'
  <1>1. LastIsTold' /\ SentIsNews' /\ AcceptedIsTold' /\ Sent' = Sent
    BY NothingAnnounced DEF Save, memory_vars
  <1>2. MapsOK' /\ HistoryOK'
    BY TypeParts DEF IInv, MapsOK, HistoryOK, Save, memory_vars
  <1>3. RunOK'
    BY <1>1, TypeParts DEF IInv, RunOK, Save
  <1>4. PhaseOK'
    BY <1>1, TypeParts DEF IInv, PhaseOK, Save, memory_vars, Nothing
  <1> QED BY <1>1, <1>2, <1>3, <1>4, Assembled

\* A step of the world or none, that leaves the evaluation where it is.
LEMMA WorldInv ==
  ASSUME IInv, UNCHANGED <<notify_recovery, last, loaded, file, running_vars, history_vars>>,
         health' \in [Bays -> Health], cooling' \in [Bays -> Known]
  PROVE  IInv'
  <1>1. LastIsTold' /\ SentIsNews' /\ AcceptedIsTold' /\ Sent' = Sent
    BY NothingAnnounced DEF running_vars, history_vars
  <1>2. MapsOK' /\ HistoryOK'
    BY TypeParts DEF IInv, MapsOK, HistoryOK, history_vars
  <1>3. RunOK'
    BY <1>1, TypeParts DEF IInv, RunOK, running_vars
  <1>4. PhaseOK'
    BY <1>1, TypeParts DEF IInv, PhaseOK, running_vars, Nothing
  <1> QED BY <1>1, <1>2, <1>3, <1>4, Assembled

LEMMA HealthChangesInv ==
  ASSUME IInv, NEW b \in Bays, HealthChanges(b)
  PROVE  IInv'
  <1>1. health' \in [Bays -> Health] /\ cooling' \in [Bays -> Known]
    BY TypeParts DEF IInv, MapsOK, HealthChanges, memory_vars
  <1> QED BY <1>1, WorldInv DEF HealthChanges, memory_vars

LEMMA CooledDownInv ==
  ASSUME IInv, NEW b \in Bays, CooledDown(b)
  PROVE  IInv'
  <1>1. health' \in [Bays -> Health] /\ cooling' \in [Bays -> Known]
    BY TypeParts DEF IInv, MapsOK, CooledDown, Known
  <1> QED BY <1>1, WorldInv DEF CooledDown

LEMMA CrashInv ==
  ASSUME IInv, Crash
  PROVE  IInv'
  <1>1. Sent' = {}
    BY DEF Crash, Sent, Nothing
  <1>2. MapsOK'
    BY NothingIsKnown, TypeParts DEF IInv, MapsOK, Crash
  <1>3. RunOK'
    BY <1>1, NothingIsKnown DEF RunOK, Crash
  <1>4. HistoryOK'
    <2>1. crashes' \in 0..MaxCrashes
      BY NoneIsNoHealth, TypeParts DEF IInv, HistoryOK, Crash
    <2> QED BY <2>1, TypeParts DEF IInv, HistoryOK, Crash
  <1>5. PhaseOK'
    BY <1>1 DEF PhaseOK, Crash, Nothing
  <1>6. LastIsTold' /\ SentIsNews' /\ AcceptedIsTold'
    BY DEF LastIsTold, SentIsNews, AcceptedIsTold, Crash, Nothing
  <1> QED BY <1>2, <1>3, <1>4, <1>5, <1>6, Assembled

LEMMA NextInv ==
  ASSUME IInv, [Next]_vars
  PROVE  IInv'
  <1>1. CASE Compose \/ Evaluate \/ Commit \/ Save
    BY <1>1, ComposeInv, EvaluateInv, CommitInv, SaveInv
  <1>2. CASE \E b \in Bays : Accept(b) \/ Reject(b)
    BY <1>2, AcceptInv, RejectInv
  <1>3. CASE \E b \in Bays : HealthChanges(b) \/ CooledDown(b)
    BY <1>3, HealthChangesInv, CooledDownInv
  <1>4. CASE Crash
    BY <1>4, CrashInv
  <1>5. CASE UNCHANGED vars
    <2>1. health' \in [Bays -> Health] /\ cooling' \in [Bays -> Known]
      BY <1>5, TypeParts DEF IInv, MapsOK, vars, memory_vars
    <2> QED BY <1>5, <2>1, WorldInv DEF vars, memory_vars
  <1> QED BY <1>1, <1>2, <1>3, <1>4, <1>5 DEF Next, Announce, World

LEMMA Inductive == Spec => []IInv
  <1>1. IInv /\ [Next]_vars => IInv'
    BY NextInv
  <1> QED BY <1>1, InitInv, PTL DEF Spec

-----------------------------------------------------------------------------
(***************************************************************************)
(* The theorems.                                                           *)
(***************************************************************************)

\* NotifierTypeCorrect: types of the notifier's maps and of the evaluation under way, with
\* the phases in which bays are composed and messages sent.
THEOREM NotifierTypeCorrect == Spec => []TypeOK
  <1>1. IInv => TypeOK
    BY DEF IInv
  <1> QED BY <1>1, Inductive, PTL

\* CommittedIsTold: _last of notify.py holds what the operator was told for every bay whose
\* message is not under way, the exceptions of LastIsTold apart.
THEOREM CommittedIsTold == Spec => []LastIsTold
  <1>1. IInv => LastIsTold
    BY DEF IInv
  <1> QED BY <1>1, Inductive, PTL

\* NothingIsRepeated: a message that evaluate() gets accepted says something else than the
\* one accepted before it for that bay, with the same exceptions.
THEOREM NothingIsRepeated == Spec => NeverRepeats
  <1> DEFINE News ==
        \A b \in Bays : b \in accepted' \ accepted /\ b \notin unaware => told[b] # pending[b]
  <1>1. ASSUME IInv, [Next]_vars PROVE News
    <2> SUFFICES ASSUME NEW b \in Bays, b \in accepted', b \notin accepted, b \notin unaware
                 PROVE  told[b] # pending[b]
      OBVIOUS
    <2>1. PICK c \in Bays : Accept(c)
      BY <1>1 DEF Next, Announce, World, vars, running_vars, Compose, Evaluate, Commit, Save,
                  Reject, HealthChanges, CooledDown, Crash
    <2>2. b = c
      BY <2>1 DEF Accept
    <2>3. pending[b] # None /\ b \in Sent
      BY <2>1, <2>2 DEF Accept, Awaited, Sent
    <2>4. loaded /\ pending[b] # last[b]
      BY <1>1, <2>3, TypeParts DEF IInv, PhaseOK, SentIsNews
    <2>5. last[b] = told[b]
      BY <1>1, <2>4 DEF IInv, LastIsTold
    <2> QED BY <2>4, <2>5
  <1> QED BY <1>1, Inductive, PTL DEF Spec, NeverRepeats

=============================================================================
