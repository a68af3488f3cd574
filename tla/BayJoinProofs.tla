---------------------------- MODULE BayJoinProofs ----------------------------
(***************************************************************************)
(* Theorems about BayJoin, for any drives, bays, names and swaps: types,   *)
(* and when a bay may show, or withhold, another drive's ZFS status.       *)
(***************************************************************************)
EXTENDS BayJoin, TLAPS

-----------------------------------------------------------------------------
(***************************************************************************)
(* The inductive invariant.                                                *)
(***************************************************************************)

\* Two entries of a name are of one drive, or there is only one.
OneDrive(entry, other) == entry = None \/ other = None \/ entry = other

\* Between the two queries a name that was not assigned anew keeps its holder or loses it,
PoolsHold ==
  truenas = "pools" => \A n \in Names \ straddled : OneDrive(pools.disk[n], Holder(n))

\* ... so that the two indexes agree, but for entries of members that had left,
HalvesAgree ==
  truenas = "half" => \A n \in Names \ (mixed \cup recalled) : OneDrive(zfs[n], disks[n])

\* ... also once both are stored.
CachesAgree ==
  truenas # "half" => \A n \in Names \ (mixed \cup recalled) : OneDrive(zfs[n], remote[n])

\* A reader under which nothing is stored has what the indexes hold now.
ReaderReads ==
  /\ reader # "idle" => local \in {holder, Unreadable}
  /\ (reader # "idle" /\ ~overtaken) => truenas # "half"
  /\ (reader \in {"remote", "done"} /\ ~overtaken) => record = Lookup(remote)
  /\ (reader = "done" /\ ~overtaken) => pool = Lookup(zfs)

IInv == TypeOK /\ PoolsHold /\ HalvesAgree /\ CachesAgree /\ ReaderReads

\* The type invariant in parts.
ShelfOK ==
  /\ at \in [Bays -> Drives \cup {None}]
  /\ name \in [Drives -> Names \cup {None}]
  /\ former \in [Drives -> Names \cup {None}]
  /\ Attached /\ FormerLeft
  /\ swaps \in 0..MaxSwaps

CachesOK ==
  /\ slots \in [Bays -> Names \cup {None}]
  /\ zfs \in Index /\ remote \in Index /\ smart \in Index
  /\ truenas \in {"idle", "pools", "half"}
  /\ pools \in Pools /\ disks \in Index /\ temps \in Index
  /\ straddled \subseteq Names /\ mixed \subseteq Names /\ recalled \subseteq Names
  /\ heat \in {"idle", "asked"}

ReaderOK ==
  /\ reader \in {"idle", "live", "remote", "done"}
  /\ device \in Names \cup {None}
  /\ local \in Drives \cup {None, Unreadable}
  /\ known \subseteq Identifiers
  /\ holder \in Drives \cup {None}
  /\ record \in Drives \cup {None}
  /\ pool \in Drives \cup {None}
  /\ heated \in Drives \cup {None}
  /\ overtaken \in BOOLEAN

LEMMA TypeParts == TypeOK <=> ShelfOK /\ CachesOK /\ ReaderOK
  BY DEF TypeOK, ShelfOK, CachesOK, ReaderOK

LEMMA Assembled ==
  ASSUME ShelfOK', CachesOK', ReaderOK', PoolsHold', HalvesAgree', CachesAgree', ReaderReads'
  PROVE  IInv'
  BY DEF IInv, TypeOK, ShelfOK, CachesOK, ReaderOK

LEMMA NoneIsNobody ==
  /\ None \notin Drives \cup Names /\ Unreadable \notin Drives \cup {None}
  /\ MaxSwaps \in Nat
  BY ConstantsAssumption DEF ConstantsAssumption

LEMMA NoIndexIsOne == NoIndex \in Index
  BY DEF NoIndex, Index

LEMMA HolderIsOne ==
  /\ \A n : Holder(n) \in Drives \cup {None}
  /\ \A n : Holder(n) # None => name[Holder(n)] = n /\ Holder(n) \in Drives
  /\ \A n : Holder(n) = None => \A d \in Drives : name[d] # n
  BY NoneIsNobody DEF Holder

LEMMA AnswerIsAnIndex == Answer \in Index
  BY HolderIsOne DEF Answer, Index

LEMMA NoPoolsIsOne == NoPools \in Pools
  BY NoIndexIsOne DEF NoPools, Pools

LEMMA LookupIsOne ==
  ASSUME IInv, NEW index \in Index
  PROVE  Lookup(index) \in Drives \cup {None}
  BY TypeParts DEF IInv, ReaderOK, Lookup, Index

-----------------------------------------------------------------------------
(***************************************************************************)
(* What steps leave as it is.                                              *)
(***************************************************************************)

LEMMA ShelfStands ==
  ASSUME IInv, UNCHANGED hw_vars
  PROVE  ShelfOK' /\ Answer' = Answer /\ \A n : Holder(n)' = Holder(n)
  <1>1. ShelfOK' /\ \A n : Holder(n)' = Holder(n)
    BY TypeParts DEF IInv, hw_vars, ShelfOK, Attached, FormerLeft, Holder
  <1> QED BY <1>1 DEF Answer

LEMMA NasStands ==
  ASSUME IInv, UNCHANGED nas_vars
  PROVE  HalvesAgree' /\ CachesAgree'
  BY DEF IInv, nas_vars, HalvesAgree, CachesAgree

LEMMA PoolsStand ==
  ASSUME IInv, UNCHANGED hw_vars, UNCHANGED nas_vars
  PROVE  PoolsHold'
  <1>1. \A n : Holder(n)' = Holder(n)
    BY ShelfStands
  <1> QED BY <1>1 DEF IInv, nas_vars, PoolsHold

LEMMA ReaderStands ==
  ASSUME IInv, UNCHANGED read_vars
  PROVE  /\ ReaderOK'
         /\ UNCHANGED <<zfs, remote, truenas>> => ReaderReads'
  <1>1. ReaderOK'
    BY TypeParts DEF IInv, read_vars, ReaderOK
  <1>2. UNCHANGED <<zfs, remote, truenas>> => ReaderReads'
    BY DEF IInv, read_vars, ReaderReads, Lookup
  <1> QED BY <1>1, <1>2

-----------------------------------------------------------------------------
(***************************************************************************)
(* A step on the inductive invariant, action by action.                    *)
(***************************************************************************)

LEMMA InitInv == Init => IInv
  <1> HAVE Init
  <1>1. ShelfOK
    BY NoneIsNobody DEF Init, ShelfOK
  <1>2. CachesOK
    BY NoIndexIsOne, NoPoolsIsOne DEF Init, CachesOK
  <1>3. ReaderOK
    BY DEF Init, ReaderIdle, ReaderOK
  <1>4. PoolsHold /\ HalvesAgree /\ CachesAgree /\ ReaderReads
    BY DEF Init, ReaderIdle, PoolsHold, HalvesAgree, CachesAgree, ReaderReads, NoIndex, OneDrive
  <1> QED BY <1>1, <1>2, <1>3, <1>4, TypeParts DEF IInv

LEMMA RemoveInv ==
  ASSUME IInv, NEW b \in Bays, Remove(b)
  PROVE  IInv'
  <1>1. at[b] \in Drives /\ at \in [Bays -> Drives \cup {None}]
        /\ name \in [Drives -> Names \cup {None}] /\ Attached
        /\ former \in [Drives -> Names \cup {None}] /\ FormerLeft
    BY TypeParts DEF IInv, ShelfOK, Remove
  <1>2. at' = [at EXCEPT ![b] = None] /\ name' = [name EXCEPT ![at[b]] = None] /\ at[b] # None
    BY DEF Remove
  <1>3. Attached'
    <2>1. \A d, e \in Drives : name'[d] = name'[e] /\ name'[d] # None => d = e
      BY <1>1, <1>2 DEF Attached
    <2>2. \A c, e \in Bays : at'[c] = at'[e] /\ at'[c] # None => c = e
      BY <1>1, <1>2 DEF Attached
    <2>3. ASSUME NEW d \in Drives PROVE name'[d] # None <=> \E c \in Bays : at'[c] = d
      <3>1. CASE d = at[b]
        BY <1>1, <1>2, <3>1, NoneIsNobody DEF Attached
      <3>2. CASE d # at[b]
        <4>1. name'[d] = name[d]
          BY <1>1, <1>2, <3>2
        <4>2. (\E c \in Bays : at'[c] = d) <=> \E c \in Bays : at[c] = d
          BY <1>1, <1>2, <3>2, NoneIsNobody
        <4> QED BY <1>1, <4>1, <4>2 DEF Attached
      <3> QED BY <3>1, <3>2
    <2> QED BY <2>1, <2>2, <2>3 DEF Attached
  <1>4. ShelfOK'
    <2>1. swaps' \in 0..MaxSwaps
      BY TypeParts DEF IInv, ShelfOK, Remove
    <2>2. former' = former \/ former' = [former EXCEPT ![at[b]] = name[at[b]]]
      BY DEF Remove
    <2>3. former' \in [Drives -> Names \cup {None}]
      BY <1>1, <2>2
    <2>4. FormerLeft'
      BY <1>1, <1>2, <2>2 DEF FormerLeft
    <2> QED BY <1>1, <1>2, <1>3, <2>1, <2>3, <2>4 DEF ShelfOK
  <1>5. CachesOK' /\ ReaderOK' /\ ReaderReads' /\ HalvesAgree' /\ CachesAgree'
    BY NasStands, ReaderStands, TypeParts DEF IInv, CachesOK, Remove, nas_vars, smart_vars
  <1>6. \A n \in Names : Holder(n)' \in {Holder(n), None}
    <2> SUFFICES ASSUME NEW n \in Names, Holder(n)' # None PROVE Holder(n)' = Holder(n)
      OBVIOUS
    <2> DEFINE d == Holder(n)'
    <2>1. d \in Drives /\ name'[d] = n
      BY DEF Holder
    <2>2. name[d] = n /\ n # None
      BY <1>1, <1>2, <2>1, NoneIsNobody
    <2>3. Holder(n) \in Drives /\ name[Holder(n)] = n
      BY <2>1, <2>2 DEF Holder
    <2> QED BY <1>1, <2>1, <2>2, <2>3 DEF Attached
  <1>7. PoolsHold'
    BY <1>6 DEF IInv, PoolsHold, OneDrive, Remove, nas_vars
  <1> QED BY <1>4, <1>5, <1>7, Assembled

LEMMA InsertInv ==
  ASSUME IInv, NEW b \in Bays, NEW d \in Drives, NEW n \in Names, Insert(b, d, n)
  PROVE  IInv'
  <1>1. at \in [Bays -> Drives \cup {None}] /\ name \in [Drives -> Names \cup {None}] /\ Attached
    BY TypeParts DEF IInv, ShelfOK
  <1>2. /\ at[b] = None /\ name[d] = None /\ Holder(n) = None
        /\ at' = [at EXCEPT ![b] = d] /\ name' = [name EXCEPT ![d] = n]
    BY DEF Insert
  <1>3. \A e \in Drives : name[e] # n
    BY <1>2, HolderIsOne
  <1>4. Attached'
    <2>1. \A e, f \in Drives : name'[e] = name'[f] /\ name'[e] # None => e = f
      BY <1>1, <1>2, <1>3 DEF Attached
    <2>2. \A c \in Bays : at[c] # d
      BY <1>1, <1>2 DEF Attached
    <2>3. \A c, e \in Bays : at'[c] = at'[e] /\ at'[c] # None => c = e
      BY <1>1, <1>2, <2>2 DEF Attached
    <2>4. ASSUME NEW e \in Drives PROVE name'[e] # None <=> \E c \in Bays : at'[c] = e
      <3>1. CASE e = d
        BY <1>1, <1>2, <3>1, NoneIsNobody
      <3>2. CASE e # d
        <4>1. name'[e] = name[e]
          BY <1>1, <1>2, <3>2
        <4>2. (\E c \in Bays : at'[c] = e) <=> \E c \in Bays : at[c] = e
          BY <1>1, <1>2, <3>2, NoneIsNobody
        <4> QED BY <1>1, <4>1, <4>2 DEF Attached
      <3> QED BY <3>1, <3>2
    <2> QED BY <2>1, <2>3, <2>4 DEF Attached
  <1>5. ShelfOK'
    <2>1. swaps' \in 0..MaxSwaps
      BY NoneIsNobody, TypeParts DEF IInv, ShelfOK, Insert
    <2>2. former' = [former EXCEPT ![d] = None] /\ former \in [Drives -> Names \cup {None}]
          /\ FormerLeft
      BY TypeParts DEF IInv, ShelfOK, Insert
    <2>3. FormerLeft'
      BY <1>1, <1>2, <2>2 DEF FormerLeft
    <2> QED BY <1>1, <1>2, <1>4, <2>1, <2>2, <2>3 DEF ShelfOK
  <1>6. CachesOK'
    BY TypeParts DEF IInv, CachesOK, Insert, smart_vars
  <1>7. HalvesAgree' /\ CachesAgree'
    BY DEF IInv, HalvesAgree, CachesAgree, Insert
  <1>8. ReaderOK' /\ ReaderReads'
    BY ReaderStands DEF Insert
  <1>9. PoolsHold'
    <2> SUFFICES ASSUME truenas = "pools", NEW m \in Names \ straddled'
                 PROVE  OneDrive(pools.disk[m], Holder(m)')
      BY DEF PoolsHold, OneDrive, Insert
    <2>1. m # n /\ m \in Names \ straddled
      BY DEF Insert
    <2>2. \A e \in Drives : name'[e] = m <=> name[e] = m
      BY <1>1, <1>2, <2>1, NoneIsNobody
    <2>3. Holder(m)' = Holder(m)
      BY <2>2 DEF Holder
    <2> QED BY <2>1, <2>3 DEF IInv, PoolsHold
  <1> QED BY <1>5, <1>6, <1>7, <1>8, <1>9, Assembled

LEMMA ForgetInv ==
  ASSUME IInv, NEW d \in Drives, Forget(d)
  PROVE  IInv'
  <1>1. ShelfOK'
    <2>1. former' = [former EXCEPT ![d] = None] /\ UNCHANGED <<at, name, swaps>>
      BY DEF Forget
    <2>2. former \in [Drives -> Names \cup {None}] /\ FormerLeft
      BY TypeParts DEF IInv, ShelfOK
    <2>3. FormerLeft'
      BY <2>1, <2>2 DEF FormerLeft
    <2>4. Attached'
      BY <2>1, TypeParts DEF IInv, ShelfOK, Attached
    <2> QED BY <2>1, <2>2, <2>3, <2>4, TypeParts DEF IInv, ShelfOK
  <1>2. \A n : Holder(n)' = Holder(n)
    BY DEF Forget, Holder
  <1>3. PoolsHold'
    BY <1>2 DEF IInv, PoolsHold, OneDrive, Forget, nas_vars
  <1>4. CachesOK'
    BY TypeParts DEF IInv, CachesOK, Forget, nas_vars, smart_vars
  <1>5. HalvesAgree' /\ CachesAgree'
    BY NasStands DEF Forget
  <1>6. ReaderOK' /\ ReaderReads'
    BY ReaderStands DEF Forget, nas_vars
  <1> QED BY <1>1, <1>3, <1>4, <1>5, <1>6, Assembled

\* A step of the SMART poll or of the slot cache, or none.
LEMMA AsideInv ==
  ASSUME IInv, UNCHANGED <<hw_vars, nas_vars>>, UNCHANGED read_vars, CachesOK'
  PROVE  IInv'
  BY ShelfStands, NasStands, PoolsStand, ReaderStands, Assembled DEF nas_vars

LEMMA PollHardwareInv ==
  ASSUME IInv, PollHardware
  PROVE  IInv'
  <1>1. slots' \in [Bays -> Names \cup {None}]
    <2>1. \A b \in Bays : at[b] # None => name[at[b]] \in Names \cup {None}
      BY TypeParts DEF IInv, ShelfOK
    <2> QED BY <2>1 DEF PollHardware
  <1>2. CachesOK'
    BY <1>1, TypeParts DEF IInv, CachesOK, PollHardware, nas_vars, smart_vars
  <1> QED BY <1>2, AsideInv DEF PollHardware

LEMMA SmartInv ==
  ASSUME IInv, TempsAnswer \/ SmartStored \/ SmartFails
  PROVE  IInv'
  <1>1. CachesOK'
    BY AnswerIsAnIndex, NoIndexIsOne, TypeParts
    DEF IInv, CachesOK, TempsAnswer, SmartStored, SmartFails, nas_vars
  <1> QED BY <1>1, AsideInv DEF TempsAnswer, SmartStored, SmartFails

LEMMA PoolsAnswerInv ==
  ASSUME IInv, PoolsAnswer
  PROVE  IInv'
  <1>1. ShelfOK' /\ ReaderOK' /\ \A n : Holder(n)' = Holder(n)
    BY ShelfStands, ReaderStands DEF PoolsAnswer
  <1>2. PICK disk \in [Names -> {Answer[n] : n \in Names} \cup {None}] :
          /\ \A n \in Names : disk[n] \in {Answer[n], None}
          /\ pools' = [disk |-> disk, unavail |-> [n \in Names |-> Left(n)]]
    BY DEF PoolsAnswer
  <1>3. pools' \in Pools
    <2>1. disk \in Index
      BY <1>2, AnswerIsAnIndex DEF Index
    <2>2. [n \in Names |-> Left(n)] \in [Names -> SUBSET Drives]
      BY DEF Left
    <2> QED BY <1>2, <2>1, <2>2 DEF Pools
  <1>4. CachesOK'
    BY <1>3, TypeParts DEF IInv, CachesOK, PoolsAnswer, smart_vars
  <1>5. PoolsHold'
    <2>1. \A n \in Names : pools'.disk[n] \in {Holder(n), None}
      BY <1>2 DEF Answer
    <2> QED BY <1>1, <2>1 DEF PoolsHold, OneDrive
  <1>6. HalvesAgree' /\ CachesAgree'
    BY DEF IInv, HalvesAgree, CachesAgree, PoolsAnswer, LoopIdle
  <1>7. ReaderReads'
    BY DEF IInv, ReaderReads, PoolsAnswer, LoopIdle, read_vars, Lookup
  <1> QED BY <1>1, <1>4, <1>5, <1>6, <1>7, Assembled

\* What the index is made of: the member that has the name, or one that had it.
LEMMA StoredIsListed ==
  ASSUME NEW index \in StoredPools, NEW n \in Names, index[n] \notin pools.unavail[n]
  PROVE  index[n] \in {pools.disk[n], None}
  BY DEF StoredPools, Leaves

LEMMA DisksAnswerInv ==
  ASSUME IInv, DisksAnswer
  PROVE  IInv'
  <1>1. ShelfOK'
    BY ShelfStands DEF DisksAnswer
  <1>2. CachesOK'
    BY AnswerIsAnIndex, NoPoolsIsOne, TypeParts
    DEF IInv, CachesOK, DisksAnswer, StoredPools, smart_vars
  <1>3. ReaderOK'
    BY TypeParts DEF IInv, ReaderOK, DisksAnswer
  <1>4. PoolsHold' /\ CachesAgree'
    BY DEF PoolsHold, CachesAgree, DisksAnswer
  <1>5. HalvesAgree'
    <2> SUFFICES ASSUME NEW n \in Names, n \notin mixed', n \notin recalled'
                 PROVE  OneDrive(zfs'[n], disks'[n])
      BY DEF HalvesAgree, OneDrive
    <2>1. /\ zfs' \in StoredPools /\ disks' = Answer /\ mixed' = straddled /\ truenas = "pools"
          /\ recalled' = {m \in Names : zfs'[m] \in pools.unavail[m]}
      BY DEF DisksAnswer
    <2>2. zfs'[n] \in {pools.disk[n], None}
      BY <2>1, StoredIsListed
    <2>3. disks'[n] = Holder(n)
      BY <2>1 DEF Answer
    <2>4. OneDrive(pools.disk[n], Holder(n))
      BY <2>1 DEF IInv, PoolsHold
    <2> QED BY <2>2, <2>3, <2>4 DEF OneDrive
  <1>6. ReaderReads'
    BY DEF IInv, ReaderReads, DisksAnswer
  <1> QED BY <1>1, <1>2, <1>3, <1>4, <1>5, <1>6, Assembled

LEMMA DisksStoredInv ==
  ASSUME IInv, DisksStored
  PROVE  IInv'
  <1>1. ShelfOK'
    BY ShelfStands DEF DisksStored
  <1>2. CachesOK'
    BY NoIndexIsOne, TypeParts DEF IInv, CachesOK, DisksStored, smart_vars
  <1>3. ReaderOK'
    BY TypeParts DEF IInv, ReaderOK, DisksStored
  <1>4. PoolsHold' /\ HalvesAgree' /\ CachesAgree'
    BY DEF IInv, PoolsHold, HalvesAgree, CachesAgree, DisksStored
  <1>5. ReaderReads'
    BY DEF IInv, ReaderReads, DisksStored
  <1> QED BY <1>1, <1>2, <1>3, <1>4, <1>5, Assembled

LEMMA TruenasFailsInv ==
  ASSUME IInv, TruenasFails
  PROVE  IInv'
  <1>1. ShelfOK' /\ ReaderOK'
    BY ShelfStands, ReaderStands DEF TruenasFails
  <1>2. CachesOK'
    BY NoPoolsIsOne, TypeParts DEF IInv, CachesOK, TruenasFails, smart_vars
  <1>3. PoolsHold' /\ HalvesAgree' /\ CachesAgree'
    BY DEF IInv, PoolsHold, HalvesAgree, CachesAgree, TruenasFails
  <1>4. ReaderReads'
    BY DEF IInv, ReaderReads, TruenasFails, read_vars, Lookup
  <1> QED BY <1>1, <1>2, <1>3, <1>4, Assembled

LEMMA ReaderInv ==
  ASSUME IInv, UNCHANGED <<hw_vars, slots, nas_vars, smart_vars>>, ReaderOK', ReaderReads'
  PROVE  IInv'
  <1>1. CachesOK'
    BY TypeParts DEF IInv, CachesOK, nas_vars, smart_vars
  <1> QED BY <1>1, ShelfStands, NasStands, PoolsStand, Assembled

LEMMA ReadLocalInv ==
  ASSUME IInv, ReadLocal
  PROVE  IInv'
  <1>1. device' \in Names \cup {None}
    BY TypeParts DEF IInv, CachesOK, ReadLocal
  <1>2. holder' \in Drives \cup {None}
    BY HolderIsOne DEF ReadLocal
  <1>3. local' \in {holder', Unreadable}
    BY DEF ReadLocal
  <1>4. known' \subseteq Identifiers
    <2>1. \A d \in Drives : Sysfs[d] \subseteq Identifiers
      BY ConstantsAssumption DEF ConstantsAssumption
    <2> QED BY <2>1 DEF ReadLocal
  <1>5. overtaken' = (truenas = "half") /\ reader' = "live"
        /\ UNCHANGED <<record, pool, heated>>
    BY DEF ReadLocal
  <1>6. ReaderOK'
    BY <1>1, <1>2, <1>3, <1>4, <1>5, TypeParts DEF IInv, ReaderOK
  <1>7. ReaderReads'
    BY <1>3, <1>5 DEF ReaderReads, ReadLocal, nas_vars
  <1> QED BY <1>6, <1>7, ReaderInv DEF ReadLocal

LEMMA LookupsInv ==
  ASSUME IInv, LookupRemote \/ LookupSignals
  PROVE  IInv'
  <1>1. /\ Lookup(remote) \in Drives \cup {None} /\ Lookup(zfs) \in Drives \cup {None}
        /\ Lookup(smart) \in Drives \cup {None}
    BY LookupIsOne, TypeParts DEF IInv, CachesOK
  <1>2. CASE LookupRemote
    <2>1. ReaderOK'
      BY <1>1, <1>2, TypeParts DEF IInv, ReaderOK, LookupRemote
    <2>2. ReaderReads'
      BY <1>2 DEF IInv, ReaderReads, LookupRemote, nas_vars, Lookup
    <2> QED BY <1>2, <2>1, <2>2, ReaderInv DEF LookupRemote
  <1>3. CASE LookupSignals
    <2>1. ReaderOK'
      BY <1>1, <1>3, TypeParts DEF IInv, ReaderOK, LookupSignals
    <2>2. ReaderReads'
      BY <1>3 DEF IInv, ReaderReads, LookupSignals, nas_vars, Lookup
    <2> QED BY <1>3, <2>1, <2>2, ReaderInv DEF LookupSignals
  <1> QED BY <1>2, <1>3

LEMMA ReaderEndsInv ==
  ASSUME IInv, ReaderEnds
  PROVE  IInv'
  BY ReaderInv DEF ReaderEnds, ReaderOK, ReaderReads

LEMMA NextInv ==
  ASSUME IInv, [Next]_vars
  PROVE  IInv'
  <1>1. CASE Shelf
    BY <1>1, RemoveInv, InsertInv, ForgetInv DEF Shelf
  <1>2. CASE Polls
    BY <1>2, PollHardwareInv, SmartInv, PoolsAnswerInv, DisksAnswerInv, DisksStoredInv,
       TruenasFailsInv DEF Polls
  <1>3. CASE Compose
    BY <1>3, ReadLocalInv, LookupsInv, ReaderEndsInv DEF Compose
  <1>4. CASE UNCHANGED vars
    <2>1. UNCHANGED <<hw_vars, nas_vars>> /\ UNCHANGED read_vars
      BY <1>4 DEF vars
    <2>2. CachesOK'
      BY <1>4, TypeParts DEF IInv, CachesOK, vars, nas_vars, smart_vars
    <2> QED BY <2>1, <2>2, AsideInv
  <1> QED BY <1>1, <1>2, <1>3, <1>4 DEF Next

LEMMA Inductive == Spec => []IInv
  <1>1. IInv /\ [Next]_vars => IInv'
    BY NextInv
  <1> QED BY <1>1, InitInv, PTL DEF Spec

-----------------------------------------------------------------------------
(***************************************************************************)
(* The theorems.                                                           *)
(***************************************************************************)

\* JoinTypeCorrect: types of the caches of state.py and of the thread that joins them; no
\* two drives have a block name, and only those in a bay have one.
THEOREM JoinTypeCorrect == Spec => []TypeOK
  <1>1. IInv => TypeOK
    BY DEF IInv
  <1> QED BY <1>1, Inductive, PTL

\* What a reader that nothing overtook found under a name that was not re-assigned between
\* the queries nor remembered by ZFS: a record and a status of one drive.
LEMMA RecordIsThePools ==
  ASSUME IInv, reader = "done", ~overtaken, device \notin mixed \cup recalled
  PROVE  OneDrive(pool, record)
  <1>1. record = Lookup(remote) /\ pool = Lookup(zfs) /\ truenas # "half"
    BY DEF IInv, ReaderReads
  <1>2. device # None => device \in Names \ (mixed \cup recalled)
    BY TypeParts DEF IInv, ReaderOK
  <1> QED BY <1>1, <1>2 DEF IInv, CachesAgree, Lookup, OneDrive

\* WrongPoolIsExcused: _compose_bays() attributes a ZFS status to another drive only if
\* ZFS still listed that one under the name, a drive was inserted between the two queries
\* of a poll, a poll stored its results while the bay was composed, or the record has no
\* identifier that was read from the drive too.
THEOREM WrongPoolIsExcused == Spec => []WrongPoolNeedsStraddle
  <1>1. IInv => WrongPoolNeedsStraddle
    <2> SUFFICES ASSUME IInv, reader = "done", local \in Drives, ShownPool \in Drives,
                        ShownPool # local, device \notin recalled \cup mixed, ~overtaken,
                        record # None, known \cap DiskQuery[record] # {}
                 PROVE  FALSE
      BY DEF WrongPoolNeedsStraddle
    <2>1. ~Swapped /\ ShownPool = pool
      BY NoneIsNobody DEF ShownPool
    <2>2. record = pool
      BY <2>1, RecordIsThePools, NoneIsNobody DEF OneDrive
    <2> QED BY <2>1, <2>2, NoneIsNobody DEF Swapped, Conflict
  <1> QED BY <1>1, Inductive, PTL

\* SilenceIsExcused: a ZFS status given for the drive in the bay while it was there is
\* withheld only if a drive was inserted between the queries, or a poll overtook the bay.
THEOREM SilenceIsExcused == Spec => []SilenceNeedsStraddle
  <1>1. IInv => SilenceNeedsStraddle
    <2> SUFFICES ASSUME IInv, reader = "done", pool = holder, device \notin mixed \cup recalled,
                        ~overtaken, Swapped, pool # None
                 PROVE  FALSE
      BY DEF SilenceNeedsStraddle, ShownPool
    <2>1. OneDrive(pool, record)
      BY RecordIsThePools
    <2>2. record # None /\ local \in Drives /\ local # record
      BY DEF Swapped, Conflict
    <2>3. local = holder
      BY <2>2, NoneIsNobody DEF IInv, ReaderReads
    <2> QED BY <2>1, <2>2, <2>3 DEF OneDrive
  <1> QED BY <1>1, Inductive, PTL

=============================================================================
