--------------------------- MODULE AccountsProofs ---------------------------
(***************************************************************************)
(* Theorems about Accounts, for any workers, users, operations and deaths: *)
(* types, and that the first-run endpoint never opens again.               *)
(***************************************************************************)
EXTENDS Accounts, FiniteSetTheorems, TLAPS

(***************************************************************************)
(* The inductive invariant.                                                *)
(***************************************************************************)

\* What a worker has in hand at each of its places.
Asked(w) == at[w] # "idle" => request[w] \in Requests

Carries(w) == at[w] \in {"open", "fill", "replace"} => table[w] \in Tables \ {NoAccounts}

HasOpened(w) == at[w] = "fill" => fd[w] \in Inodes

WorkersInv == \A w \in Workers : Asked(w) /\ Carries(w) /\ HasOpened(w)

\* Nothing that is ever written says that there are no accounts.
NeverWrittenEmpty == \A i \in Inodes : bytes[i] # NoAccounts

AccountsInv == AccountsTypeOK /\ WorkersInv /\ NeverWrittenEmpty

-----------------------------------------------------------------------------
(***************************************************************************)
(* The values.                                                             *)
(***************************************************************************)

LEMMA AbsentIsNone ==
  /\ Absent \notin Record /\ Absent \notin Tables /\ Absent \notin Inodes
  /\ Absent \notin Users
  /\ Empty \notin Tables /\ Garbage \notin Tables
  /\ MaxOps \in Nat /\ MaxDeaths \in Nat
  BY AccountsAssumption DEF AccountsAssumption

LEMMA NoAccountsIsATable == NoAccounts \in Tables
  BY DEF NoAccounts, Tables

LEMMA AccountsAreATable ==
  ASSUME AccountsInv, Readable
  PROVE  Accounts \in Tables
  BY NoAccountsIsATable DEF Readable, Accounts

\* A table with an account in it.
LEMMA Written ==
  ASSUME NEW t \in Tables, NEW u \in Users, NEW r \in Record
  PROVE  [t EXCEPT ![u] = r] \in Tables \ {NoAccounts}
  <1>1. [t EXCEPT ![u] = r] \in Tables
    BY DEF Tables
  <1>2. [t EXCEPT ![u] = r][u] = r
    BY DEF Tables
  <1>3. NoAccounts[u] # r
    BY AbsentIsNone DEF NoAccounts
  <1> QED BY <1>1, <1>2, <1>3

\* open() finds an inode that nobody uses: there are two more than writers.
LEMMA UnusedExists ==
  ASSUME AccountsInv, users_tmp = Absent
  PROVE  Unused \in Inodes /\ Unused # users_file
  <1> DEFINE Open == {fd[w] : w \in Workers}
             f == [w \in Workers |-> fd[w]]
  <1>1. f \in Surjection(Workers, Open)
    BY DEF Surjection
  <1>2. IsFiniteSet(Open) /\ Cardinality(Open) <= Cardinality(Workers)
    <2> HIDE DEF f, Open
    <2> QED BY <1>1, FS_Surjection, AccountsAssumption DEF AccountsAssumption
  <1>3. /\ IsFiniteSet(Open \cup {users_file})
        /\ Cardinality(Open \cup {users_file}) <= Cardinality(Workers) + 1
    <2> HIDE DEF Open
    <2>1. Cardinality(Open) \in Nat /\ Cardinality(Workers) \in Nat
      BY <1>2, FS_CardinalityType, AccountsAssumption DEF AccountsAssumption
    <2>2. /\ IsFiniteSet(Open \cup {users_file})
          /\ \/ Cardinality(Open \cup {users_file}) = Cardinality(Open)
             \/ Cardinality(Open \cup {users_file}) = Cardinality(Open) + 1
      BY <1>2, FS_AddElement
    <2> QED BY <1>2, <2>1, <2>2
  <1>4. ~(Inodes \subseteq Open \cup {users_file})
    <2> HIDE DEF Open
    <2> SUFFICES ASSUME Inodes \subseteq Open \cup {users_file} PROVE FALSE
      OBVIOUS
    <2>1. Cardinality(Inodes) <= Cardinality(Open \cup {users_file})
      BY <1>3, FS_Subset
    <2>2. /\ Cardinality(Inodes) = Cardinality(Workers) + 2
          /\ Cardinality(Workers) \in Nat /\ Cardinality(Open \cup {users_file}) \in Nat
      BY <1>3, FS_CardinalityType, AccountsAssumption DEF AccountsAssumption
    <2> QED BY <1>3, <2>1, <2>2
  <1>5. \E i \in Inodes : i \notin {users_file, users_tmp} \cup Open
    BY <1>4, AbsentIsNone
  <1> QED BY <1>5 DEF Unused

-----------------------------------------------------------------------------
(***************************************************************************)
(* A step on the inductive invariant, action by action.                    *)
(***************************************************************************)

LEMMA AccountsStart == AccountsInit => AccountsInv
  <1> HAVE AccountsInit
  <1>1. bytes \in [Inodes -> Contents] /\ NeverWrittenEmpty
    <2>1. CASE bytes = [i \in Inodes |-> Empty]
      BY <2>1, AbsentIsNone, NoAccountsIsATable DEF Contents, NeverWrittenEmpty
    <2>2. ASSUME NEW i \in Inodes, NEW u \in Users, NEW p \in Passwords,
                 bytes = [[j \in Inodes |-> Empty] EXCEPT ![i] =
                            [NoAccounts EXCEPT ![u] =
                               [password |-> p, epoch |-> 0, legacy |-> TRUE]]]
          PROVE  bytes \in [Inodes -> Contents] /\ NeverWrittenEmpty
      <3>1. [password |-> p, epoch |-> 0, legacy |-> TRUE] \in Record
        BY DEF Record
      <3>2. [NoAccounts EXCEPT ![u] = [password |-> p, epoch |-> 0, legacy |-> TRUE]]
              \in Tables \ {NoAccounts}
        BY <3>1, NoAccountsIsATable, Written
      <3> QED BY <2>2, <3>2, AbsentIsNone, NoAccountsIsATable DEF Contents, NeverWrittenEmpty
    <2> QED BY <2>1, <2>2 DEF AccountsInit
  <1>2. ops \in 0..MaxOps /\ deaths \in 0..MaxDeaths
    BY AbsentIsNone DEF AccountsInit
  <1>3. AccountsTypeOK
    BY <1>1, <1>2 DEF AccountsInit, AccountsTypeOK, Places
  <1>4. WorkersInv
    BY DEF AccountsInit, WorkersInv, Asked, Carries, HasOpened
  <1> QED BY <1>1, <1>3, <1>4 DEF AccountsInv

\* The parts of the type invariant.
FilesOK ==
  /\ bytes \in [Inodes -> Contents]
  /\ users_file \in Inodes \cup {Absent} /\ users_tmp \in Inodes \cup {Absent}

LocalsOK ==
  /\ at \in [Workers -> Places]
  /\ request \in [Workers -> Requests \cup {Absent}]
  /\ table \in [Workers -> Tables \cup {Absent}]
  /\ fd \in [Workers -> Inodes \cup {Absent}]

CountsOK == overlapped \in BOOLEAN /\ ops \in 0..MaxOps /\ deaths \in 0..MaxDeaths

LEMMA TypeParts ==
  AccountsTypeOK <=> FilesOK /\ LocalsOK /\ sessions \subseteq Sessions /\ CountsOK
  BY DEF AccountsTypeOK, FilesOK, LocalsOK, CountsOK

LEMMA Assembled ==
  ASSUME FilesOK', LocalsOK', sessions' \subseteq Sessions, CountsOK', WorkersInv',
         NeverWrittenEmpty'
  PROVE  AccountsInv'
  BY DEF AccountsTypeOK, FilesOK, LocalsOK, CountsOK, AccountsInv

\* What a step keeps that does not touch it.
LEMMA FilesKept ==
  ASSUME AccountsInv, UNCHANGED file_vars
  PROVE  FilesOK' /\ NeverWrittenEmpty'
  BY TypeParts DEF AccountsInv, FilesOK, NeverWrittenEmpty, file_vars

LEMMA CountsKept ==
  ASSUME AccountsInv, UNCHANGED <<ops, deaths>>, overlapped' \in BOOLEAN
  PROVE  CountsOK'
  BY TypeParts DEF AccountsInv, CountsOK

\* A worker's step leaves the others what they have.
Others(w) ==
  \A v \in Workers : v # w =>
    at'[v] = at[v] /\ request'[v] = request[v] /\ table'[v] = table[v] /\ fd'[v] = fd[v]

LEMMA OthersKept ==
  ASSUME AccountsInv, NEW w \in Workers, Others(w), Asked(w)', Carries(w)', HasOpened(w)'
  PROVE  WorkersInv'
  <1> SUFFICES ASSUME NEW v \in Workers, v # w
               PROVE  Asked(v)' /\ Carries(v)' /\ HasOpened(v)'
    BY DEF WorkersInv
  <1>1. at'[v] = at[v] /\ request'[v] = request[v] /\ table'[v] = table[v] /\ fd'[v] = fd[v]
    BY DEF Others
  <1>2. Asked(v) /\ Carries(v) /\ HasOpened(v)
    BY DEF AccountsInv, WorkersInv
  <1> QED BY <1>1, <1>2 DEF Asked, Carries, HasOpened

\* An operation that ends, ...
LEMMA EndsInv ==
  ASSUME AccountsInv, NEW w \in Workers, Ends(w)
  PROVE  LocalsOK' /\ WorkersInv'
  <1>1. LocalsOK'
    BY TypeParts DEF AccountsInv, LocalsOK, Ends, Places
  <1>2. Others(w) /\ at'[w] = "idle"
    BY TypeParts DEF AccountsInv, LocalsOK, Ends, Others
  <1> QED BY <1>1, <1>2, OthersKept DEF Asked, Carries, HasOpened

\* ... and one that goes on, with what it has in hand.
LEMMA ProceedsInv ==
  ASSUME AccountsInv, NEW w \in Workers, NEW place \in Places, Proceeds(w, place),
         at[w] # "idle" \/ request'[w] \in Requests,
         request' = request \/ \E r \in Requests : request' = [request EXCEPT ![w] = r],
         table' = table \/ \E t \in Tables : table' = [table EXCEPT ![w] = t],
         fd' = fd \/ \E i \in Inodes \cup {Absent} : fd' = [fd EXCEPT ![w] = i],
         place \in {"open", "fill", "replace"} => table'[w] \in Tables \ {NoAccounts},
         place = "fill" => fd'[w] \in Inodes
  PROVE  LocalsOK' /\ WorkersInv'
  <1>1. LocalsOK'
    BY TypeParts DEF AccountsInv, LocalsOK, Proceeds, Places
  <1>2. Others(w) /\ at'[w] = place
    BY TypeParts DEF AccountsInv, LocalsOK, Proceeds, Others
  <1>3. Asked(w)'
    BY TypeParts DEF AccountsInv, LocalsOK, WorkersInv, Asked
  <1>4. Carries(w)' /\ HasOpened(w)'
    BY <1>2 DEF Carries, HasOpened
  <1> QED BY <1>1, <1>2, <1>3, <1>4, OthersKept

LEMMA OpenTmpInv ==
  ASSUME AccountsInv, NEW w \in Workers, OpenTmp(w)
  PROVE  AccountsInv'
  <1>1. PICK i \in Inodes :
          /\ users_tmp' = i /\ fd' = [fd EXCEPT ![w] = i]
          /\ bytes' = [bytes EXCEPT ![i] = Empty]
    <2>1. (IF users_tmp # Absent THEN users_tmp ELSE Unused) \in Inodes
      BY UnusedExists, TypeParts DEF AccountsInv, FilesOK
    <2> QED BY <2>1 DEF OpenTmp
  <1>2. FilesOK' /\ NeverWrittenEmpty'
    BY <1>1, TypeParts, AbsentIsNone, NoAccountsIsATable
    DEF AccountsInv, FilesOK, NeverWrittenEmpty, OpenTmp, Contents
  <1>3. table[w] \in Tables \ {NoAccounts} /\ at[w] # "idle"
    BY DEF AccountsInv, WorkersInv, Carries, OpenTmp
  <1>4. fd'[w] \in Inodes
    BY <1>1, TypeParts DEF AccountsInv, LocalsOK
  <1>5. LocalsOK' /\ WorkersInv'
    BY <1>1, <1>3, <1>4, ProceedsInv DEF OpenTmp, Places
  <1>6. CountsOK' /\ sessions' \subseteq Sessions
    BY CountsKept, TypeParts DEF AccountsInv, OpenTmp, CountsOK
  <1> QED BY <1>2, <1>5, <1>6, Assembled

LEMMA FillInv ==
  ASSUME AccountsInv, NEW w \in Workers, Fill(w)
  PROVE  AccountsInv'
  <1>1. table[w] \in Tables \ {NoAccounts} /\ fd[w] \in Inodes /\ at[w] # "idle"
    BY DEF AccountsInv, WorkersInv, Carries, HasOpened, Fill
  <1>2. PICK text \in {table[w], Garbage} : bytes' = [bytes EXCEPT ![fd[w]] = text]
    BY DEF Fill
  <1>3. text \in Contents /\ text # NoAccounts
    BY <1>1, AbsentIsNone, NoAccountsIsATable DEF Contents
  <1>4. FilesOK' /\ NeverWrittenEmpty'
    BY <1>1, <1>2, <1>3, TypeParts DEF AccountsInv, FilesOK, NeverWrittenEmpty, Fill
  <1>5. LocalsOK' /\ WorkersInv'
    BY <1>1, ProceedsInv DEF Fill, Places
  <1>6. CountsOK' /\ sessions' \subseteq Sessions
    BY CountsKept, TypeParts DEF AccountsInv, Fill, CountsOK
  <1> QED BY <1>4, <1>5, <1>6, Assembled

\* What was asked for is still that when a worker notes something about it.
LEMMA NotedRequest ==
  ASSUME NEW r \in Requests, NEW b \in BOOLEAN
  PROVE  [r EXCEPT !.rehash = b] \in Requests /\ [r EXCEPT !.straddled = b] \in Requests
  BY DEF Requests

LEMMA ReplaceInv ==
  ASSUME AccountsInv, NEW w \in Workers, Replace(w)
  PROVE  AccountsInv'
  <1>1. FilesOK' /\ NeverWrittenEmpty'
    BY TypeParts DEF AccountsInv, FilesOK, NeverWrittenEmpty, Replace
  <1>2. CountsOK'
    BY CountsKept, TypeParts DEF AccountsInv, CountsOK, Replace
  <1>3. request[w] \in Requests
    BY DEF AccountsInv, WorkersInv, Asked, Replace
  <1>4. CASE request[w].rehash
    <2>1. /\ Proceeds(w, IF request[w].op = "login" THEN "issue" ELSE "read")
          /\ table' = table /\ sessions' = sessions /\ fd' = [fd EXCEPT ![w] = Absent]
          /\ request' = [request EXCEPT ![w] =
                           [request[w] EXCEPT !.rehash = (request[w].op = "login")]]
      BY <1>4 DEF Replace, Then
    <2>2. [request[w] EXCEPT !.rehash = (request[w].op = "login")] \in Requests
      BY <1>3, NotedRequest
    <2>3. PICK place \in {"issue", "read"} : Proceeds(w, place)
      BY <2>1
    <2>4. LocalsOK' /\ WorkersInv'
      BY <2>1, <2>2, <2>3, ProceedsInv DEF Places, Replace
    <2>5. sessions' \subseteq Sessions
      BY <2>1, TypeParts DEF AccountsInv
    <2> QED BY <1>1, <1>2, <2>4, <2>5, Assembled
  <1>5. CASE ~request[w].rehash
    <2>1. /\ at' = [at EXCEPT ![w] = "idle"] /\ table' = [table EXCEPT ![w] = Absent]
          /\ fd' = [fd EXCEPT ![w] = Absent]
          /\ request' = [v \in Workers |->
               IF v = w THEN Absent
               ELSE IF at[v] = "issue" /\ request[v].user = request[w].user
               THEN [request[v] EXCEPT !.straddled = TRUE]
               ELSE request[v]]
          /\ sessions' = {[s EXCEPT !.ended = s.ended \/ s.user = request[w].user] :
                            s \in sessions}
      BY <1>5 DEF Replace, Then
    <2>2. \A v \in Workers : at[v] # "idle" => request[v] \in Requests
      BY DEF AccountsInv, WorkersInv, Asked
    <2>3. \A v \in Workers : /\ request'[v] \in Requests \cup {Absent}
                             /\ v # w /\ at[v] # "idle" => request'[v] \in Requests
      BY <2>1, <2>2, NotedRequest, TypeParts DEF AccountsInv, LocalsOK
    <2>4. LocalsOK'
      BY <2>1, <2>3, TypeParts DEF AccountsInv, LocalsOK, Places
    <2>5. WorkersInv'
      <3> SUFFICES ASSUME NEW v \in Workers PROVE Asked(v)' /\ Carries(v)' /\ HasOpened(v)'
        BY DEF WorkersInv
      <3>1. CASE v = w
        BY <2>1, <3>1, TypeParts DEF AccountsInv, LocalsOK, Asked, Carries, HasOpened
      <3>2. CASE v # w
        <4>1. at'[v] = at[v] /\ table'[v] = table[v] /\ fd'[v] = fd[v]
          BY <2>1, <3>2, TypeParts DEF AccountsInv, LocalsOK
        <4>2. Asked(v) /\ Carries(v) /\ HasOpened(v)
          BY DEF AccountsInv, WorkersInv
        <4> QED BY <2>3, <3>2, <4>1, <4>2 DEF Asked, Carries, HasOpened
      <3> QED BY <3>1, <3>2
    <2>6. sessions' \subseteq Sessions
      <3>1. \A s \in Sessions, b \in BOOLEAN : [s EXCEPT !.ended = b] \in Sessions
        BY DEF Sessions
      <3>2. \A s \in sessions : (s.ended \/ s.user = request[w].user) \in BOOLEAN
        OBVIOUS
      <3> QED BY <2>1, <3>1, <3>2, TypeParts DEF AccountsInv
    <2> QED BY <1>1, <1>2, <2>4, <2>5, <2>6, Assembled
  <1> QED BY <1>4, <1>5

LEMMA WriteFailsInv ==
  ASSUME AccountsInv, NEW w \in Workers, WriteFails(w)
  PROVE  AccountsInv'
  <1>1. FilesOK' /\ NeverWrittenEmpty'
    BY FilesKept DEF WriteFails
  <1>2. CountsOK' /\ sessions' \subseteq Sessions
    BY CountsKept, TypeParts DEF AccountsInv, WriteFails, CountsOK
  <1> QED BY <1>1, <1>2, EndsInv, Assembled DEF WriteFails

LEMMA StartInv ==
  ASSUME AccountsInv, NEW w \in Workers, NEW op \in {"bootstrap", "login", "change", "revoke"},
         NEW u \in Users, NEW p \in Passwords, NEW n \in Passwords, Start(w, op, u, p, n)
  PROVE  AccountsInv'
  <1> DEFINE r == [op |-> op, user |-> u, password |-> p, new |-> n, rehash |-> FALSE,
                   straddled |-> FALSE]
  <1>1. FilesOK' /\ NeverWrittenEmpty' /\ sessions' \subseteq Sessions
    BY FilesKept, TypeParts DEF AccountsInv, Start
  <1>2. CountsOK'
    <2>1. ops < MaxOps /\ ops' = ops + 1 /\ deaths' = deaths
      BY DEF Start
    <2>2. ops' \in 0..MaxOps /\ deaths' \in 0..MaxDeaths
      BY <2>1, AbsentIsNone, TypeParts DEF AccountsInv, CountsOK
    <2>3. overlapped' \in BOOLEAN
      BY TypeParts DEF AccountsInv, CountsOK, Start
    <2> QED BY <2>2, <2>3 DEF CountsOK
  <1>3. r \in Requests /\ request' = [request EXCEPT ![w] = r]
    BY DEF Start, Requests
  <1>4. request'[w] = r
    BY <1>3, TypeParts DEF AccountsInv, LocalsOK
  <1>5. PICK place \in {"gate", "verify", "read"} : Proceeds(w, place)
    BY DEF Start, First
  <1>6. LocalsOK' /\ WorkersInv'
    <2> HIDE DEF r
    <2> QED BY <1>3, <1>4, <1>5, ProceedsInv DEF Start, Places
  <1> QED BY <1>1, <1>2, <1>6, Assembled

LEMMA GateInv ==
  ASSUME AccountsInv, NEW w \in Workers, Gate(w)
  PROVE  AccountsInv'
  <1>1. FilesOK' /\ NeverWrittenEmpty'
    BY FilesKept DEF Gate
  <1>2. CountsOK' /\ sessions' \subseteq Sessions
    BY CountsKept, TypeParts DEF AccountsInv, Gate, CountsOK
  <1>3. LocalsOK' /\ WorkersInv'
    <2>1. CASE NeedsBootstrap
      BY <2>1, ProceedsInv DEF Gate, Places
    <2>2. CASE ~NeedsBootstrap
      BY <2>2, EndsInv DEF Gate
    <2> QED BY <2>1, <2>2
  <1> QED BY <1>1, <1>2, <1>3, Assembled

LEMMA VerifyInv ==
  ASSUME AccountsInv, NEW w \in Workers, Verify(w)
  PROVE  AccountsInv'
  <1>1. FilesOK' /\ NeverWrittenEmpty'
    BY FilesKept DEF Verify
  <1>2. CountsOK' /\ sessions' \subseteq Sessions
    BY CountsKept, TypeParts DEF AccountsInv, Verify, CountsOK
  <1>3. LocalsOK' /\ WorkersInv'
    <2> DEFINE r == request[w]
    <2>0. r \in Requests /\ at[w] # "idle"
      BY DEF AccountsInv, WorkersInv, Asked, Verify
    <2>1. CASE ~Readable \/ Accounts[r.user] = Absent \/ Accounts[r.user].password # r.password
      BY <2>1, EndsInv DEF Verify
    <2>2. CASE ~(~Readable \/ Accounts[r.user] = Absent \/ Accounts[r.user].password # r.password)
      <3>1. CASE Accounts[r.user].legacy
        <4> DEFINE t == [Accounts EXCEPT ![r.user] = [Accounts[r.user] EXCEPT !.legacy = FALSE]]
        <4>1. Accounts \in Tables /\ r.user \in Users
          BY <2>0, <2>2, AccountsAreATable DEF Requests
        <4>2. [Accounts[r.user] EXCEPT !.legacy = FALSE] \in Record
          BY <2>2, <4>1 DEF Tables, Record
        <4>3. t \in Tables \ {NoAccounts}
          BY <4>1, <4>2, Written
        <4>4. /\ table' = [table EXCEPT ![w] = t] /\ Proceeds(w, "open") /\ fd' = fd
              /\ request' = [request EXCEPT ![w] = [r EXCEPT !.rehash = TRUE]]
          BY <2>2, <3>1 DEF Verify
        <4>5. [r EXCEPT !.rehash = TRUE] \in Requests
          BY <2>0, NotedRequest
        <4>6. table'[w] = t
          BY <4>4, TypeParts DEF AccountsInv, LocalsOK
        <4> HIDE DEF t
        <4> QED BY <2>0, <4>3, <4>4, <4>5, <4>6, ProceedsInv DEF Places
      <3>2. CASE ~Accounts[r.user].legacy
        <4>1. PICK place \in {"issue", "read"} : Proceeds(w, place)
          BY <2>2, <3>2 DEF Verify
        <4>2. UNCHANGED <<request, table, fd>>
          BY <2>2, <3>2 DEF Verify
        <4> QED BY <2>0, <4>1, <4>2, ProceedsInv DEF Places
      <3> QED BY <3>1, <3>2
    <2> QED BY <2>1, <2>2
  <1> QED BY <1>1, <1>2, <1>3, Assembled

\* What an operation makes of the accounts it read.
LEMMA ChangedIsATable ==
  ASSUME AccountsInv, Readable, NEW r \in Requests, r.op # "bootstrap" => Accounts[r.user] # Absent
  PROVE  Changed(r) \in Tables \ {NoAccounts}
  <1>1. Accounts \in Tables /\ r.user \in Users /\ r.password \in Passwords /\ r.new \in Passwords
    BY AccountsAreATable DEF Requests
  <1>2. CASE r.op = "bootstrap"
    <2>1. [password |-> r.password, epoch |-> 0, legacy |-> FALSE] \in Record
      BY <1>1 DEF Record
    <2>2. Changed(r) = [Accounts EXCEPT ![r.user] =
                          [password |-> r.password, epoch |-> 0, legacy |-> FALSE]]
      BY <1>2 DEF Changed
    <2> QED BY <1>1, <2>1, <2>2, Written
  <1>3. CASE r.op # "bootstrap"
    <2> DEFINE a == Accounts[r.user]
               b == [password |-> IF r.op = "change" THEN r.new ELSE a.password,
                     epoch |-> a.epoch + 1, legacy |-> r.op # "change" /\ a.legacy]
    <2>1. a \in Record
      BY <1>1, <1>3 DEF Tables
    <2>2. a.epoch + 1 \in Nat
      BY <2>1 DEF Record
    <2>3. b \in Record
      BY <1>1, <2>1, <2>2 DEF Record
    <2>4. Changed(r) = [Accounts EXCEPT ![r.user] = b]
      BY <1>3 DEF Changed, NextEpoch
    <2> HIDE DEF b
    <2> QED BY <1>1, <2>3, <2>4, Written
  <1> QED BY <1>2, <1>3

LEMMA ChangedIsARecord ==
  ASSUME AccountsInv, Readable, NEW r \in Requests, r.op # "bootstrap", Accounts[r.user] # Absent
  PROVE  Changed(r)[r.user] # Absent
  <1> DEFINE a == Accounts[r.user]
             b == [password |-> IF r.op = "change" THEN r.new ELSE a.password,
                   epoch |-> a.epoch + 1, legacy |-> r.op # "change" /\ a.legacy]
  <1>1. Accounts \in Tables /\ r.user \in Users /\ r.password \in Passwords /\ r.new \in Passwords
    BY AccountsAreATable DEF Requests
  <1>2. a \in Record
    BY <1>1 DEF Tables
  <1>3. a.epoch + 1 \in Nat
    BY <1>2 DEF Record
  <1>4. b \in Record
    BY <1>1, <1>2, <1>3 DEF Record
  <1>5. Changed(r) = [Accounts EXCEPT ![r.user] = b]
    BY DEF Changed, NextEpoch
  <1> HIDE DEF b
  <1> QED BY <1>1, <1>4, <1>5, AbsentIsNone DEF Tables

LEMMA ReadInv ==
  ASSUME AccountsInv, NEW w \in Workers, Read(w)
  PROVE  AccountsInv'
  <1>1. FilesOK' /\ NeverWrittenEmpty'
    BY FilesKept DEF Read
  <1>2. CountsOK' /\ sessions' \subseteq Sessions
    BY CountsKept, TypeParts DEF AccountsInv, Read, CountsOK
  <1>3. LocalsOK' /\ WorkersInv'
    <2> DEFINE r == request[w]
    <2>0. r \in Requests /\ at[w] # "idle"
      BY DEF AccountsInv, WorkersInv, Asked, Read
    <2>1. CASE ~Readable \/ (r.op # "bootstrap" /\ Accounts[r.user] = Absent)
      BY <2>1, EndsInv DEF Read
    <2>2. CASE ~(~Readable \/ (r.op # "bootstrap" /\ Accounts[r.user] = Absent))
      <3>1. Changed(r) \in Tables \ {NoAccounts}
        BY <2>0, <2>2, ChangedIsATable
      <3>2. /\ table' = [table EXCEPT ![w] = Changed(r)] /\ Proceeds(w, "open")
            /\ UNCHANGED <<request, fd>>
        BY <2>2 DEF Read
      <3>3. table'[w] = Changed(r)
        BY <3>2, TypeParts DEF AccountsInv, LocalsOK
      <3> QED BY <2>0, <3>1, <3>2, <3>3, ProceedsInv DEF Places
    <2> QED BY <2>1, <2>2
  <1> QED BY <1>1, <1>2, <1>3, Assembled

LEMMA IssueInv ==
  ASSUME AccountsInv, NEW w \in Workers, Issue(w)
  PROVE  AccountsInv'
  <1>1. FilesOK' /\ NeverWrittenEmpty'
    BY FilesKept DEF Issue
  <1>2. CountsOK'
    BY CountsKept, TypeParts DEF AccountsInv, Issue, CountsOK
  <1>3. sessions' \subseteq Sessions
    <2> DEFINE r == request[w]
               epoch == IF Accounts[r.user] = Absent THEN 0 ELSE Accounts[r.user].epoch
               s == [user |-> r.user, password |-> r.password, straddled |-> r.straddled,
                     ended |-> FALSE, epoch |-> epoch]
    <2>1. CASE ~Readable
      BY <2>1, TypeParts DEF AccountsInv, Issue
    <2>2. CASE Readable
      <3>1. r \in Requests
        BY DEF AccountsInv, WorkersInv, Asked, Issue
      <3>2. Accounts \in Tables /\ r.user \in Users
        BY <2>2, <3>1, AccountsAreATable DEF Requests
      <3>3. epoch \in Nat
        BY <3>2 DEF Tables, Record
      <3>4. s \in Sessions
        BY <3>1, <3>3 DEF Requests, Sessions
      <3>5. sessions' = sessions \cup {s}
        BY <2>2 DEF Issue
      <3> HIDE DEF s
      <3> QED BY <3>4, <3>5, TypeParts DEF AccountsInv
    <2> QED BY <2>1, <2>2
  <1> QED BY <1>1, <1>2, <1>3, EndsInv, Assembled DEF Issue

LEMMA SessionGoneInv ==
  ASSUME AccountsInv, NEW s \in sessions, SessionGone(s)
  PROVE  AccountsInv'
  <1>1. FilesOK' /\ NeverWrittenEmpty' /\ CountsOK'
    BY FilesKept, CountsKept, TypeParts DEF AccountsInv, SessionGone, CountsOK
  <1>2. LocalsOK' /\ WorkersInv'
    BY TypeParts DEF AccountsInv, SessionGone, LocalsOK, WorkersInv, Asked, Carries, HasOpened, worker_vars
  <1>3. sessions' \subseteq Sessions
    BY TypeParts DEF AccountsInv, SessionGone
  <1> QED BY <1>1, <1>2, <1>3, Assembled

LEMMA DieInv ==
  ASSUME AccountsInv, Die
  PROVE  AccountsInv'
  <1>1. FilesOK' /\ NeverWrittenEmpty'
    BY FilesKept DEF Die
  <1>2. CountsOK'
    <2>1. deaths < MaxDeaths /\ deaths' = deaths + 1 /\ ops' = ops /\ overlapped' = overlapped
      BY DEF Die
    <2>2. ops' \in 0..MaxOps /\ deaths' \in 0..MaxDeaths
      BY <2>1, AbsentIsNone, TypeParts DEF AccountsInv, CountsOK
    <2>3. overlapped' \in BOOLEAN
      BY <2>1, TypeParts DEF AccountsInv, CountsOK
    <2> QED BY <2>2, <2>3 DEF CountsOK
  <1>3. LocalsOK' /\ WorkersInv'
    BY DEF Die, LocalsOK, WorkersInv, Asked, Carries, HasOpened, Places
  <1>4. sessions' \subseteq Sessions
    BY TypeParts DEF AccountsInv, Die
  <1> QED BY <1>1, <1>2, <1>3, <1>4, Assembled

LEMMA AccountsKept ==
  ASSUME AccountsInv, [AccountsNext]_accounts_vars
  PROVE  AccountsInv'
  <1>1. CASE \E w \in Workers, op \in {"bootstrap", "login", "change", "revoke"}, u \in Users,
                p, n \in Passwords : Start(w, op, u, p, n)
    BY <1>1, StartInv
  <1>2. CASE \E w \in Workers : AccountsStep(w)
    <2> PICK w \in Workers : AccountsStep(w)
      BY <1>2
    <2>1. CASE Gate(w) \/ Verify(w) \/ Read(w) \/ Issue(w)
      BY <2>1, GateInv, VerifyInv, ReadInv, IssueInv
    <2>2. CASE OpenTmp(w) \/ Fill(w) \/ Replace(w) \/ WriteFails(w)
      BY <2>2, OpenTmpInv, FillInv, ReplaceInv, WriteFailsInv
    <2> QED BY <2>1, <2>2 DEF AccountsStep
  <1>3. CASE \E s \in sessions : SessionGone(s)
    BY <1>3, SessionGoneInv
  <1>4. CASE Die
    BY <1>4, DieInv
  <1>5. CASE UNCHANGED accounts_vars
    <2>1. FilesOK' /\ NeverWrittenEmpty' /\ CountsOK' /\ sessions' \subseteq Sessions
      BY <1>5, FilesKept, CountsKept, TypeParts DEF accounts_vars, AccountsInv, CountsOK
    <2>2. LocalsOK' /\ WorkersInv'
      BY <1>5, TypeParts DEF accounts_vars, worker_vars, AccountsInv, LocalsOK, WorkersInv, Asked,
                             Carries, HasOpened
    <2> QED BY <2>1, <2>2, Assembled
  <1> QED BY <1>1, <1>2, <1>3, <1>4, <1>5 DEF AccountsNext

LEMMA AccountsInvariance == AccountsSpec => []AccountsInv
  <1>1. AccountsInv /\ [AccountsNext]_accounts_vars => AccountsInv'
    BY AccountsKept
  <1> QED BY <1>1, AccountsStart, PTL DEF AccountsSpec

-----------------------------------------------------------------------------
(***************************************************************************)
(* A second invariant, on top of the first: what holds as long as no two   *)
(* operations that write the file have run at once.                        *)
(***************************************************************************)

\* What is asked for where.
Role(w) ==
  LET r == request[w] IN
  /\ at[w] = "gate" => r.op = "bootstrap"
  /\ at[w] \in {"gate", "verify", "read"} => ~r.rehash
  /\ at[w] = "verify" => r.op \in {"login", "change"}
  /\ at[w] = "read" => r.op # "login"
  /\ at[w] = "issue" => r.op = "login"
  /\ at[w] \in {"open", "fill", "replace"} =>
       IF r.rehash THEN r.op \in {"login", "change"} ELSE r.op # "login"

\* users.tmp is the writer's own.
OwnTmp(w) ==
  /\ at[w] = "fill" => fd[w] = users_tmp /\ users_tmp # Absent /\ bytes[users_tmp] = Empty
  /\ at[w] = "replace" => users_tmp # Absent /\ bytes[users_tmp] = table[w]

FirstRun(w) == at[w] = "read" /\ request[w].op = "bootstrap" => Accounts = NoAccounts

\* The table a writer holds against the accounts as they are.
Rehashed(new, old) ==
  /\ new = Absent <=> old = Absent
  /\ old # Absent => new.password = old.password /\ new.epoch = old.epoch

MovedOn(t, r) ==
  /\ \A u \in Users \ {r.user} : t[u] = Accounts[u]
  /\ IF r.op = "bootstrap" THEN Accounts = NoAccounts
     ELSE /\ Accounts[r.user] # Absent /\ t[r.user] # Absent
          /\ t[r.user].epoch = Accounts[r.user].epoch + 1

UpToDate(w) ==
  at[w] \in {"open", "fill", "replace"} =>
    IF request[w].rehash THEN \A u \in Users : Rehashed(table[w][u], Accounts[u])
    ELSE MovedOn(table[w], request[w])

\* A login has verified the password of the account, unless a change came in between.
Vouched(w) ==
  LET r == request[w] IN
  r.op = "login" /\ at[w] \in {"open", "fill", "replace", "issue"} =>
    Accounts[r.user] # Absent /\ (r.password = Accounts[r.user].password \/ r.straddled)

LoneWorker(w) == Role(w) /\ OwnTmp(w) /\ FirstRun(w) /\ UpToDate(w) /\ Vouched(w)

\* An epoch is never ahead of the account's, and is the account's only for the sessions
\* that nothing has ended.
LoneSession(s) ==
  /\ Accounts[s.user] # Absent /\ s.epoch <= Accounts[s.user].epoch
  /\ s.epoch = Accounts[s.user].epoch =>
       ~s.ended /\ (s.password = Accounts[s.user].password \/ s.straddled)

OneWriter == \A v, w \in Workers : Writing(v) /\ Writing(w) => v = w

TmpApart == users_tmp # Absent => users_tmp # users_file

LoneParts ==
  /\ OneWriter /\ Readable /\ TmpApart
  /\ \A w \in Workers : LoneWorker(w)
  /\ \A s \in sessions : LoneSession(s)

LoneInv == ~overlapped => LoneParts

LEMMA InitLone == AccountsInit => LoneInv
  <1> HAVE AccountsInit
  <1>1. Readable
    <2>1. ASSUME NEW i \in Inodes, NEW u \in Users, NEW p \in Passwords, users_file = i,
                 bytes = [[j \in Inodes |-> Empty] EXCEPT ![i] =
                            [NoAccounts EXCEPT ![u] =
                               [password |-> p, epoch |-> 0, legacy |-> TRUE]]]
          PROVE  Readable
      <3>1. [password |-> p, epoch |-> 0, legacy |-> TRUE] \in Record
        BY DEF Record
      <3>2. [NoAccounts EXCEPT ![u] = [password |-> p, epoch |-> 0, legacy |-> TRUE]] \in Tables
        BY <3>1, NoAccountsIsATable, Written
      <3> HIDE DEF NoAccounts
      <3> QED BY <2>1, <3>2 DEF Readable
    <2> QED BY <2>1 DEF AccountsInit, Readable
  <1>2. OneWriter /\ TmpApart
    BY DEF AccountsInit, OneWriter, Writing, TmpApart
  <1>3. \A w \in Workers : LoneWorker(w)
    BY DEF AccountsInit, LoneWorker, Role, OwnTmp, FirstRun, UpToDate, Vouched
  <1> QED BY <1>1, <1>2, <1>3 DEF AccountsInit, LoneInv, LoneParts

\* Nothing is rewritten: the accounts stay the same.
LEMMA FilesStand ==
  ASSUME UNCHANGED file_vars
  PROVE  Accounts' = Accounts /\ Readable' = Readable /\ TmpApart' = TmpApart
  BY DEF file_vars, Accounts, Readable, TmpApart

\* The other workers, while the accounts stay the same.
LEMMA OthersLone ==
  ASSUME AccountsInv, LoneParts, NEW w \in Workers, Others(w), Accounts' = Accounts,
         UNCHANGED <<users_tmp, bytes>> \/ Writing(w)
  PROVE  \A v \in Workers : v # w => LoneWorker(v)'
  <1> SUFFICES ASSUME NEW v \in Workers, v # w PROVE LoneWorker(v)'
    OBVIOUS
  <1>1. at'[v] = at[v] /\ request'[v] = request[v] /\ table'[v] = table[v] /\ fd'[v] = fd[v]
    BY DEF Others
  <1>2. LoneWorker(v)
    BY DEF LoneParts
  <1>3. Role(v)'
    BY <1>1, <1>2 DEF LoneWorker, Role
  <1>4. OwnTmp(v)'
    <2>1. CASE UNCHANGED <<users_tmp, bytes>>
      BY <1>1, <1>2, <2>1 DEF LoneWorker, OwnTmp
    <2>2. CASE Writing(w)
      <3>1. ~Writing(v)
        BY <2>2 DEF LoneParts, OneWriter
      <3>2. at[v] \notin {"fill", "replace"}
        BY <1>2, <3>1 DEF LoneWorker, Role, Writing
      <3> QED BY <1>1, <3>2 DEF OwnTmp
    <2> QED BY <2>1, <2>2
  <1>5. FirstRun(v)'
    BY <1>1, <1>2 DEF LoneWorker, FirstRun, NoAccounts
  <1>6. UpToDate(v)'
    BY <1>1, <1>2 DEF LoneWorker, UpToDate, MovedOn, NoAccounts
  <1>7. Vouched(v)'
    BY <1>1, <1>2 DEF LoneWorker, Vouched
  <1> QED BY <1>3, <1>4, <1>5, <1>6, <1>7 DEF LoneWorker

LEMMA SessionsLone ==
  ASSUME LoneParts, Accounts' = Accounts, sessions' \subseteq sessions
  PROVE  \A s \in sessions' : LoneSession(s)'
  BY DEF LoneParts, LoneSession

LEMMA WritersLone ==
  ASSUME LoneParts, NEW w \in Workers, Others(w),
         Writing(w)' => Writing(w) \/ ~Overlaps(w)
  PROVE  OneWriter'
  <1>1. \A v \in Workers : v # w => (Writing(v)' <=> Writing(v))
    BY DEF Others, Writing
  <1>2. Writing(w)' => \A v \in Workers : v # w => ~Writing(v)
    BY DEF LoneParts, OneWriter, Overlaps
  <1> QED BY <1>1, <1>2 DEF LoneParts, OneWriter

\* A step that writes nothing.
LEMMA StandingLone ==
  ASSUME AccountsInv, LoneParts, NEW w \in Workers, Others(w), UNCHANGED file_vars,
         sessions' \subseteq sessions, LoneWorker(w)',
         Writing(w)' => Writing(w) \/ ~Overlaps(w)
  PROVE  LoneParts'
  <1>1. Accounts' = Accounts /\ Readable' /\ TmpApart'
    BY FilesStand DEF LoneParts
  <1>2. UNCHANGED <<users_tmp, bytes>>
    BY DEF file_vars
  <1>3. \A v \in Workers : LoneWorker(v)'
    BY <1>1, <1>2, OthersLone
  <1> QED BY <1>1, <1>3, SessionsLone, WritersLone DEF LoneParts

LEMMA EndsOthers ==
  ASSUME AccountsInv, NEW w \in Workers, Ends(w)
  PROVE  Others(w) /\ at'[w] = "idle" /\ LoneWorker(w)' /\ ~Writing(w)'
  <1>1. Others(w) /\ at'[w] = "idle"
    BY TypeParts DEF AccountsInv, LocalsOK, Ends, Others
  <1> QED BY <1>1 DEF LoneWorker, Role, OwnTmp, FirstRun, UpToDate, Vouched, Writing

LEMMA EndsLone ==
  ASSUME AccountsInv, LoneParts, NEW w \in Workers, Ends(w), UNCHANGED file_vars,
         sessions' \subseteq sessions
  PROVE  LoneParts'
  BY EndsOthers, StandingLone

LEMMA StartLone ==
  ASSUME AccountsInv, LoneInv, NEW w \in Workers,
         NEW op \in {"bootstrap", "login", "change", "revoke"},
         NEW u \in Users, NEW p \in Passwords, NEW n \in Passwords, Start(w, op, u, p, n)
  PROVE  LoneInv'
  <1> SUFFICES ASSUME ~overlapped' PROVE LoneParts'
    BY DEF LoneInv
  <1>1. LoneParts /\ (op = "login" \/ ~Overlaps(w))
    BY DEF Start, LoneInv
  <1>2. Others(w) /\ at'[w] = First(op)
    BY TypeParts DEF AccountsInv, LocalsOK, Start, Proceeds, Others
  <1>3. /\ request'[w].op = op /\ request'[w].rehash = FALSE
    BY TypeParts DEF AccountsInv, LocalsOK, Start
  <1>4. Accounts' = Accounts
    BY FilesStand DEF Start
  <1>5. at[w] = "idle"
    BY DEF Start
  <1>6. LoneWorker(w)'
    <2>1. CASE op = "bootstrap"
      BY <1>2, <1>3, <2>1 DEF First, LoneWorker, Role, OwnTmp, FirstRun, UpToDate, Vouched
    <2>2. CASE op \in {"login", "change"}
      BY <1>2, <1>3, <2>2 DEF First, LoneWorker, Role, OwnTmp, FirstRun, UpToDate, Vouched
    <2>3. CASE op = "revoke"
      BY <1>2, <1>3, <2>3 DEF First, LoneWorker, Role, OwnTmp, FirstRun, UpToDate, Vouched
    <2> QED BY <2>1, <2>2, <2>3
  <1>7. Writing(w)' => ~Overlaps(w)
    BY <1>1, <1>3 DEF Writing
  <1> QED BY <1>1, <1>2, <1>6, <1>7, StandingLone DEF Start

LEMMA GateLone ==
  ASSUME AccountsInv, LoneInv, NEW w \in Workers, Gate(w)
  PROVE  LoneInv'
  <1> SUFFICES ASSUME ~overlapped' PROVE LoneParts'
    BY DEF LoneInv
  <1>1. LoneParts /\ UNCHANGED file_vars /\ sessions' \subseteq sessions
    BY DEF Gate, LoneInv
  <1>2. CASE ~NeedsBootstrap
    BY <1>1, <1>2, EndsLone DEF Gate
  <1>3. CASE NeedsBootstrap
    <2>1. Others(w) /\ at'[w] = "read" /\ UNCHANGED <<request, table, fd>>
      BY <1>3, TypeParts DEF AccountsInv, LocalsOK, Gate, Proceeds, Others
    <2>2. Role(w) /\ at[w] = "gate"
      BY <1>1 DEF LoneParts, LoneWorker, Gate
    <2>3. Accounts' = NoAccounts
      BY <1>1, <1>3, FilesStand DEF NeedsBootstrap
    <2>4. Accounts' = NoAccounts'
      BY <2>3 DEF NoAccounts
    <2>5. LoneWorker(w)'
      BY <2>1, <2>2, <2>4 DEF LoneWorker, Role, OwnTmp, FirstRun, UpToDate, Vouched
    <2>6. Writing(w)' => Writing(w)
      BY <2>1, <2>2 DEF Writing
    <2> QED BY <1>1, <2>1, <2>5, <2>6, StandingLone
  <1> QED BY <1>2, <1>3

LEMMA VerifyLone ==
  ASSUME AccountsInv, LoneInv, NEW w \in Workers, Verify(w)
  PROVE  LoneInv'
  <1> DEFINE r == request[w]
  <1> SUFFICES ASSUME ~overlapped' PROVE LoneParts'
    BY DEF LoneInv
  <1>0. overlapped = FALSE
    <2>1. overlapped' = overlapped \/ overlapped' = (overlapped \/ Overlaps(w))
      BY DEF Verify
    <2> QED BY <2>1, TypeParts DEF AccountsInv, CountsOK
  <1>1. LoneParts /\ UNCHANGED file_vars /\ sessions' \subseteq sessions
    BY <1>0 DEF Verify, LoneInv
  <1>2. Role(w) /\ at[w] = "verify" /\ r \in Requests
    BY <1>1 DEF AccountsInv, WorkersInv, Asked, LoneParts, LoneWorker, Verify
  <1>3. Accounts' = Accounts
    BY <1>1, FilesStand
  <1>4. CASE ~Readable \/ Accounts[r.user] = Absent \/ Accounts[r.user].password # r.password
    BY <1>1, <1>4, EndsLone DEF Verify
  <1>5. CASE Accounts[r.user] # Absent /\ Accounts[r.user].password = r.password /\ Readable
    <2>1. CASE Accounts[r.user].legacy
      <3>1. /\ table' = [table EXCEPT ![w] =
                 [Accounts EXCEPT ![r.user] = [Accounts[r.user] EXCEPT !.legacy = FALSE]]]
            /\ request' = [request EXCEPT ![w] = [r EXCEPT !.rehash = TRUE]]
            /\ Proceeds(w, "open") /\ fd' = fd
            /\ overlapped' = (overlapped \/ Overlaps(w))
        BY <1>5, <2>1 DEF Verify
      <3>2. /\ Others(w) /\ at'[w] = "open"
            /\ request'[w] = [r EXCEPT !.rehash = TRUE]
            /\ table'[w] =
                 [Accounts EXCEPT ![r.user] = [Accounts[r.user] EXCEPT !.legacy = FALSE]]
        BY <3>1, TypeParts DEF AccountsInv, LocalsOK, Proceeds, Others
      <3>3. /\ request'[w].rehash /\ request'[w].op = r.op /\ request'[w].user = r.user
            /\ request'[w].password = r.password
        BY <1>2, <3>2 DEF Requests
      <3>4. Role(w)' /\ OwnTmp(w)' /\ FirstRun(w)'
        BY <1>2, <3>2, <3>3 DEF Role, OwnTmp, FirstRun
      <3>5. Accounts \in Tables /\ r.user \in Users
        BY <1>2, <1>5, AccountsAreATable DEF Requests
      <3>6. Accounts[r.user] \in Record
        BY <1>5, <3>5 DEF Tables
      <3>7. ASSUME NEW x \in Users PROVE Rehashed(table'[w][x], Accounts[x])
        <4>1. CASE x = r.user
          <5>1. table'[w][x] = [Accounts[r.user] EXCEPT !.legacy = FALSE]
            BY <3>2, <3>5, <4>1 DEF Tables
          <5>2. [Accounts[r.user] EXCEPT !.legacy = FALSE] \in Record
            BY <3>6 DEF Record
          <5> QED BY <1>5, <3>6, <4>1, <5>1, <5>2, AbsentIsNone DEF Record, Rehashed
        <4>2. CASE x # r.user
          BY <3>2, <3>5, <4>2 DEF Tables, Rehashed
        <4> QED BY <4>1, <4>2
      <3>8. UpToDate(w)'
        BY <1>3, <3>3, <3>7 DEF UpToDate, Rehashed
      <3>9. Vouched(w)'
        BY <1>3, <1>5, <3>3 DEF Vouched
      <3>10. ~Overlaps(w)
        BY <3>1
      <3> QED BY <1>1, <3>2, <3>4, <3>8, <3>9, <3>10, StandingLone DEF LoneWorker
    <2>2. CASE ~Accounts[r.user].legacy
      <3>1. /\ Others(w) /\ UNCHANGED <<request, table, fd>>
            /\ at'[w] = IF r.op = "login" THEN "issue" ELSE "read"
        BY <1>5, <2>2, TypeParts DEF AccountsInv, LocalsOK, Verify, Proceeds, Others
      <3>2. LoneWorker(w)'
        BY <1>2, <1>3, <1>5, <3>1
        DEF LoneWorker, Role, OwnTmp, FirstRun, UpToDate, Vouched
      <3>3. Writing(w)' => Writing(w)
        BY <1>2, <3>1 DEF Writing
      <3> QED BY <1>1, <3>1, <3>2, <3>3, StandingLone
    <2> QED BY <2>1, <2>2
  <1> QED BY <1>4, <1>5

LEMMA ReadLone ==
  ASSUME AccountsInv, LoneInv, NEW w \in Workers, Read(w)
  PROVE  LoneInv'
  <1> DEFINE r == request[w]
  <1> SUFFICES ASSUME ~overlapped' PROVE LoneParts'
    BY DEF LoneInv
  <1>1. LoneParts /\ UNCHANGED file_vars /\ sessions' \subseteq sessions
    BY DEF Read, LoneInv
  <1>2. Role(w) /\ FirstRun(w) /\ at[w] = "read" /\ r \in Requests
    BY <1>1 DEF AccountsInv, WorkersInv, Asked, LoneParts, LoneWorker, Read
  <1>3. Accounts' = Accounts
    BY <1>1, FilesStand
  <1>4. CASE ~Readable \/ (r.op # "bootstrap" /\ Accounts[r.user] = Absent)
    BY <1>1, <1>4, EndsLone DEF Read
  <1>5. CASE Readable /\ (r.op # "bootstrap" => Accounts[r.user] # Absent)
    <2>1. /\ Others(w) /\ at'[w] = "open" /\ UNCHANGED <<request, fd>>
          /\ table'[w] = Changed(r)
      BY <1>5, TypeParts DEF AccountsInv, LocalsOK, Read, Proceeds, Others
    <2>2. Accounts \in Tables /\ r.user \in Users
      BY <1>2, <1>5, AccountsAreATable DEF Requests
    <2>3. MovedOn(Changed(r), r)
      <3>1. \A u \in Users \ {r.user} : Changed(r)[u] = Accounts[u]
        BY <2>2 DEF Changed, Tables
      <3>2. CASE r.op = "bootstrap"
        BY <1>2, <3>1, <3>2 DEF MovedOn, FirstRun
      <3>3. CASE r.op # "bootstrap"
        <4> DEFINE a == Accounts[r.user]
                   b == [password |-> IF r.op = "change" THEN r.new ELSE a.password,
                         epoch |-> a.epoch + 1, legacy |-> r.op # "change" /\ a.legacy]
        <4>1. Changed(r) = [Accounts EXCEPT ![r.user] = b]
          BY <3>3 DEF Changed, NextEpoch
        <4>2. Changed(r)[r.user] = b
          <5> HIDE DEF b
          <5> QED BY <2>2, <4>1 DEF Tables
        <4>3. b.epoch = a.epoch + 1 /\ Changed(r)[r.user] # Absent
          BY <1>2, <1>5, <2>2, <3>3, <4>2, ChangedIsARecord
        <4> QED BY <1>5, <3>1, <3>3, <4>2, <4>3 DEF MovedOn
      <3> QED BY <3>2, <3>3
    <2>4. Role(w)' /\ OwnTmp(w)' /\ FirstRun(w)' /\ Vouched(w)'
      BY <1>2, <2>1 DEF Role, OwnTmp, FirstRun, Vouched
    <2>5. UpToDate(w)'
      <3>1. request'[w] = r /\ ~r.rehash
        BY <1>2, <2>1 DEF Role
      <3>2. request'[w] = r /\ table'[w] = Changed(r)
        BY <2>1
      <3>3. MovedOn(table[w], request[w])'
        BY <1>3, <2>3, <3>2 DEF MovedOn, NoAccounts
      <3> QED BY <3>1, <3>3 DEF UpToDate
    <2>6. Writing(w)
      BY <1>2 DEF Role, Writing
    <2> QED BY <1>1, <2>1, <2>4, <2>5, <2>6, StandingLone DEF LoneWorker
  <1> QED BY <1>4, <1>5

LEMMA IssueLone ==
  ASSUME AccountsInv, LoneInv, NEW w \in Workers, Issue(w)
  PROVE  LoneInv'
  <1> DEFINE r == request[w]
             s == [user |-> r.user, password |-> r.password, straddled |-> r.straddled,
                   ended |-> FALSE, epoch |-> Accounts[r.user].epoch]
  <1> SUFFICES ASSUME ~overlapped' PROVE LoneParts'
    BY DEF LoneInv
  <1>1. LoneParts /\ UNCHANGED file_vars /\ Ends(w) /\ Readable
    BY DEF Issue, LoneInv, LoneParts
  <1>2. Role(w) /\ Vouched(w) /\ at[w] = "issue" /\ r \in Requests
    BY <1>1 DEF AccountsInv, WorkersInv, Asked, LoneParts, LoneWorker, Issue
  <1>3. Accounts[r.user] # Absent /\ (r.password = Accounts[r.user].password \/ r.straddled)
    BY <1>2 DEF Role, Vouched
  <1>4. sessions' = sessions \cup {s}
    BY <1>1, <1>3 DEF Issue
  <1>5. Accounts' = Accounts /\ Readable' /\ TmpApart'
    BY <1>1, FilesStand DEF LoneParts
  <1>6. \A x : x = s => LoneSession(x)'
    <2>1. Accounts[r.user].epoch <= Accounts[r.user].epoch
      <3>1. Accounts[r.user] \in Record
        BY <1>1, <1>2, <1>3, AccountsAreATable DEF Tables, Requests
      <3> QED BY <3>1 DEF Record
    <2> QED BY <1>3, <1>5, <2>1 DEF LoneSession
  <1>7. \A x \in sessions : LoneSession(x)'
    BY <1>1, <1>5 DEF LoneParts, LoneSession
  <1>8. \A x \in sessions' : LoneSession(x)'
    <2>1. \A x \in sessions' : x \in sessions \/ x = s
      <3> HIDE DEF s
      <3> QED BY <1>4
    <2> QED BY <2>1, <1>6, <1>7
  <1>9. Others(w) /\ LoneWorker(w)' /\ ~Writing(w)'
    BY <1>1, EndsOthers
  <1>10. \A v \in Workers : LoneWorker(v)'
    BY <1>1, <1>5, <1>9, OthersLone DEF file_vars
  <1> QED BY <1>1, <1>5, <1>8, <1>9, <1>10, WritersLone DEF LoneParts

LEMMA WriteFailsLone ==
  ASSUME AccountsInv, LoneInv, NEW w \in Workers, WriteFails(w)
  PROVE  LoneInv'
  <1> SUFFICES ASSUME ~overlapped' PROVE LoneParts'
    BY DEF LoneInv
  <1>1. LoneParts /\ UNCHANGED file_vars /\ sessions' \subseteq sessions
    BY DEF WriteFails, LoneInv
  <1> QED BY <1>1, EndsLone DEF WriteFails

\* Who writes the file is the writer.
LEMMA WriterWrites ==
  ASSUME LoneParts, NEW w \in Workers, at[w] \in {"open", "fill", "replace"}
  PROVE  Writing(w)
  BY DEF LoneParts, LoneWorker, Role, Writing

LEMMA OpenTmpLone ==
  ASSUME AccountsInv, LoneInv, NEW w \in Workers, OpenTmp(w)
  PROVE  LoneInv'
  <1> SUFFICES ASSUME ~overlapped' PROVE LoneParts'
    BY DEF LoneInv
  <1>1. LoneParts /\ at[w] = "open" /\ sessions' \subseteq sessions
    BY DEF OpenTmp, LoneInv
  <1>2. Writing(w)
    BY <1>1, WriterWrites
  <1>3. PICK i \in Inodes :
          /\ users_tmp' = i /\ fd' = [fd EXCEPT ![w] = i]
          /\ bytes' = [bytes EXCEPT ![i] = Empty] /\ i # users_file
    <2>1. LET i == IF users_tmp # Absent THEN users_tmp ELSE Unused
          IN i \in Inodes /\ i # users_file
      BY <1>1, UnusedExists, TypeParts DEF AccountsInv, FilesOK, LoneParts, TmpApart
    <2> QED BY <2>1 DEF OpenTmp
  <1>4. Accounts' = Accounts /\ Readable' /\ TmpApart'
    BY <1>1, <1>3, TypeParts
    DEF AccountsInv, FilesOK, OpenTmp, LoneParts, Accounts, Readable, TmpApart, NoAccounts
  <1>5. /\ Others(w) /\ at'[w] = "fill" /\ UNCHANGED <<request, table>> /\ fd'[w] = i
        /\ bytes'[i] = Empty
    BY <1>3, TypeParts DEF AccountsInv, FilesOK, LocalsOK, OpenTmp, Proceeds, Others
  <1>6. LoneWorker(w)
    BY <1>1 DEF LoneParts
  <1>7. Role(w)' /\ FirstRun(w)'
    BY <1>1, <1>5, <1>6 DEF LoneWorker, Role, FirstRun
  <1>8. OwnTmp(w)'
    BY <1>3, <1>5, AbsentIsNone DEF OwnTmp
  <1>9. UpToDate(w)'
    BY <1>1, <1>4, <1>5, <1>6 DEF LoneWorker, UpToDate, MovedOn, NoAccounts
  <1>10. Vouched(w)'
    BY <1>1, <1>4, <1>5, <1>6 DEF LoneWorker, Vouched
  <1>11. \A v \in Workers : LoneWorker(v)'
    BY <1>1, <1>2, <1>4, <1>5, <1>7, <1>8, <1>9, <1>10, OthersLone DEF LoneWorker
  <1> QED BY <1>1, <1>2, <1>4, <1>5, <1>11, SessionsLone, WritersLone DEF LoneParts

LEMMA FillLone ==
  ASSUME AccountsInv, LoneInv, NEW w \in Workers, Fill(w)
  PROVE  LoneInv'
  <1> SUFFICES ASSUME ~overlapped' PROVE LoneParts'
    BY DEF LoneInv
  <1>1. LoneParts /\ at[w] = "fill" /\ sessions' \subseteq sessions
    BY DEF Fill, LoneInv
  <1>2. Writing(w)
    BY <1>1, WriterWrites
  <1>3. fd[w] = users_tmp /\ users_tmp # Absent /\ bytes[users_tmp] = Empty
    BY <1>1 DEF LoneParts, LoneWorker, OwnTmp
  <1>4. bytes' = [bytes EXCEPT ![users_tmp] = table[w]] /\ UNCHANGED <<users_file, users_tmp>>
    BY <1>3 DEF Fill
  <1>5. users_tmp \in Inodes /\ users_tmp # users_file
    BY <1>1, <1>3, TypeParts DEF AccountsInv, FilesOK, LoneParts, TmpApart
  <1>6. Accounts' = Accounts /\ Readable' /\ TmpApart'
    BY <1>1, <1>4, <1>5, TypeParts
    DEF AccountsInv, FilesOK, LoneParts, Accounts, Readable, TmpApart, NoAccounts
  <1>7. /\ Others(w) /\ at'[w] = "replace" /\ UNCHANGED <<request, table>>
        /\ bytes'[users_tmp'] = table'[w]
    BY <1>4, <1>5, TypeParts DEF AccountsInv, FilesOK, LocalsOK, Fill, Proceeds, Others
  <1>8. LoneWorker(w)
    BY <1>1 DEF LoneParts
  <1>9. Role(w)' /\ FirstRun(w)'
    BY <1>1, <1>7, <1>8 DEF LoneWorker, Role, FirstRun
  <1>10. OwnTmp(w)'
    BY <1>3, <1>4, <1>7 DEF OwnTmp
  <1>11. UpToDate(w)'
    BY <1>1, <1>6, <1>7, <1>8 DEF LoneWorker, UpToDate, MovedOn, NoAccounts
  <1>12. Vouched(w)'
    BY <1>1, <1>6, <1>7, <1>8 DEF LoneWorker, Vouched
  <1>13. \A v \in Workers : LoneWorker(v)'
    BY <1>1, <1>2, <1>6, <1>7, <1>9, <1>10, <1>11, <1>12, OthersLone DEF LoneWorker
  <1> QED BY <1>1, <1>2, <1>6, <1>7, <1>13, SessionsLone, WritersLone DEF LoneParts

\* What a lone writer wrote is what everyone reads.
LEMMA ReplaceShows ==
  ASSUME AccountsInv, LoneParts, NEW w \in Workers, Replace(w)
  PROVE  /\ Accounts' = table[w] /\ Readable' /\ TmpApart' /\ table[w] \in Tables
         /\ Writing(w) /\ LoneWorker(w)
         /\ \A v \in Workers : v # w =>
              LoneWorker(v) /\ at[v] \in {"idle", "verify", "issue"} /\ ~Writing(v)
  <1>1. at[w] = "replace" /\ users_tmp # Absent /\ users_file' = users_tmp /\ users_tmp' = Absent
    BY DEF Replace
  <1>2. bytes' = bytes /\ bytes[users_tmp] = table[w] /\ table[w] \in Tables
    BY <1>1 DEF Replace, AccountsInv, WorkersInv, Carries, LoneParts, LoneWorker, OwnTmp
  <1>3. Accounts' = table[w] /\ Readable' /\ TmpApart'
    BY <1>1, <1>2 DEF Accounts, Readable, TmpApart
  <1>4. Writing(w) /\ LoneWorker(w)
    BY <1>1, WriterWrites DEF LoneParts
  <1>5. ASSUME NEW v \in Workers, v # w
        PROVE  LoneWorker(v) /\ at[v] \in {"idle", "verify", "issue"} /\ ~Writing(v)
    <2>1. ~Writing(v) /\ LoneWorker(v)
      BY <1>4, <1>5 DEF LoneParts, OneWriter
    <2>2. at[v] \in Places
      BY TypeParts DEF AccountsInv, LocalsOK
    <2> QED BY <2>1, <2>2 DEF Places, LoneWorker, Role, Writing
  <1> QED BY <1>2, <1>3, <1>4, <1>5

LEMMA ReplaceLone ==
  ASSUME AccountsInv, LoneInv, NEW w \in Workers, Replace(w)
  PROVE  LoneInv'
  <1> DEFINE r == request[w]
             t == table[w]
  <1> SUFFICES ASSUME ~overlapped' PROVE LoneParts'
    BY DEF LoneInv
  <1>1. LoneParts /\ at[w] = "replace"
    BY DEF Replace, LoneInv
  <1>2. /\ Accounts' = t /\ Readable' /\ TmpApart' /\ t \in Tables /\ Writing(w) /\ LoneWorker(w)
        /\ \A v \in Workers : v # w =>
             LoneWorker(v) /\ at[v] \in {"idle", "verify", "issue"} /\ ~Writing(v)
    BY <1>1, ReplaceShows
  <1>3. r \in Requests /\ \A v \in Workers : at[v] # "idle" => request[v] \in Requests
    BY <1>1 DEF AccountsInv, WorkersInv, Asked
  <1>4. CASE r.rehash
    <2>1. \A u \in Users : Rehashed(t[u], Accounts[u])
      BY <1>1, <1>2, <1>4 DEF LoneWorker, UpToDate
    <2>2. /\ at'[w] = IF r.op = "login" THEN "issue" ELSE "read"
          /\ request'[w] = [r EXCEPT !.rehash = (r.op = "login")]
          /\ Others(w) /\ sessions' = sessions
      BY <1>4, TypeParts DEF AccountsInv, LocalsOK, Replace, Then, Proceeds, Others
    <2>3. /\ request'[w].rehash = (r.op = "login") /\ request'[w].op = r.op
          /\ request'[w].user = r.user /\ request'[w].password = r.password
          /\ request'[w].straddled = r.straddled
      BY <1>3, <2>2 DEF Requests
    <2>4. r.op \in {"login", "change"} /\ r.user \in Users
      BY <1>1, <1>2, <1>3, <1>4 DEF LoneWorker, Role, Requests
    <2>5. LoneWorker(w)'
      <3>1. Role(w)' /\ OwnTmp(w)' /\ FirstRun(w)' /\ UpToDate(w)'
        BY <2>2, <2>3, <2>4 DEF Role, OwnTmp, FirstRun, UpToDate
      <3>2. r.op = "login" =>
              Accounts[r.user] # Absent
              /\ (r.password = Accounts[r.user].password \/ r.straddled)
        BY <1>1, <1>2 DEF LoneWorker, Vouched
      <3>3. Vouched(w)'
        BY <1>2, <2>1, <2>3, <2>4, <3>2 DEF Vouched, Rehashed
      <3> QED BY <3>1, <3>3 DEF LoneWorker
    <2>6. ASSUME NEW v \in Workers, v # w PROVE LoneWorker(v)'
      <3>1. at'[v] = at[v] /\ request'[v] = request[v]
        BY <2>2, <2>6 DEF Others
      <3>2. LoneWorker(v) /\ at[v] \in {"idle", "verify", "issue"}
        BY <1>2, <2>6
      <3>3. Role(v)' /\ OwnTmp(v)' /\ FirstRun(v)' /\ UpToDate(v)'
        BY <3>1, <3>2 DEF LoneWorker, Role, OwnTmp, FirstRun, UpToDate
      <3>4. CASE at[v] = "issue"
        <4>1. request[v].user \in Users /\ Rehashed(t[request[v].user], Accounts[request[v].user])
          BY <1>3, <2>1, <3>4 DEF Requests
        <4> QED BY <1>2, <3>1, <3>2, <3>3, <3>4, <4>1 DEF LoneWorker, Vouched, Rehashed
      <3>5. CASE at[v] # "issue"
        BY <3>1, <3>2, <3>3, <3>5 DEF LoneWorker, Vouched
      <3> QED BY <3>4, <3>5
    <2>7. ASSUME NEW s \in sessions PROVE LoneSession(s)'
      <3>1. LoneSession(s) /\ s.user \in Users
        BY <1>1, TypeParts DEF LoneParts, AccountsInv, Sessions
      <3> QED BY <1>2, <2>1, <3>1 DEF LoneSession, Rehashed
    <2>8. OneWriter'
      BY <1>1, <1>2, <2>2, WritersLone
    <2> QED BY <1>2, <2>2, <2>5, <2>6, <2>7, <2>8 DEF LoneParts
  <1>5. CASE ~r.rehash
    <2>1. MovedOn(t, r)
      BY <1>1, <1>2, <1>5 DEF LoneWorker, UpToDate
    <2>2. /\ at' = [at EXCEPT ![w] = "idle"]
          /\ request' = [v \in Workers |->
               IF v = w THEN Absent
               ELSE IF at[v] = "issue" /\ request[v].user = r.user
               THEN [request[v] EXCEPT !.straddled = TRUE]
               ELSE request[v]]
          /\ sessions' = {[s EXCEPT !.ended = s.ended \/ s.user = r.user] : s \in sessions}
      BY <1>5 DEF Replace, Then
    <2>3. LoneWorker(w)' /\ ~Writing(w)'
      <3>1. at'[w] = "idle"
        BY <2>2, TypeParts DEF AccountsInv, LocalsOK
      <3> QED BY <3>1 DEF LoneWorker, Role, OwnTmp, FirstRun, UpToDate, Vouched, Writing
    <2>4. ASSUME NEW u \in Users, Accounts[u] # Absent
          PROVE  /\ t[u] # Absent
                 /\ u = r.user => t[u].epoch = Accounts[u].epoch + 1
                 /\ u # r.user => t[u] = Accounts[u]
      <3>1. Accounts # NoAccounts
        BY <2>4 DEF NoAccounts
      <3> QED BY <2>1, <2>4, <3>1 DEF MovedOn
    <2>5. ASSUME NEW v \in Workers, v # w PROVE LoneWorker(v)' /\ ~Writing(v)'
      <3>1. at'[v] = at[v]
        BY <2>2, <2>5, TypeParts DEF AccountsInv, LocalsOK
      <3>2. LoneWorker(v) /\ at[v] \in {"idle", "verify", "issue"} /\ ~Writing(v)
        BY <1>2, <2>5
      <3>3. CASE at[v] = "issue" /\ request[v].user = r.user
        <4>1. /\ request'[v].op = request[v].op /\ request'[v].user = r.user
              /\ request'[v].rehash = request[v].rehash /\ request'[v].straddled = TRUE
          BY <1>3, <2>2, <2>5, <3>3 DEF Requests
        <4>2. Accounts[r.user] # Absent /\ r.user \in Users
          BY <1>3, <3>2, <3>3 DEF LoneWorker, Role, Vouched, Requests
        <4>3. t[r.user] # Absent
          BY <2>4, <4>2
        <4> QED BY <1>2, <3>1, <3>2, <3>3, <4>1, <4>3
            DEF LoneWorker, Role, OwnTmp, FirstRun, UpToDate, Vouched, Writing
      <3>4. CASE at[v] = "issue" /\ request[v].user # r.user
        <4>1. request'[v] = request[v]
          BY <2>2, <2>5, <3>4
        <4>2. Accounts[request[v].user] # Absent /\ request[v].user \in Users
          BY <1>3, <3>2, <3>4 DEF LoneWorker, Role, Vouched, Requests
        <4>3. t[request[v].user] = Accounts[request[v].user]
          BY <2>4, <3>4, <4>2
        <4> QED BY <1>2, <3>1, <3>2, <3>4, <4>1, <4>2, <4>3
            DEF LoneWorker, Role, OwnTmp, FirstRun, UpToDate, Vouched, Writing
      <3>5. CASE at[v] # "issue"
        <4>1. request'[v] = request[v]
          BY <2>2, <2>5, <3>5
        <4> QED BY <3>1, <3>2, <3>5, <4>1
            DEF LoneWorker, Role, OwnTmp, FirstRun, UpToDate, Vouched, Writing
      <3> QED BY <3>3, <3>4, <3>5
    <2>6. ASSUME NEW s \in sessions
          PROVE  \A x : x = [s EXCEPT !.ended = s.ended \/ s.user = r.user] => LoneSession(x)'
      <3> DEFINE e == s.ended \/ s.user = r.user
      <3>1. LoneSession(s) /\ s \in Sessions
        BY <1>1, TypeParts DEF LoneParts, AccountsInv
      <3>2. s.user \in Users /\ s.epoch \in Nat /\ Accounts[s.user] # Absent
        BY <3>1 DEF LoneSession, Sessions
      <3>3. TAKE x
      <3>4. HAVE x = [s EXCEPT !.ended = e]
      <3>5. /\ x.user = s.user /\ x.epoch = s.epoch /\ x.password = s.password
            /\ x.straddled = s.straddled /\ x.ended = e
        <4> HIDE DEF e
        <4> QED BY <3>1, <3>4 DEF Sessions
      <3>6. CASE s.user = r.user
        <4>1. t[s.user] # Absent /\ t[s.user].epoch = Accounts[s.user].epoch + 1
          BY <2>4, <3>2, <3>6
        <4>2. Accounts[s.user].epoch \in Nat
          <5>1. Accounts \in Tables
            BY <1>1, AccountsAreATable DEF LoneParts
          <5> QED BY <3>2, <5>1 DEF Tables, Record
        <4>3. s.epoch <= Accounts[s.user].epoch
          BY <3>1 DEF LoneSession
        <4>4. s.epoch <= t[s.user].epoch /\ s.epoch # t[s.user].epoch
          BY <3>2, <4>1, <4>2, <4>3
        <4> QED BY <1>2, <3>5, <4>1, <4>4 DEF LoneSession
      <3>7. CASE s.user # r.user
        <4>1. t[s.user] = Accounts[s.user]
          BY <2>4, <3>2, <3>7
        <4> QED BY <1>2, <3>1, <3>5, <3>7, <4>1 DEF LoneSession
      <3> QED BY <3>6, <3>7
    <2>7. \A x \in sessions' : LoneSession(x)'
      <3>1. \A x \in sessions' :
              \E s \in sessions : x = [s EXCEPT !.ended = s.ended \/ s.user = r.user]
        BY <2>2
      <3> QED BY <2>6, <3>1
    <2>8. OneWriter'
      BY <2>3, <2>5 DEF OneWriter
    <2> QED BY <1>2, <2>3, <2>5, <2>7, <2>8 DEF LoneParts
  <1> QED BY <1>4, <1>5

LEMMA SessionGoneLone ==
  ASSUME AccountsInv, LoneInv, NEW s \in sessions, SessionGone(s)
  PROVE  LoneInv'
  <1> SUFFICES ASSUME ~overlapped' PROVE LoneParts'
    BY DEF LoneInv
  <1>1. /\ LoneParts /\ UNCHANGED file_vars /\ UNCHANGED <<at, request, table, fd>>
        /\ sessions' \subseteq sessions
    BY DEF SessionGone, LoneInv, worker_vars
  <1>2. Accounts' = Accounts /\ Readable' /\ TmpApart' /\ OneWriter'
    BY <1>1, FilesStand DEF LoneParts, OneWriter, Writing
  <1>3. \A w \in Workers : LoneWorker(w)'
    BY <1>1, <1>2
    DEF LoneParts, LoneWorker, Role, OwnTmp, FirstRun, UpToDate, Vouched, MovedOn, NoAccounts,
        file_vars
  <1> QED BY <1>1, <1>2, <1>3, SessionsLone DEF LoneParts

LEMMA DieLone ==
  ASSUME AccountsInv, LoneInv, Die
  PROVE  LoneInv'
  <1> SUFFICES ASSUME ~overlapped' PROVE LoneParts'
    BY DEF LoneInv
  <1>1. LoneParts /\ UNCHANGED file_vars /\ sessions' \subseteq sessions
    BY DEF Die, LoneInv
  <1>2. Accounts' = Accounts /\ Readable' /\ TmpApart'
    BY <1>1, FilesStand DEF LoneParts
  <1>3. OneWriter' /\ \A w \in Workers : LoneWorker(w)'
    BY DEF Die, OneWriter, Writing, LoneWorker, Role, OwnTmp, FirstRun, UpToDate, Vouched
  <1> QED BY <1>1, <1>2, <1>3, SessionsLone DEF LoneParts

LEMMA NextLone ==
  ASSUME AccountsInv, LoneInv, [AccountsNext]_accounts_vars
  PROVE  LoneInv'
  <1>1. CASE \E w \in Workers, op \in {"bootstrap", "login", "change", "revoke"}, u \in Users,
                p, n \in Passwords : Start(w, op, u, p, n)
    BY <1>1, StartLone
  <1>2. CASE \E w \in Workers : AccountsStep(w)
    <2> PICK w \in Workers : AccountsStep(w)
      BY <1>2
    <2>1. CASE Gate(w) \/ Verify(w) \/ Read(w) \/ Issue(w)
      BY <2>1, GateLone, VerifyLone, ReadLone, IssueLone
    <2>2. CASE OpenTmp(w) \/ Fill(w) \/ Replace(w) \/ WriteFails(w)
      BY <2>2, OpenTmpLone, FillLone, ReplaceLone, WriteFailsLone
    <2> QED BY <2>1, <2>2 DEF AccountsStep
  <1>3. CASE \E s \in sessions : SessionGone(s)
    BY <1>3, SessionGoneLone
  <1>4. CASE Die
    BY <1>4, DieLone
  <1>5. CASE UNCHANGED accounts_vars
    <2> SUFFICES ASSUME ~overlapped' PROVE LoneParts'
      BY DEF LoneInv
    <2>1. /\ LoneParts /\ UNCHANGED file_vars /\ UNCHANGED <<at, request, table, fd>>
          /\ sessions' \subseteq sessions
      BY <1>5 DEF accounts_vars, worker_vars, LoneInv
    <2>2. Accounts' = Accounts /\ Readable' /\ TmpApart' /\ OneWriter'
      BY <2>1, FilesStand DEF LoneParts, OneWriter, Writing
    <2>3. \A w \in Workers : LoneWorker(w)'
      BY <2>1, <2>2
      DEF LoneParts, LoneWorker, Role, OwnTmp, FirstRun, UpToDate, Vouched, MovedOn,
          NoAccounts, file_vars
    <2> QED BY <2>1, <2>2, <2>3, SessionsLone DEF LoneParts
  <1> QED BY <1>1, <1>2, <1>3, <1>4, <1>5 DEF AccountsNext

LEMMA LoneInductive == AccountsSpec => []LoneInv
  <1>1. AccountsInv /\ LoneInv /\ [AccountsNext]_accounts_vars => LoneInv'
    BY NextLone
  <1> QED BY <1>1, InitLone, AccountsInvariance, PTL DEF AccountsSpec

-----------------------------------------------------------------------------
(***************************************************************************)
(* Theorems about the account file.                                        *)
(***************************************************************************)

\* AccountsTypeCorrect: whatever the threads of auth.py read, write and rename at once,
\* the locals they act on are those of a request, and an inode holds a table, or bytes
\* that are none.
THEOREM AccountsTypeCorrect == AccountsSpec => []AccountsTypeOK
  <1>1. AccountsInv => AccountsTypeOK
    BY DEF AccountsInv
  <1> QED BY <1>1, AccountsInvariance, PTL

\* There are no accounts only as long as there is no file.
LEMMA GateIsTheFile ==
  ASSUME AccountsInv
  PROVE  NeedsBootstrap <=> users_file = Absent
  <1>1. users_file = Absent => NeedsBootstrap
    BY DEF NeedsBootstrap, Readable, Accounts
  <1>2. users_file # Absent => Accounts # NoAccounts
    BY TypeParts DEF AccountsInv, FilesOK, NeverWrittenEmpty, Accounts
  <1> QED BY <1>1, <1>2 DEF NeedsBootstrap

LEMMA FileStays ==
  ASSUME AccountsInv, [AccountsNext]_accounts_vars, users_file # Absent
  PROVE  users_file' # Absent
  <1>1. users_file' = users_file \/ \E w \in Workers : Replace(w)
    BY DEF AccountsNext, AccountsStep, accounts_vars, file_vars, Start, Gate, Verify, Read,
           Issue, OpenTmp, Fill, WriteFails, SessionGone, Die
  <1>2. ASSUME NEW w \in Workers, Replace(w) PROVE users_file' # Absent
    BY <1>2 DEF Replace
  <1> QED BY <1>1, <1>2

\* NoSecondFirstRun: once there is an account, no overlap of writers of auth.py, no write
\* that fails and no death ever makes bootstrap() available again.
THEOREM NoSecondFirstRun == AccountsSpec => GateStaysShut
  <1>1. ASSUME AccountsInv, AccountsInv', [AccountsNext]_accounts_vars, ~NeedsBootstrap
        PROVE  ~NeedsBootstrap'
    <2>1. users_file # Absent
      BY <1>1, GateIsTheFile
    <2>2. users_file' # Absent
      BY <1>1, <2>1, FileStays
    <2>3. NeedsBootstrap' => users_file' = Absent
      BY <1>1, TypeParts DEF AccountsInv, NeverWrittenEmpty, AccountsTypeOK, NeedsBootstrap, Accounts
    <2> QED BY <2>2, <2>3
  <1> QED BY <1>1, AccountsInvariance, PTL DEF AccountsSpec, GateStaysShut

\* EndedSessionsStayEnded: as long as no two operations that write the account file have run
\* at once, the file is readable whenever the process dies, and read_session() accepts no
\* session that a change or a revocation was to end, nor one of an earlier password, the
\* login that a change overtook apart.
THEOREM EndedSessionsStayEnded == AccountsSpec => []LoneChangesHold
  <1>1. LoneInv => LoneChangesHold
    BY DEF LoneInv, LoneParts, LoneSession, LoneChangesHold, Accepted
  <1> QED BY <1>1, LoneInductive, PTL

=============================================================================
