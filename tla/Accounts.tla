------------------------------ MODULE Accounts ------------------------------
(***************************************************************************)
(* services/auth.py: the account file and the sessions it vouches for.     *)
(*                                                                         *)
(* The endpoints of routes.py run in a thread pool and nothing locks the   *)
(* file: an operation reads it, hashes for a while, and replaces the whole *)
(* of it through one temporary file whose name all writers share.          *)
(***************************************************************************)
EXTENDS Integers, FiniteSets

CONSTANTS
  Workers,   \* threads of the pool
  Users, Passwords,
  Inodes,    \* of the files users.json and users.tmp
  Empty, Garbage, \* a file of no bytes, and one of bytes that are not JSON
  Absent,    \* no inode, no account, nothing read
  MaxOps,    \* bound: operations started
  MaxDeaths  \* bound: process deaths

Record == [password : Passwords, epoch : Nat, legacy : BOOLEAN]

Tables   == [Users -> Record \cup {Absent}]
Contents == Tables \cup {Empty, Garbage}

ASSUME AccountsAssumption ==
  /\ Absent \notin Record \cup Tables \cup Inodes \cup Passwords \cup Users
  /\ Empty \notin Tables /\ Garbage \notin Tables \cup {Empty}
  /\ MaxOps \in Nat /\ MaxDeaths \in Nat
  /\ IsFiniteSet(Inodes) /\ IsFiniteSet(Workers)
  /\ Cardinality(Inodes) = Cardinality(Workers) + 2

VARIABLES
  bytes,      \* what each inode holds
  users_file, \* the inode users.json names
  users_tmp,  \* the inode users.tmp names
  at,         \* where a worker is
  request,    \* what it was asked for
  table,      \* the accounts it read, and changed
  fd,         \* the inode it writes to
  sessions,   \* the cookies in use
  overlapped, \* history: two writing operations have run at once
  ops, deaths \* history: operations and deaths so far

file_vars     == <<bytes, users_file, users_tmp>>
worker_vars   == <<at, request, table, fd>>
accounts_vars == <<file_vars, worker_vars, sessions, overlapped, ops, deaths>>

Places == {"idle", "gate", "verify", "read", "open", "fill", "replace", "issue"}

\* A login's password is the one it verified; history: whether a change was written in
\* between, and what has been promised to end the session since.
Sessions ==
  [user : Users, epoch : Nat, password : Passwords, straddled : BOOLEAN,
   ended : BOOLEAN]

Requests ==
  [op : {"bootstrap", "login", "change", "revoke"}, user : Users, password : Passwords,
   new : Passwords, rehash : BOOLEAN, straddled : BOOLEAN]

\* Types of the files, of the workers' locals and of the cookies.
AccountsTypeOK ==
  /\ bytes \in [Inodes -> Contents]
  /\ users_file \in Inodes \cup {Absent} /\ users_tmp \in Inodes \cup {Absent}
  /\ at \in [Workers -> Places]
  /\ request \in [Workers -> Requests \cup {Absent}]
  /\ table \in [Workers -> Tables \cup {Absent}]
  /\ fd \in [Workers -> Inodes \cup {Absent}]
  /\ sessions \subseteq Sessions
  /\ overlapped \in BOOLEAN
  /\ ops \in 0..MaxOps /\ deaths \in 0..MaxDeaths

NoAccounts == [u \in Users |-> Absent]

\* A new installation, or one whose account was written by an older version.
AccountsInit ==
  /\ \/ users_file = Absent /\ bytes = [i \in Inodes |-> Empty]
     \/ \E i \in Inodes, u \in Users, p \in Passwords :
          /\ users_file = i
          /\ bytes = [[j \in Inodes |-> Empty] EXCEPT ![i] =
                        [NoAccounts EXCEPT ![u] =
                           [password |-> p, epoch |-> 0, legacy |-> TRUE]]]
  /\ users_tmp = Absent
  /\ at = [w \in Workers |-> "idle"] /\ request = [w \in Workers |-> Absent]
  /\ table = [w \in Workers |-> Absent] /\ fd = [w \in Workers |-> Absent]
  /\ sessions = {} /\ overlapped = FALSE /\ ops = 0 /\ deaths = 0

-----------------------------------------------------------------------------
(***************************************************************************)
(* Reading and replacing the file.                                         *)
(***************************************************************************)

\* _read_users(): no file is no accounts; a file that is not JSON is an AuthError.
Readable == users_file = Absent \/ bytes[users_file] \in Tables

Accounts == IF users_file = Absent THEN NoAccounts ELSE bytes[users_file]

NeedsBootstrap_Unreadable == ~Readable \/ Accounts = NoAccounts

\* needs_bootstrap: an unreadable file is not "no accounts".
NeedsBootstrap == Readable /\ Accounts = NoAccounts

\* read_session(): the account is there and has the epoch of the cookie.
Accepted(s) ==
  /\ Readable
  /\ Accounts[s.user] # Absent
  /\ Accounts[s.user].epoch = s.epoch

Proceeds(w, place) == at' = [at EXCEPT ![w] = place]

\* An operation ends, with an answer or an exception.
Ends(w) ==
  /\ at' = [at EXCEPT ![w] = "idle"]
  /\ request' = [request EXCEPT ![w] = Absent]
  /\ table' = [table EXCEPT ![w] = Absent]
  /\ fd' = [fd EXCEPT ![w] = Absent]

\* An operation that will write the file, or may yet.
Writing(w) == at[w] # "idle" /\ (request[w].op # "login" \/ request[w].rehash)

Overlaps(w) == \E v \in Workers \ {w} : Writing(v)

\* open(users.tmp, O_CREAT | O_TRUNC): the inode that has the name, or a new one.
Unused == CHOOSE i \in Inodes :
            i \notin {users_file, users_tmp} \cup {fd[w] : w \in Workers}

OpenTmp(w) ==
  /\ at[w] = "open"
  /\ LET i == IF users_tmp # Absent THEN users_tmp ELSE Unused
     IN /\ users_tmp' = i
        /\ fd' = [fd EXCEPT ![w] = i]
        /\ bytes' = [bytes EXCEPT ![i] = Empty]
  /\ Proceeds(w, "fill")
  /\ UNCHANGED <<users_file, request, table, sessions, overlapped, ops, deaths>>

\* os.write() from the start of the file; the rest of a longer text of another writer stays.
Fill(w) ==
  /\ at[w] = "fill"
  /\ \E text \in {table[w]} \cup (IF bytes[fd[w]] = Empty THEN {} ELSE {Garbage}) :
       bytes' = [bytes EXCEPT ![fd[w]] = text]
  /\ Proceeds(w, "replace")
  /\ UNCHANGED <<users_file, users_tmp, request, table, fd, sessions, overlapped, ops,
                 deaths>>

\* What goes on after the write: a rehash is not what was asked for.
Then(w) ==
  IF request[w].rehash
  THEN /\ Proceeds(w, IF request[w].op = "login" THEN "issue" ELSE "read")
       /\ UNCHANGED <<table, sessions>>
       /\ fd' = [fd EXCEPT ![w] = Absent]
       /\ request' = [request EXCEPT ![w].rehash = request[w].op = "login"]
  ELSE /\ at' = [at EXCEPT ![w] = "idle"]
       /\ table' = [table EXCEPT ![w] = Absent]
       /\ fd' = [fd EXCEPT ![w] = Absent]
       /\ request' = [v \in Workers |->
            IF v = w THEN Absent
            ELSE IF at[v] = "issue" /\ request[v].user = request[w].user
            THEN [request[v] EXCEPT !.straddled = TRUE]
            ELSE request[v]]
       /\ sessions' = {[s EXCEPT !.ended = @ \/ s.user = request[w].user] : s \in sessions}

\* chmod() and replace() of users.tmp: whichever inode has the name becomes the account
\* file.
Replace(w) ==
  /\ at[w] = "replace" /\ users_tmp # Absent
  /\ users_file' = users_tmp /\ users_tmp' = Absent
  /\ Then(w)
  /\ UNCHANGED <<bytes, overlapped, ops, deaths>>

\* OSError: no room, no permission, or no users.tmp to rename; it is left as it is.
WriteFails(w) ==
  /\ at[w] \in {"open", "fill", "replace"} /\ Ends(w)
  /\ UNCHANGED <<file_vars, sessions, overlapped, ops, deaths>>

-----------------------------------------------------------------------------
(***************************************************************************)
(* The operations.                                                         *)
(***************************************************************************)

First(op) == [bootstrap |-> "gate", login |-> "verify", change |-> "verify",
              revoke |-> "read"][op]

\* A request of an endpoint; changes and revocations are those of a signed-in user.
Start(w, op, u, p, n) ==
  /\ at[w] = "idle" /\ ops < MaxOps /\ ops' = ops + 1
  /\ op \in {"change", "revoke"} => \E s \in sessions : s.user = u /\ Accepted(s)
  /\ IF op = "change" THEN n # p ELSE n = p
  /\ request' = [request EXCEPT ![w] =
       [op |-> op, user |-> u, password |-> p, new |-> n, rehash |-> FALSE,
        straddled |-> FALSE]]
  /\ Proceeds(w, First(op))
  /\ overlapped' = (overlapped \/ (op # "login" /\ Overlaps(w)))
  /\ UNCHANGED <<file_vars, table, fd, sessions, deaths>>

\* bootstrap()
Gate(w) ==
  /\ at[w] = "gate"
  /\ IF NeedsBootstrap THEN Proceeds(w, "read") /\ UNCHANGED <<request, table, fd>>
     ELSE Ends(w)
  /\ UNCHANGED <<file_vars, sessions, overlapped, ops, deaths>>

\* verify(): compares with what it read, and writes all of that back with a new hash when
\* the hash is of an older version.
Verify(w) ==
  /\ at[w] = "verify"
  /\ LET r == request[w] IN
     IF ~Readable \/ Accounts[r.user] = Absent \/ Accounts[r.user].password # r.password
     THEN Ends(w) /\ UNCHANGED overlapped
     ELSE IF Accounts[r.user].legacy
     THEN /\ table' = [table EXCEPT ![w] = [Accounts EXCEPT ![r.user].legacy = FALSE]]
          /\ request' = [request EXCEPT ![w].rehash = TRUE]
          /\ overlapped' = (overlapped \/ Overlaps(w))
          /\ Proceeds(w, "open") /\ UNCHANGED fd
     ELSE /\ Proceeds(w, IF r.op = "login" THEN "issue" ELSE "read")
          /\ UNCHANGED <<request, table, fd, overlapped>>
  /\ UNCHANGED <<file_vars, sessions, ops, deaths>>

NextEpoch_Same(epoch) == epoch

NextEpoch(epoch) == epoch + 1

\* What create_user(), change_password() and revoke_sessions() make of the accounts.
Changed(r) ==
  [Accounts EXCEPT ![r.user] =
     CASE r.op = "bootstrap" -> [password |-> r.password, epoch |-> 0, legacy |-> FALSE]
       [] OTHER -> [password |-> IF r.op = "change" THEN r.new ELSE @.password,
                    epoch |-> NextEpoch(@.epoch), legacy |-> r.op # "change" /\ @.legacy]]

Read(w) ==
  /\ at[w] = "read"
  /\ LET r == request[w] IN
     IF ~Readable \/ (r.op # "bootstrap" /\ Accounts[r.user] = Absent) THEN Ends(w)
     ELSE /\ table' = [table EXCEPT ![w] = Changed(r)]
          /\ Proceeds(w, "open") /\ UNCHANGED <<request, fd>>
  /\ UNCHANGED <<file_vars, sessions, overlapped, ops, deaths>>

\* issue_session() reads the epoch again.
Issue(w) ==
  /\ at[w] = "issue" /\ Ends(w)
  /\ LET r == request[w] IN
     IF ~Readable THEN UNCHANGED sessions
     ELSE sessions' = sessions \cup
       {[user |-> r.user, password |-> r.password, straddled |-> r.straddled,
         ended |-> FALSE,
         epoch |-> IF Accounts[r.user] = Absent THEN 0 ELSE Accounts[r.user].epoch]}
  /\ UNCHANGED <<file_vars, overlapped, ops, deaths>>

\* A cookie that expires or is dropped by the browser.
SessionGone(s) ==
  /\ s \in sessions /\ sessions' = sessions \ {s}
  /\ UNCHANGED <<file_vars, worker_vars, overlapped, ops, deaths>>

\* The process dies; cookies outlive it if the signing key could be saved.
Die ==
  /\ deaths < MaxDeaths /\ deaths' = deaths + 1
  /\ at' = [w \in Workers |-> "idle"] /\ request' = [w \in Workers |-> Absent]
  /\ table' = [w \in Workers |-> Absent] /\ fd' = [w \in Workers |-> Absent]
  /\ sessions' \in {sessions, {}}
  /\ UNCHANGED <<file_vars, overlapped, ops>>

-----------------------------------------------------------------------------

AccountsStep(w) ==
  \/ Gate(w) \/ Verify(w) \/ Read(w) \/ Issue(w)
  \/ OpenTmp(w) \/ Fill(w) \/ Replace(w) \/ WriteFails(w)

AccountsNext ==
  \/ \E w \in Workers, op \in {"bootstrap", "login", "change", "revoke"}, u \in Users,
        p, n \in Passwords : Start(w, op, u, p, n)
  \/ \E w \in Workers : AccountsStep(w)
  \/ \E s \in sessions : SessionGone(s)
  \/ Die

AccountsSpec == AccountsInit /\ [][AccountsNext]_accounts_vars

-----------------------------------------------------------------------------
(***************************************************************************)
(* Properties.                                                             *)
(***************************************************************************)

\* GateStaysShut: once there is an account, no overlap of writers and no death ever makes
\* the first-run endpoint available again (auth.py:196-204).
GateStaysShut == [][~NeedsBootstrap => ~NeedsBootstrap']_accounts_vars

\* LoneChangesHold: unless two operations that write the file have run at once, the file
\* is readable whenever the process dies, and no session is accepted that was open when a
\* change or a revocation was written, or that was opened with a password that is no
\* longer the account's, the login of a change that was under way apart.
LoneChangesHold ==
  ~overlapped =>
    /\ Readable
    /\ \A s \in sessions : Accepted(s) =>
         /\ ~s.ended
         /\ s.password = Accounts[s.user].password \/ s.straddled

=============================================================================
