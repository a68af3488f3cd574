----------------------------- MODULE RateLimiter -----------------------------
(***************************************************************************)
(* services/auth.py: the limiter that counts the password attempts of an   *)
(* address over a sliding window.  A thread takes the time before it gets  *)
(* the lock, so attempts can be counted out of the order of their times.   *)
(*                                                                         *)
(* The list of an address is a set here: nothing depends on its order.     *)
(* `nth` tells two attempts of one time apart.                             *)
(***************************************************************************)
EXTENDS Integers, FiniteSets

CONSTANTS
  Callers,   \* threads that check
  Addresses,
  Attempts,  \* limit
  Window,    \* window_seconds
  Delay,     \* from the time a thread takes to its turn with the lock
  MaxClock,  \* bound: time
  NotNow     \* no time taken

ASSUME LimiterAssumption ==
  /\ Attempts \in Nat \ {0} /\ Window \in Nat \ {0} /\ MaxClock \in Nat
  /\ Delay \in 0..Window \* the lock is held for microseconds, a window is minutes
  /\ NotNow \notin Nat \cup Addresses

VARIABLES
  clock,      \* monotonic()
  now,        \* the time a thread has taken
  calling,    \* and the address it checks
  hits,       \* _hits; {} is an address that is not in it
  last_prune, \* _last_prune
  checked,    \* history: the time of the last check
  admitted    \* history: the attempts let through since the last reset

limiter_vars == <<clock, now, calling, hits, last_prune, checked, admitted>>

Times == 0..MaxClock
Hits  == [time : Times, nth : Nat \ {0}]

\* Types of the limiter and of the threads' locals.
LimiterTypeOK ==
  /\ clock \in Times /\ last_prune \in Times /\ checked \in Times
  /\ now \in [Callers -> Times \cup {NotNow}]
  /\ calling \in [Callers -> Addresses \cup {NotNow}]
  /\ hits \in [Addresses -> SUBSET Hits]
  /\ admitted \in [Addresses -> SUBSET Hits]

LimiterInit ==
  /\ clock = 0 /\ last_prune = 0 /\ checked = 0
  /\ now = [c \in Callers |-> NotNow]
  /\ calling = [c \in Callers |-> NotNow]
  /\ hits = [a \in Addresses |-> {}] /\ admitted = [a \in Addresses |-> {}]

-----------------------------------------------------------------------------

\* Time passes; no thread waits longer than Delay for its turn.
Tick ==
  /\ clock < MaxClock /\ clock' = clock + 1
  /\ \A c \in Callers : now[c] # NotNow => clock' - now[c] <= Delay
  /\ UNCHANGED <<now, calling, hits, last_prune, checked, admitted>>

\* check() starts.
Call(c, a) ==
  /\ now[c] = NotNow
  /\ now' = [now EXCEPT ![c] = clock] /\ calling' = [calling EXCEPT ![c] = a]
  /\ UNCHANGED <<clock, hits, last_prune, checked, admitted>>

Recent(attempts, t) == {h \in attempts : t - h.time < Window}

\* _prune()
PruneDue(t) == t - last_prune >= Window

Pruned(t) ==
  IF ~PruneDue(t) THEN hits
  ELSE [a \in Addresses |-> IF Recent(hits[a], t) = {} THEN {} ELSE hits[a]]

HasRoom_OneMore(recent) == Cardinality(recent) <= Attempts

HasRoom(recent) == Cardinality(recent) < Attempts

\* The attempt of address a at time t.
Attempt(a, t) == [time |-> t, nth |-> Cardinality(admitted[a]) + 1]

\* The rest of check(), under the lock.
Check(c) ==
  /\ now[c] # NotNow
  /\ LET a == calling[c]
         recent == Recent(Pruned(now[c])[a], now[c])
     IN IF HasRoom(recent)
        THEN /\ hits' = [Pruned(now[c]) EXCEPT ![a] = recent \cup {Attempt(a, now[c])}]
             /\ admitted' = [admitted EXCEPT ![a] = @ \cup {Attempt(a, now[c])}]
        ELSE hits' = Pruned(now[c]) /\ UNCHANGED admitted
  /\ last_prune' = IF PruneDue(now[c]) THEN now[c] ELSE last_prune
  /\ checked' = now[c]
  /\ now' = [now EXCEPT ![c] = NotNow] /\ calling' = [calling EXCEPT ![c] = NotNow]
  /\ UNCHANGED clock

\* reset(): a password was right.
Reset(a) ==
  /\ hits' = [hits EXCEPT ![a] = {}] /\ admitted' = [admitted EXCEPT ![a] = {}]
  /\ UNCHANGED <<clock, now, calling, last_prune, checked>>

LimiterNext ==
  \/ Tick
  \/ \E c \in Callers, a \in Addresses : Call(c, a)
  \/ \E c \in Callers : Check(c)
  \/ \E a \in Addresses : Reset(a)

LimiterSpec == LimiterInit /\ [][LimiterNext]_limiter_vars

-----------------------------------------------------------------------------
(***************************************************************************)
(* Properties.                                                             *)
(***************************************************************************)

Within(attempts, from, to) == {h \in attempts : from <= h.time /\ h.time < to}

\* In no window, shortened by what a thread may wait for the lock, are more than Attempts
\* attempts of an address let through, however the threads overtake each other.
LimitHoldsUpToDelay ==
  \A a \in Addresses, t \in Times :
    Cardinality(Within(admitted[a], t, t + Window - Delay)) <= Attempts

\* An address is forgotten within two windows of its last attempt, at the next check.
OldAddressesGo ==
  \A a \in Addresses :
    hits[a] # {} => \E h \in hits[a] : checked - h.time < 2 * Window

\* LimiterHolds: the limiter refuses what exceeds the limit (auth.py:104-106) and its dict
\* does not grow for ever (auth.py:124-127).
LimiterHolds == LimitHoldsUpToDelay /\ OldAddressesGo

=============================================================================
