--------------------------- MODULE TrueNasClient ---------------------------
(***************************************************************************)
(* truenas/client.py: the pooled WebSocket to the appliance, as the poll   *)
(* loop of services/state.py calls it and stop() closes it.                *)
(*                                                                         *)
(* The loop is the only caller: it makes one call after the other.  close()*)
(* comes from another task and takes the same FIFO lock.  What a request   *)
(* asks does not matter; that it is answered, refused or fails, does.      *)
(***************************************************************************)
EXTENDS Integers, Sequences, FiniteSets

CONSTANTS
  Conns,    \* connections, named anew when closed
  None,     \* no connection
  Fallback  \* rest_fallback

ASSUME ClientAssumption ==
  /\ Conns # {} /\ None \notin Conns
  /\ Fallback \in BOOLEAN

VARIABLES
  pc,       \* where the loop is in call()
  attempt,  \* of _call_ws
  queue,    \* the lock's holder, followed by its waiters
  socket,   \* _socket
  fresh,    \* the connection that _connect() authenticates
  open,     \* connections opened and not closed
  cooling,  \* _ws_retry_after lies in the future
  closing   \* StateService.stop(): "no", "waiting" for the lock, "closing", "done"

clientVars == <<pc, attempt, queue, socket, fresh, open, cooling, closing>>

Tasks == {"loop", "stop"}
Places == {"idle", "waiting", "connecting", "login", "request", "rest", "cancelled"}

ClientTypeOK ==
  /\ pc \in Places
  /\ attempt \in 1..2
  /\ queue \in Seq(Tasks) /\ Len(queue) <= 2
  /\ socket \in Conns \cup {None} /\ fresh \in Conns \cup {None}
  /\ open \subseteq Conns
  /\ cooling \in BOOLEAN
  /\ closing \in {"no", "waiting", "closing", "done"}

ClientInit ==
  /\ pc = "idle" /\ attempt = 1 /\ queue = <<>>
  /\ socket = None /\ fresh = None /\ open = {}
  /\ cooling = FALSE /\ closing = "no"

-----------------------------------------------------------------------------
(***************************************************************************)
(* Fault variants, for the mutants.                                        *)
(***************************************************************************)

\* A connection that is forgotten instead of closed.
ClosedForgotten(c) == open

\* A retry that does not count itself.
LastAttemptNever == FALSE

\* close() without the lock.
HoldsAnyway(who) == who = "stop" \/ (queue # <<>> /\ Head(queue) = who)

\* A failed call that keeps the lock.
KeepsLock == UNCHANGED queue

-----------------------------------------------------------------------------
(***************************************************************************)
(* The lock and the end of a call.                                         *)
(***************************************************************************)

Holds(who) == queue # <<>> /\ Head(queue) = who

Release == queue' = Tail(queue)

\* _discard_socket(): the connection is closed, whatever that raises.
Closed(c) == open \ {c}

\* The call returns, or raises TrueNASError.
Returns == pc' = "idle" /\ attempt' = 1 /\ Release

LastAttempt == attempt = 2

\* Any exception but TrueNASError: once more on a new connection, then to the
\* REST API if that is configured, for as long as the cooldown lasts.
Fails ==
  \/ /\ ~LastAttempt
     /\ pc' = "connecting" /\ attempt' = 2
     /\ UNCHANGED <<queue, cooling>>
  \/ /\ LastAttempt
     /\ attempt' = 1 /\ Release
     /\ cooling' = Fallback
     /\ pc' = IF Fallback THEN "rest" ELSE "idle"

-----------------------------------------------------------------------------
(***************************************************************************)
(* call().                                                                 *)
(***************************************************************************)

\* A poll calls: the WebSocket is preferred, unless it has failed lately.
Call ==
  /\ pc = "idle"
  /\ IF cooling
     THEN pc' = "rest" /\ UNCHANGED queue
     ELSE pc' = "waiting" /\ queue' = Append(queue, "loop")
  /\ UNCHANGED <<attempt, socket, fresh, open, cooling, closing>>

\* The lock is held; a connection is reused if there is one.
Proceed ==
  /\ pc = "waiting" /\ Holds("loop")
  /\ pc' = IF socket = None THEN "connecting" ELSE "request"
  /\ UNCHANGED <<attempt, queue, socket, fresh, open, cooling, closing>>

Connected ==
  /\ pc = "connecting"
  /\ \E c \in Conns \ open : fresh' = c /\ open' = open \cup {c}
  /\ pc' = "login"
  /\ UNCHANGED <<attempt, queue, socket, cooling, closing>>

ConnectFails ==
  /\ pc = "connecting" /\ Fails
  /\ UNCHANGED <<socket, fresh, open, closing>>

LoggedIn ==
  /\ pc = "login"
  /\ socket' = fresh /\ fresh' = None
  /\ pc' = "request"
  /\ UNCHANGED <<attempt, queue, open, cooling, closing>>

\* The key is rejected, or there is no answer in time: the connection is not kept.
LoginFails ==
  /\ pc = "login"
  /\ open' = Closed(fresh) /\ fresh' = None
  /\ \/ Returns /\ UNCHANGED cooling
     \/ Fails
  /\ UNCHANGED <<socket, closing>>

\* A result, or an error of the method called; the connection is kept.
Answered ==
  /\ pc = "request" /\ Returns
  /\ UNCHANGED <<socket, fresh, open, cooling, closing>>

\* The connection is broken, half open or talks nonsense.
RequestFails ==
  /\ pc = "request" /\ Fails
  /\ open' = Closed(socket) /\ socket' = None
  /\ UNCHANGED <<fresh, closing>>

\* _call_rest() returns or raises TrueNASError, within the timeout of httpx.
RestEnds ==
  /\ pc = "rest" /\ pc' = "idle"
  /\ UNCHANGED <<attempt, queue, socket, fresh, open, cooling, closing>>

CooldownEnds ==
  /\ cooling /\ cooling' = FALSE
  /\ UNCHANGED <<pc, attempt, queue, socket, fresh, open, closing>>

-----------------------------------------------------------------------------
(***************************************************************************)
(* StateService.stop().                                                    *)
(***************************************************************************)

StopBegins ==
  /\ closing = "no" /\ closing' = "waiting"
  /\ queue' = Append(queue, "stop")
  /\ UNCHANGED <<pc, attempt, socket, fresh, open, cooling>>

\* close() has the lock; the closing handshake is an await.
StopCloses ==
  /\ closing = "waiting" /\ Holds("stop")
  /\ closing' = "closing"
  /\ open' = Closed(socket) /\ socket' = None
  /\ UNCHANGED <<pc, attempt, queue, fresh, cooling>>

\* The lock is released and the loop cancelled before it can run again; a
\* connection that is being authenticated is closed on the way out.
StopEnds ==
  /\ closing = "closing" /\ closing' = "done"
  /\ open' = Closed(fresh) /\ fresh' = None
  /\ pc' = "cancelled" /\ attempt' = 1 /\ queue' = <<>>
  /\ UNCHANGED <<socket, cooling>>

\* A process that is gone: the next one has a client of its own.
ClientGone ==
  /\ pc' = "idle" /\ attempt' = 1 /\ queue' = <<>>
  /\ socket' = None /\ fresh' = None /\ open' = {}
  /\ cooling' = FALSE /\ closing' = "no"

-----------------------------------------------------------------------------

InCall ==
  \/ Proceed \/ Connected \/ ConnectFails \/ LoggedIn \/ LoginFails
  \/ Answered \/ RequestFails \/ RestEnds

\* What the poll loop's task does, and the clock.
ClientStep == Call \/ InCall \/ CooldownEnds
=============================================================================
