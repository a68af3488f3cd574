--------------------------- MODULE ExclusiveShelf ---------------------------
(***************************************************************************)
(* What enclosure/access.py promises of the enclosure (access.py:1-8): the *)
(* commands of a client that has it are seen by no other client before     *)
(* they have settled.  A client has the enclosure to itself from Take to   *)
(* Give; commands of other clients are none of this specification's        *)
(* business.                                                               *)
(***************************************************************************)
CONSTANTS
  Clients,
  Commands, \* pairs: the client of a command and the bay it is about
  Nobody

VARIABLES
  holder, \* the client that has the enclosure
  pending \* its commands that have not settled

shelf_vars == <<holder, pending>>

ShelfInit == holder = Nobody /\ pending = {}

Take(k) ==
  /\ holder = Nobody
  /\ holder' = k
  /\ UNCHANGED pending

\* Only the holder commands.
Issue(k, c) ==
  /\ holder = k /\ c[1] = k
  /\ pending' = pending \cup {c}
  /\ UNCHANGED holder

Settle(c) ==
  /\ pending' = pending \ {c}
  /\ UNCHANGED holder

\* Whatever has not settled is given up with the enclosure: nobody waits for it.
Give(k) ==
  /\ holder = k
  /\ holder' = Nobody
  /\ pending' = {}

ShelfNext ==
  \/ \E k \in Clients : Take(k) \/ Give(k) \/ \E c \in Commands : Issue(k, c)
  \/ \E c \in Commands : Settle(c)

ShelfSpec == ShelfInit /\ [][ShelfNext]_shelf_vars

=============================================================================
