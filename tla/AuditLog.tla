------------------------------ MODULE AuditLog ------------------------------
(***************************************************************************)
(* services/audit.py: record() appends one line under a lock, and rotates  *)
(* the file first when it is full; tail() reads the end of the file        *)
(* without the lock, from the inode it opened.                             *)
(*                                                                         *)
(* A line is the number of its entry, or has no entry: a write that failed *)
(* or a process that died left a part of one, to which the next one sticks.*)
(***************************************************************************)
EXTENDS Integers, Sequences, FiniteSets

CONSTANTS
  Recorders, Viewers, \* threads
  Full,       \* lines at which the file has max_bytes
  Limit,      \* entries asked of tail()
  MaxEntries, \* bound: entries built
  NoFile

ASSUME AuditAssumption ==
  /\ Full \in Nat \ {0} /\ Limit \in Nat \ {0} /\ MaxEntries \in Nat
  /\ NoFile \notin Nat

VARIABLES
  content,   \* the generations of the file, removed ones included, line by line
  current,   \* the one that audit.log names
  previous,  \* the one that audit.log.1 names
  recording, \* where a recorder is
  entry,     \* its entry
  built,     \* entries built so far
  acked,     \* history: entries that got a line of their own, with their generation
  unrotated, \* history: a rotation has failed
  viewing    \* where a viewer is

log_vars   == <<content, current, previous>>
audit_vars == <<log_vars, recording, entry, built, acked, unrotated, viewing>>

\* Lines without an entry: `Torn` has no newline yet, `Glued` has.
Glued == 0
Torn  == -1

AllEntries == 1..MaxEntries
Lines   == AllEntries \cup {Glued, Torn}

Away == [at |-> "away"]
Views ==
  {Away}
  \cup [at : {"open"}, generation : Nat \ {0}, before : SUBSET (AllEntries \X (Nat \ {0}))]
  \cup [at : {"shown"}, generation : Nat \ {0}, before : SUBSET (AllEntries \X (Nat \ {0})),
        lines : Nat, shown : UNION {[ages -> AllEntries] : ages \in SUBSET (0..(Limit - 1))}]

\* Types of the files and of the threads' places.
AuditTypeOK ==
  /\ content \in Seq(Seq(Lines))
  /\ current \in DOMAIN content \cup {NoFile} /\ previous \in DOMAIN content \cup {NoFile}
  /\ recording \in [Recorders -> {"idle", "built", "locked", "rotating", "appending"}]
  /\ entry \in [Recorders -> 0..MaxEntries]
  /\ built \in 0..MaxEntries
  /\ acked \subseteq AllEntries \X DOMAIN content
  /\ unrotated \in BOOLEAN
  /\ viewing \in [Viewers -> Views]

AuditInit ==
  /\ content = <<>> /\ current = NoFile /\ previous = NoFile
  /\ recording = [r \in Recorders |-> "idle"] /\ entry = [r \in Recorders |-> 0]
  /\ built = 0 /\ acked = {} /\ unrotated = FALSE
  /\ viewing = [v \in Viewers |-> Away]

-----------------------------------------------------------------------------
(***************************************************************************)
(* record().                                                               *)
(***************************************************************************)

LockFree_Unlocked(r) == TRUE

\* The lock of the process: nobody else is between Lock and the end of its append.
LockFree(r) == \A q \in Recorders \ {r} : recording[q] \in {"idle", "built"}

Moves(r, place) == recording' = [recording EXCEPT ![r] = place]

Build(r) ==
  /\ recording[r] = "idle" /\ built < MaxEntries
  /\ built' = built + 1
  /\ entry' = [entry EXCEPT ![r] = built + 1]
  /\ Moves(r, "built")
  /\ UNCHANGED <<log_vars, acked, unrotated, viewing>>

Lock(r) ==
  /\ recording[r] = "built" /\ LockFree(r)
  /\ Moves(r, "locked")
  /\ UNCHANGED <<log_vars, entry, built, acked, unrotated, viewing>>

\* _rotate_if_needed(): the size, then the rename.
CheckSize(r) ==
  /\ recording[r] = "locked"
  /\ Moves(r, IF current # NoFile /\ Len(content[current]) >= Full
              THEN "rotating" ELSE "appending")
  /\ UNCHANGED <<log_vars, entry, built, acked, unrotated, viewing>>

Rotate(r) ==
  /\ recording[r] = "rotating"
  /\ \/ /\ current # NoFile
        /\ previous' = current /\ current' = NoFile /\ UNCHANGED unrotated
     \/ unrotated' = TRUE /\ UNCHANGED <<current, previous>>
  /\ Moves(r, "appending")
  /\ UNCHANGED <<content, entry, built, acked, viewing>>

\* The file that is opened for appending: created when there is none.
Opened == IF current = NoFile THEN Append(content, <<>>) ELSE content
Target == IF current = NoFile THEN Len(content) + 1 ELSE current

EndsTorn(lines) == lines # <<>> /\ lines[Len(lines)] = Torn

\* A line after one without a newline is a part of that.
WithLine(lines, line) ==
  IF ~EndsTorn(lines) THEN Append(lines, line)
  ELSE [lines EXCEPT ![Len(lines)] = IF line = Torn THEN Torn ELSE Glued]

\* The entry is written; or a part of it, with an error; or the file cannot be opened.
AppendLine(r) ==
  /\ recording[r] = "appending"
  /\ \/ \E line \in {entry[r], Torn} :
          /\ content' = [Opened EXCEPT ![Target] = WithLine(@, line)]
          /\ current' = Target
          /\ acked' = IF line = Torn \/ EndsTorn(Opened[Target]) THEN acked
                      ELSE acked \cup {<<entry[r], Target>>}
     \/ UNCHANGED <<content, current, acked>>
  /\ Moves(r, "idle") /\ entry' = [entry EXCEPT ![r] = 0]
  /\ UNCHANGED <<previous, built, unrotated, viewing>>

\* The process dies, its recorders wherever they are.
AuditDies ==
  /\ \E r \in Recorders : recording[r] # "idle"
  /\ recording' = [r \in Recorders |-> "idle"] /\ entry' = [r \in Recorders |-> 0]
  /\ viewing' = [v \in Viewers |-> Away]
  /\ UNCHANGED <<log_vars, built, acked, unrotated>>

-----------------------------------------------------------------------------
(***************************************************************************)
(* tail().                                                                 *)
(***************************************************************************)

LastLines(lines, n) == SubSeq(lines, Len(lines) - n + 1, Len(lines))

Newlines(lines) == IF EndsTorn(lines) THEN Len(lines) - 1 ELSE Len(lines)

Enough_AtLimit(newlines) == newlines >= Limit

\* The first line of a window is likely a part of one.
Enough(newlines) == newlines > Limit

\* _read_tail_bytes(): a window that starts with a line, or inside one, and is large
\* enough; or all of the file.
Windows(lines) ==
  {lines} \cup
  {window \in {LastLines(lines, n) : n \in 0..Len(lines)}
              \cup {<<Glued>> \o LastLines(lines, n) : n \in 0..(Len(lines) - 1)} :
     Enough(Newlines(window))}

\* The last Limit lines that are entries, by their age: newest first.
Shown(window) ==
  LET last == IF Len(window) <= Limit THEN window ELSE LastLines(window, Limit)
  IN [age \in {k \in 0..(Len(last) - 1) : last[Len(last) - k] \in AllEntries} |->
        last[Len(last) - age]]

TailOpen(v) ==
  /\ viewing[v] = Away /\ current # NoFile
  /\ viewing' = [viewing EXCEPT ![v] =
                   [at |-> "open", generation |-> current, before |-> acked]]
  /\ UNCHANGED <<log_vars, recording, entry, built, acked, unrotated>>

TailRead(v) ==
  /\ viewing[v].at = "open"
  /\ LET lines == content[viewing[v].generation]
     IN \E window \in Windows(lines) :
          viewing' = [viewing EXCEPT ![v] =
            [at |-> "shown", generation |-> @.generation, before |-> @.before,
             lines |-> Len(lines), shown |-> Shown(window)]]
  /\ UNCHANGED <<log_vars, recording, entry, built, acked, unrotated>>

TailEnds(v) ==
  /\ viewing[v].at = "shown"
  /\ viewing' = [viewing EXCEPT ![v] = Away]
  /\ UNCHANGED <<log_vars, recording, entry, built, acked, unrotated>>

-----------------------------------------------------------------------------

Recording(r) == Build(r) \/ Lock(r) \/ CheckSize(r) \/ Rotate(r) \/ AppendLine(r)

AuditNext ==
  \/ \E r \in Recorders : Recording(r)
  \/ \E v \in Viewers : TailOpen(v) \/ TailRead(v) \/ TailEnds(v)
  \/ AuditDies

AuditSpec == AuditInit /\ [][AuditNext]_audit_vars

-----------------------------------------------------------------------------
(***************************************************************************)
(* Properties.                                                             *)
(***************************************************************************)

Entries(lines) == {lines[k] : k \in DOMAIN lines} \cap AllEntries

Position(lines, n) == CHOOSE k \in DOMAIN lines : lines[k] = n

\* TailShowsTheLatest: what was recorded on a line of its own before the view was asked for
\* is in it, unless the file has been rotated since (the view is of one generation) or Limit
\* lines have been added after it, by the recorders that went on during the read too.
TailShowsTheLatest ==
  \A v \in Viewers : viewing[v].at = "shown" =>
    LET view == viewing[v] IN
    \A n \in AllEntries :
      (<<n, view.generation>> \in view.before
         /\ view.lines - Position(content[view.generation], n) < Limit)
      => n \in Entries(view.shown)

\* OnlyOldEntriesGo: an entry is lost only to a rotation that put a full generation in its
\* place, and neither generation is larger than that while renames succeed.
OnlyOldEntriesGo ==
  /\ \A ack \in acked :
       \/ ack[2] \in {current, previous}
       \/ previous # NoFile /\ Len(content[previous]) >= Full
  /\ unrotated \/ \A g \in DOMAIN content : Len(content[g]) <= Full

=============================================================================
