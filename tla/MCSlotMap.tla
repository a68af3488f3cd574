------------------------------ MODULE MCSlotMap ------------------------------
(* Small shelves: the type descriptor lists of their configuration pages. *)
EXTENDS SlotMap

Array(n)       == [type |-> "array", count |-> n]
Device(n)      == [type |-> "device", count |-> n]
Electronics(n) == [type |-> "electronics", count |-> n]
Expander(n)    == [type |-> "expander", count |-> n]

\* The bays first, and last; after an optional type; of two types, either first.
MCShelves ==
  {<<Array(2), Expander(1)>>,
   <<Electronics(1), Device(2), Expander(1)>>,
   <<Device(1), Array(2), Electronics(1)>>,
   <<Electronics(1), Array(2), Device(1)>>}

\* An optional type before the bays, an expander after them.
MCOmitting == {<<Electronics(1), Array(2), Expander(1)>>}

=============================================================================
