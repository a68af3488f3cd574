------------------------------ MODULE MCIdent ------------------------------
(***************************************************************************)
(* A shelf with two bays behind one enclosure lock, for TLC.               *)
(***************************************************************************)
EXTENDS Ident, TLC

CONSTANTS s1, s2, e1

MCSlots  == {s1, s2}
MCOneSlot == {s1}
MCEncl   == {e1}
MCEnclOf == [s \in Slots |-> e1]

\* Requests are interchangeable (safety runs only).
Symmetry == Permutations(Reqs)

=============================================================================
