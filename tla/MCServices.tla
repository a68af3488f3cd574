----------------------------- MODULE MCServices -----------------------------
(* All parts, with the small shelves of MCSlotMap. *)
EXTENDS Services, MCSlotMap

=============================================================================
