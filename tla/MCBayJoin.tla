------------------------------ MODULE MCBayJoin ------------------------------
(***************************************************************************)
(* An instance of BayJoin for TLC: two drives, one that declares both      *)
(* identifiers everywhere and one whose attributes give only a WWN while   *)
(* its record has only a serial.                                           *)
(***************************************************************************)
EXTENDS BayJoin, TLC

CONSTANTS d1, d2

MCDrives    == {d1, d2}
MCSysfs     == (d1 :> {"wwn", "serial"}) @@ (d2 :> {"wwn"})
MCDiskQuery == (d1 :> {"wwn", "serial"}) @@ (d2 :> {"serial"})

=============================================================================
