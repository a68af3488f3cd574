------------------------------ MODULE Services ------------------------------
(***************************************************************************)
(* The parts of the program that share no state with each other, side by   *)
(* side: the enclosure lock, the way from a slot number to an LED, the     *)
(* chassis poll, the account file, the audit log and the rate limiter.     *)
(* A behaviour is one of one of them: what it promises concerns it alone,  *)
(* so that the interleavings of two would only repeat each other's states. *)
(***************************************************************************)
EXTENDS EnclosureLock, SlotMap, Chassis, Accounts, AuditLog, RateLimiter

VARIABLE part \* the one that moves

services_vars ==
  <<part, vars, slotmap_vars, chassis_vars, accounts_vars, audit_vars, limiter_vars>>

AnyShelf == CHOOSE s \in UNION {ShelvesOf(c) : c \in Shelves} : TRUE

\* One initial state for each part that stands still.
ServicesInit ==
  /\ Init /\ ChassisInit /\ AuditInit /\ LimiterInit
  /\ \/ part \in {"lock", "chassis", "audit", "limiter"}
        /\ shelf = AnyShelf /\ users_file = Absent
     \/ part = "slots" /\ users_file = Absent
     \/ part = "accounts" /\ shelf = AnyShelf
  /\ slotmap_Init /\ AccountsInit

LockMoves ==
  /\ part = "lock" /\ Next
  /\ UNCHANGED <<part, slotmap_vars, chassis_vars, accounts_vars, audit_vars, limiter_vars>>

SlotsMove ==
  /\ part = "slots" /\ slotmap_Next
  /\ UNCHANGED <<part, vars, chassis_vars, accounts_vars, audit_vars, limiter_vars>>

ChassisMoves ==
  /\ part = "chassis" /\ ChassisNext
  /\ UNCHANGED <<part, vars, slotmap_vars, accounts_vars, audit_vars, limiter_vars>>

AccountsMove ==
  /\ part = "accounts" /\ AccountsNext
  /\ UNCHANGED <<part, vars, slotmap_vars, chassis_vars, audit_vars, limiter_vars>>

AuditMoves ==
  /\ part = "audit" /\ AuditNext
  /\ UNCHANGED <<part, vars, slotmap_vars, chassis_vars, accounts_vars, limiter_vars>>

LimiterMoves ==
  /\ part = "limiter" /\ LimiterNext
  /\ UNCHANGED <<part, vars, slotmap_vars, chassis_vars, accounts_vars, audit_vars>>

ServicesNext ==
  \/ LockMoves \/ SlotsMove \/ ChassisMoves \/ AccountsMove \/ AuditMoves \/ LimiterMoves

\* Of these parts only the lock promises that something happens.
ServicesSpec == ServicesInit /\ [][ServicesNext]_services_vars /\ Fairness

-----------------------------------------------------------------------------

\* Types of every part.
ServicesTypeOK ==
  /\ TypeOK /\ SlotMapTypeOK /\ ChassisTypeOK /\ AccountsTypeOK /\ AuditTypeOK
  /\ LimiterTypeOK

=============================================================================
