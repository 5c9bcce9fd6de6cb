---------------------------- MODULE MCScullAccess ---------------------------
(***************************************************************************)
(* ScullAccess for TLC: a process of ann, one of bob, one of bob's that    *)
(* has ann's effective uid, and one of bob's that may override.  All four  *)
(* and one more use the single-open device.                                *)
(***************************************************************************)
EXTENDS ScullAccess

CONSTANTS a1, b1, su, cap, x1, ann, bob, admin

MCuid  == [p \in UidProcs |-> IF p = a1 THEN ann ELSE bob]
MCeuid == [p \in UidProcs |-> IF p \in {a1, su} THEN ann ELSE bob]
=============================================================================
