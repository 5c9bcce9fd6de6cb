----------------------------- MODULE ScullAccess ----------------------------
(***************************************************************************)
(* Two of the access-controlled devices of src/ldd4/scull/access.c: the    *)
(* single-open device and the one of a single user.  They have no state in *)
(* common; which of them the processes use is chosen at the start.  The    *)
(* cloned devices, scullpriv, are loaded in Drivers.                       *)
(***************************************************************************)
EXTENDS ScullSingle, ScullUid

VARIABLE used       \* the device that is used

accessVars == <<used, singleVars, uidVars>>

AccessInit == used \in {"scullsingle", "scullwuid"} /\ SingleInit /\ UidInit

AccessNext ==
    /\ UNCHANGED used
    /\ \/ used = "scullsingle" /\ SingleNext /\ UNCHANGED uidVars
       \/ used = "scullwuid" /\ UidNext /\ UNCHANGED singleVars

AccessSpec == AccessInit /\ [][AccessNext]_accessVars /\ UidFairness
=============================================================================
