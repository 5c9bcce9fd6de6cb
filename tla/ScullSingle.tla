----------------------------- MODULE ScullSingle ----------------------------
(***************************************************************************)
(* The single-open device, scullsingle: src/ldd4/scull/access.c 51-74.     *)
(* scull_s_available is 1 when the device is free.  An open decrements it  *)
(* and succeeds if it reaches 0; otherwise it increments it again, in a    *)
(* second atomic operation, and returns -EBUSY.  scull_trim runs without   *)
(* the device mutex: what makes that safe is that nobody else has a file.  *)
(***************************************************************************)
EXTENDS Integers, FiniteSets

CONSTANTS
    SingleProcs,    \* the processes
    SingleWriters   \* those that open with O_WRONLY: they trim the device

ASSUME SingleAssumption == IsFiniteSet(SingleProcs) /\ SingleWriters \subseteq SingleProcs

VARIABLES
    scull_s_available,
    single_pc       \* "closed", "undo" (refused), "trim", "open", "rw" (in a call)

singleVars == <<scull_s_available, single_pc>>

SinglePC == {"closed", "undo", "trim", "open", "rw"}

\* The processes whose scull_s_open took the device.
Holders == {p \in SingleProcs : single_pc[p] \in {"trim", "open", "rw"}}
Refused == {p \in SingleProcs : single_pc[p] = "undo"}

SingleInit ==
    /\ scull_s_available = 1
    /\ single_pc = [p \in SingleProcs |-> "closed"]

SingleGoto(p, l) == single_pc' = [single_pc EXCEPT ![p] = l]

\* Mistake: the test is inverted.
SOpenInverted(p) ==
    /\ single_pc[p] = "closed"
    /\ scull_s_available' = scull_s_available - 1
    /\ SingleGoto(p, IF scull_s_available' = 0 THEN "undo"
                     ELSE IF p \in SingleWriters THEN "trim" ELSE "open")

\* atomic_dec_and_test
SOpen(p) ==
    /\ single_pc[p] = "closed"
    /\ scull_s_available' = scull_s_available - 1
    /\ SingleGoto(p, IF scull_s_available' # 0 THEN "undo"
                     ELSE IF p \in SingleWriters THEN "trim" ELSE "open")

\* Mistake: the decrement is not undone.
SRefuseOnly(p) ==
    /\ single_pc[p] = "undo"
    /\ SingleGoto(p, "closed")
    /\ UNCHANGED scull_s_available

\* atomic_inc, and -EBUSY
SRefuse(p) ==
    /\ single_pc[p] = "undo"
    /\ scull_s_available' = scull_s_available + 1
    /\ SingleGoto(p, "closed")

STrimDone(p) ==
    /\ single_pc[p] = "trim"
    /\ SingleGoto(p, "open")
    /\ UNCHANGED scull_s_available

\* A read or a write of the bare device, while the file is open.
SReadWrite(p) ==
    /\ single_pc[p] \in {"open", "rw"}
    /\ SingleGoto(p, IF single_pc[p] = "open" THEN "rw" ELSE "open")
    /\ UNCHANGED scull_s_available

SRelease(p) ==
    /\ single_pc[p] = "open"
    /\ scull_s_available' = scull_s_available + 1
    /\ SingleGoto(p, "closed")

SingleNext ==
    \E p \in SingleProcs : SOpen(p) \/ SRefuse(p) \/ STrimDone(p) \/ SReadWrite(p) \/ SRelease(p)

SingleSpec == SingleInit /\ [][SingleNext]_singleVars

-----------------------------------------------------------------------------
\* The variables keep their types.
SingleTypeOK ==
    /\ scull_s_available \in Int
    /\ single_pc \in [SingleProcs -> SinglePC]

\* The counter accounts for the holder and for every opener that was refused and
\* has not undone its decrement yet.
Accounting == scull_s_available = 1 - Cardinality(Holders) - Cardinality(Refused)

\* The device is open at most once; so scull_trim, which scull_s_open calls
\* without the mutex, never runs beside a read or a write of another process.
SingleOpen == \A p, q \in Holders : p = q
=============================================================================
