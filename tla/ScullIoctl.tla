----------------------------- MODULE ScullIoctl -----------------------------
(***************************************************************************)
(* scull_ioctl, src/ldd4/scull/main.c 388-510: the commands that read and  *)
(* change scull_quantum and scull_qset, the parameters all bare devices    *)
(* share.  It is the unlocked_ioctl method and takes no lock of its own,   *)
(* so every access to a parameter is a step.                               *)
(*                                                                         *)
(* The commands on the two parameters are the same code; k is "quantum" or *)
(* "qset".  __get_user stores 0 when the user's address faults.            *)
(***************************************************************************)
EXTENDS Integers

CONSTANTS
    Procs,              \* the processes
    Capable,            \* those with CAP_SYS_ADMIN
    Resetters,          \* those that use SCULL_IOCRESET, which needs no capability
    Args,               \* the values that arg, or the int it points to, may have
    Faults,             \* whether a user address may fault, a set of BOOLEANs
    SCULL_QUANTUM, SCULL_QSET,
    Unset               \* no value read yet

Names == {"quantum", "qset"}
Default == [k \in Names |-> IF k = "quantum" THEN SCULL_QUANTUM ELSE SCULL_QSET]

VARIABLES
    param,      \* param["quantum"] is scull_quantum, param["qset"] scull_qset
    pc,         \* where each process is
    key,        \* the parameter its command is about
    tmp         \* its local tmp, and what Query, Get, eXchange and sHift return

vars == <<param, pc, key, tmp>>

PC == {"user", "reset_qset", "h_store", "x_get", "done"}
Values == Args \cup {0, SCULL_QUANTUM, SCULL_QSET}

Init ==
    /\ param = Default
    /\ pc = [p \in Procs |-> "user"]
    /\ key = [p \in Procs |-> "quantum"]
    /\ tmp = [p \in Procs |-> Unset]

Goto(p, l) == pc' = [pc EXCEPT ![p] = l]

\* What __get_user leaves in its destination.
get_user(fault, v) == IF fault THEN 0 ELSE v

\* SCULL_IOCRESET, one parameter after the other.
ResetQuantum(p) ==
    /\ pc[p] = "user" /\ p \in Resetters
    /\ param' = [param EXCEPT !["quantum"] = SCULL_QUANTUM]
    /\ Goto(p, "reset_qset")
    /\ UNCHANGED <<key, tmp>>

ResetQset(p) ==
    /\ pc[p] = "reset_qset"
    /\ param' = [param EXCEPT !["qset"] = SCULL_QSET]
    /\ Goto(p, "user")
    /\ UNCHANGED <<key, tmp>>

\* Set and Tell.
Tell(p, k) ==
    /\ pc[p] = "user" /\ p \in Capable
    /\ \E v \in Args, fault \in Faults : param' = [param EXCEPT ![k] = get_user(fault, v)]
    /\ UNCHANGED <<pc, key, tmp>>

\* Get and Query.
Query(p, k) ==
    /\ pc[p] = "user"
    /\ key' = [key EXCEPT ![p] = k]
    /\ tmp' = [tmp EXCEPT ![p] = param[k]]
    /\ Goto(p, "done")
    /\ UNCHANGED param

\* eXchange and sHift begin alike: tmp = scull_quantum.
ReadOld(p, k, to) ==
    /\ pc[p] = "user" /\ p \in Capable
    /\ key' = [key EXCEPT ![p] = k]
    /\ tmp' = [tmp EXCEPT ![p] = param[k]]
    /\ Goto(p, to)
    /\ UNCHANGED param

\* sHift: scull_quantum = arg; return tmp.
ShiftStore(p) ==
    /\ pc[p] = "h_store"
    /\ \E v \in Args : param' = [param EXCEPT ![key[p]] = v]
    /\ Goto(p, "done")
    /\ UNCHANGED <<key, tmp>>

\* eXchange: __get_user, and __put_user(tmp) only if that went well.
ExchangeStore(p) ==
    /\ pc[p] = "x_get"
    /\ \E v \in Args, fault \in Faults :
          /\ param' = [param EXCEPT ![key[p]] = get_user(fault, v)]
          /\ tmp' = IF fault THEN [tmp EXCEPT ![p] = Unset] ELSE tmp
          /\ Goto(p, IF fault THEN "user" ELSE "done")
    /\ UNCHANGED key

Return(p) ==
    /\ pc[p] = "done"
    /\ tmp' = [tmp EXCEPT ![p] = Unset]
    /\ Goto(p, "user")
    /\ UNCHANGED <<param, key>>

Next ==
    \E p \in Procs :
      \/ ResetQuantum(p) \/ ResetQset(p)
      \/ \E k \in Names : Tell(p, k) \/ Query(p, k) \/ ReadOld(p, k, "h_store") \/ ReadOld(p, k, "x_get")
      \/ ShiftStore(p) \/ ExchangeStore(p) \/ Return(p)

Spec == Init /\ [][Next]_vars

-----------------------------------------------------------------------------
\* sHift and eXchange "switch ... atomically" (scull.h 154-155): the value they
\* return is the value they replaced.
SwitchAtomic ==
    [][\A p \in Procs :
         pc[p] \in {"h_store", "x_get"} /\ pc'[p] = "done" => tmp[p] = param[key[p]]]_vars
=============================================================================
