----------------------------- MODULE MCScullMem -----------------------------
(***************************************************************************)
(* Instances of ScullMem for TLC.                                          *)
(***************************************************************************)
EXTENDS ScullMem

\* The next trim would change the shape of the quantum sets.
Reshapes == <<scull_quantum, scull_qset>> # <<quantum, qset>>

\* Users that may truncate the device at any time, but change its shape only while
\* nobody is in a call on it: a truncation that reshapes begins when the others
\* are idle, no call begins before it has returned, and the parameters are not
\* changed during an open.
QuietReshape ==
    /\ \A p \in Procs :
         /\ pc[p] = "closed" /\ pc'[p] = "o_lock" /\ Reshapes =>
               \A q \in Procs : pc[q] \in {"closed", "idle"} \cup OpenPC
         /\ pc[p] = "idle" /\ pc'[p] \in RwPC /\ Reshapes =>
               \A q \in Procs : pc[q] \notin OpenPC
    /\ params' # params => \A q \in Procs : pc[q] \notin OpenPC

\* A step back, no step and a step over a hole.
SeekOffsets == {-1, 0, 2}

QuietSpec == Init /\ [][Next /\ QuietReshape]_vars
=============================================================================
