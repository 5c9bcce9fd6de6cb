---------------------------- MODULE MCScullPipe -----------------------------
(***************************************************************************)
(* Instances of ScullPipe for TLC.                                         *)
(***************************************************************************)
EXTENDS ScullPipe, TLC

\* The driver copies bytes and never looks at them.
Symmetry == Permutations(Bytes)

\* Users that open the device only while nobody is in a call on it: each step
\* that enters an open finds the others idle, and no call starts meanwhile.
QuietOpen ==
    \A p \in Procs :
      /\ pc[p] = "closed" /\ pc'[p] # "closed" =>
            \A q \in Procs : pc[q] \in {"closed", "idle"} \cup OpenPC
      /\ pc[p] = "idle" /\ pc'[p] # "idle" =>
            \A q \in Procs : pc[q] \notin OpenPC

QuietSpec == Init /\ [][Next /\ QuietOpen]_vars
QuietFairSpec == QuietSpec /\ Fairness
=============================================================================
