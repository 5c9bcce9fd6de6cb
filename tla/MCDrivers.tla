------------------------------ MODULE MCDrivers -----------------------------
(***************************************************************************)
(* Drivers for TLC.  The printer: lost interrupts, signals, a reader, and  *)
(* a timer that races everything else, each with as many bytes as fit.     *)
(***************************************************************************)
EXTENDS Drivers

CONSTANTS p1, p2, p3, w1, w2, r1, o1, o2, t1, t2

MCShortpConfigs ==
    LET C(l, s, c, r, m) == [lose |-> l, signals |-> s, calm |-> c, reads |-> r, maxBytes |-> m] IN
    {C(TRUE, FALSE, TRUE, FALSE, 3), C(FALSE, TRUE, TRUE, FALSE, 3),
     C(TRUE, TRUE, TRUE, TRUE, 2), C(TRUE, FALSE, FALSE, FALSE, 2)}

MCShortConfigs == {[bh |-> FALSE, overlap |-> FALSE], [bh |-> TRUE, overlap |-> FALSE],
                   [bh |-> TRUE, overlap |-> TRUE]}
=============================================================================
