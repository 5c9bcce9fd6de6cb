------------------------------- MODULE MCSnull ------------------------------
(***************************************************************************)
(* Snull for TLC: longer runs on the uniprocessor, where calls do not      *)
(* interleave, and shorter ones on a multiprocessor, where every step does.*)
(***************************************************************************)
EXTENDS Snull

Config(lockups, napis, smp, tx, dn) ==
    [lockup : lockups, use_napi : napis, smp : {smp}, maxTx : {tx}, maxDowns : {dn}]

MCConfigs ==
    Config({0, 2}, BOOLEAN, FALSE, 4, 1)
      \cup Config({0, 2}, {FALSE}, TRUE, 4, 0) \cup Config({0}, {TRUE}, TRUE, 2, 1)
=============================================================================
