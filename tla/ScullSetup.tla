----------------------------- MODULE ScullSetup -----------------------------
(***************************************************************************)
(* Loading and unloading scull: scull_init_module (src/ldd4/scull/main.c)  *)
(* with scull_p_init and scull_access_init, any step of which may fail,    *)
(* and the three cleanup functions, which rmmod calls and a failed insmod  *)
(* too.  A cdev is "zero" before cdev_init, "added", "failed" when         *)
(* cdev_add failed and its reference is still held, and "put" after that.  *)
(***************************************************************************)
EXTENDS Integers

CONSTANT SetupDevs      \* devices in each of the three groups

ASSUME SetupAssumption == SetupDevs \in Nat \ {0}

VARIABLES
    setup,          \* label
    regions,        \* the ranges of device numbers that are registered
    memory,         \* scull_devices, scull_p_devices when allocated
    cdevs,          \* the state of each device's cdev
    unowned         \* ghost: the groups of which something was released that was not held

setupVars == <<setup, regions, memory, cdevs, unowned>>

Group(g) == {g} \X (1..SetupDevs)
Cdevs == UNION {Group(g) : g \in {"scull", "scullp", "sculla"}}
Zeroed == [d \in Cdevs |-> "zero"]

SetupInit ==
    setup = "unloaded" /\ regions = {} /\ memory = {} /\ cdevs = Zeroed /\ unowned = {}

\* cdev_init and cdev_add for a group; a device whose cdev_add fails ends up in state s
SetupCdevs(g, s) ==
    \E f \in [Group(g) -> {"added", s}] :
        cdevs' = [d \in Cdevs |-> IF d \in Group(g) THEN f[d] ELSE cdevs[d]]

\* cdev_del for a group, and unregister_chrdev_region
Dismantle(g) ==
    /\ cdevs' = [d \in Cdevs |-> IF d \in Group(g) THEN "put" ELSE cdevs[d]]
    /\ regions' = regions \ {g}
    /\ unowned' = IF g \in regions /\ \A d \in Group(g) : cdevs[d] \notin {"zero", "put"}
                  THEN unowned ELSE unowned \cup {g}

-----------------------------------------------------------------------------
\* scull_init_module: the numbers, for a module whose data are fresh,
SetupRegister ==
    /\ setup = "unloaded"
    /\ regions' = {"scull"} /\ memory' = {} /\ cdevs' = Zeroed /\ unowned' = {}
    /\ setup' = "alloc"

\* the devices,
SetupAlloc ==
    /\ setup = "alloc"
    /\ \/ memory' = {"scull"} /\ SetupCdevs("scull", "failed") /\ setup' = "scull_p_init"
       \/ setup' = "cleanup" /\ UNCHANGED <<memory, cdevs>>
    /\ UNCHANGED <<regions, unowned>>

\* Mistake: the numbers are kept when there is no memory for the pipes.
SetupPipesKeep ==
    /\ setup = "scull_p_init"
    /\ \/ /\ regions' = regions \cup {"scullp"} /\ memory' = memory \cup {"scullp"}
          /\ SetupCdevs("scullp", "failed")
       \/ regions' = regions \cup {"scullp"} /\ UNCHANGED <<memory, cdevs>>
    /\ setup' = "scull_access_init"
    /\ UNCHANGED unowned

\* scull_p_init: all or nothing; its failure does not stop the module,
SetupPipes ==
    /\ setup = "scull_p_init"
    /\ \/ /\ regions' = regions \cup {"scullp"} /\ memory' = memory \cup {"scullp"}
          /\ SetupCdevs("scullp", "failed")
       \/ UNCHANGED <<regions, memory, cdevs>>
    /\ setup' = "scull_access_init"
    /\ UNCHANGED unowned

\* and scull_access_init, which gives up a cdev it cannot add.
SetupAccess ==
    /\ setup = "scull_access_init"
    /\ \/ regions' = regions \cup {"sculla"} /\ SetupCdevs("sculla", "put")
       \/ UNCHANGED <<regions, cdevs>>
    /\ setup' = "loaded"
    /\ UNCHANGED <<memory, unowned>>

-----------------------------------------------------------------------------
\* scull_cleanup_module, for rmmod or after a failure: the devices if there are any,
\* the numbers in any case,
CleanupModule ==
    /\ setup \in {"loaded", "cleanup"}
    /\ IF "scull" \in memory THEN Dismantle("scull")
       ELSE regions' = regions \ {"scull"} /\ UNCHANGED <<cdevs, unowned>>
    /\ memory' = memory \ {"scull"}
    /\ setup' = "scull_p_cleanup"

\* scull_p_cleanup,
CleanupPipes ==
    /\ setup = "scull_p_cleanup"
    /\ IF "scullp" \in memory THEN Dismantle("scullp") ELSE UNCHANGED <<regions, cdevs, unowned>>
    /\ memory' = memory \ {"scullp"}
    /\ setup' = "scull_access_cleanup"

\* and scull_access_cleanup, which tests nothing.
CleanupAccess ==
    /\ setup = "scull_access_cleanup"
    /\ Dismantle("sculla")
    /\ setup' = "unloaded"
    /\ UNCHANGED memory

SetupNext ==
    \/ SetupRegister \/ SetupAlloc \/ SetupPipes \/ SetupAccess
    \/ CleanupModule \/ CleanupPipes \/ CleanupAccess

SetupSpec == SetupInit /\ [][SetupNext]_setupVars

-----------------------------------------------------------------------------
\* Whichever steps of the setup failed, once the module is gone no number, no memory
\* and no cdev is left (main.c 565-589, pipe.c 385-403, access.c 390-411), and the bare
\* devices and the pipes were never released without having been set up (main.c
\* 561-563, pipe.c 383); scull_access_cleanup may release what it does not have, but
\* only of its own group.
SetupExact ==
    /\ setup = "unloaded" =>
           regions = {} /\ memory = {} /\ \A d \in Cdevs : cdevs[d] \in {"zero", "put"}
    /\ unowned \subseteq {"sculla"}

\* The cleanup functions are "required to never fail, even if nothing was initialized
\* first" (access.c 388, pipe.c 383): they release nothing that was not set up,
\* the access devices included.
CleanupOwned == unowned = {}
=============================================================================
