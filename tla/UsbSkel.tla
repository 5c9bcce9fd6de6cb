------------------------------- MODULE UsbSkel ------------------------------
(***************************************************************************)
(* The USB driver skeleton, src/ldd4/usb/usb-skeleton.c: the reference     *)
(* count of a device that may be unplugged, and plugged in again, while    *)
(* files are open.  skel_open runs under the big kernel lock, as all char  *)
(* device opens of that kernel do; skel_disconnect takes it itself.        *)
(***************************************************************************)
EXTENDS Integers, FiniteSets

CONSTANTS
    SkelProcs,
    SkelDevs        \* the structures that skel_probe allocates, one per plugging in

ASSUME SkelAssumption ==
    /\ IsFiniteSet(SkelProcs)
    /\ "none" \notin SkelProcs /\ "null" \notin SkelDevs

VARIABLES
    intfdata,       \* usb_get_intfdata: a structure, or "null"
    kref, freed,    \* of each structure: its count; those that skel_delete freed
    unused,         \* structures not allocated yet
    bkl,            \* holder of the big kernel lock, or "none"
    spc, private_data,      \* of each process
    dpc, gone       \* disconnect: label, and the structure it took

skelVars == <<intfdata, kref, freed, unused, bkl, spc, private_data, dpc, gone>>

SkelInit ==
    /\ intfdata = "null" /\ kref = [o \in SkelDevs |-> 0] /\ freed = {} /\ unused = SkelDevs
    /\ bkl = "none" /\ spc = [p \in SkelProcs |-> "closed"]
    /\ private_data = [p \in SkelProcs |-> "null"]
    /\ dpc = "idle" /\ gone = "null"

SGoto(p, l) == spc' = [spc EXCEPT ![p] = l]

\* kref_put(&dev->kref, skel_delete)
kref_put(o) ==
    /\ kref' = [kref EXCEPT ![o] = @ - 1]
    /\ freed' = IF kref[o] = 1 THEN freed \cup {o} ELSE freed

\* skel_probe: the structure is visible from usb_set_intfdata on.  When it fails
\* on its way it drops its reference, which frees the structure.
SkelProbe ==
    /\ dpc = "idle" /\ intfdata = "null"
    /\ \E o \in unused :
          /\ unused' = unused \ {o}
          /\ \/ kref' = [kref EXCEPT ![o] = 1] /\ intfdata' = o /\ UNCHANGED freed
             \/ kref' = [kref EXCEPT ![o] = 0] /\ freed' = freed \cup {o} /\ UNCHANGED intfdata
    /\ UNCHANGED <<bkl, spc, private_data, dpc, gone>>

\* skel_open: look the structure up,
SkelLookup(p) ==
    /\ spc[p] = "closed" /\ bkl = "none"
    /\ intfdata # "null"
    /\ bkl' = p
    /\ private_data' = [private_data EXCEPT ![p] = intfdata]
    /\ SGoto(p, "get")
    /\ UNCHANGED <<intfdata, kref, freed, unused, dpc, gone>>

\* and take a reference.
SkelGet(p) ==
    /\ spc[p] = "get"
    /\ kref' = [kref EXCEPT ![private_data[p]] = @ + 1]
    /\ bkl' = "none"
    /\ SGoto(p, "open")
    /\ UNCHANGED <<intfdata, freed, unused, private_data, dpc, gone>>

\* Mistake: release forgets the reference.
SkelReleaseKeep(p) ==
    /\ spc[p] = "open"
    /\ SGoto(p, "closed")
    /\ private_data' = [private_data EXCEPT ![p] = "null"]
    /\ UNCHANGED <<kref, freed, intfdata, unused, bkl, dpc, gone>>

SkelRelease(p) ==
    /\ spc[p] = "open"
    /\ kref_put(private_data[p])
    /\ SGoto(p, "closed")
    /\ private_data' = [private_data EXCEPT ![p] = "null"]
    /\ UNCHANGED <<intfdata, unused, bkl, dpc, gone>>

\* Mistake: disconnect does not take the big kernel lock.
SkelUnlinkUnlocked ==
    /\ dpc = "idle" /\ intfdata # "null"
    /\ gone' = intfdata /\ intfdata' = "null"
    /\ dpc' = "put"
    /\ UNCHANGED <<kref, freed, unused, bkl, spc, private_data>>

\* skel_disconnect, under the lock, when the device is unplugged,
SkelUnlink ==
    /\ dpc = "idle" /\ intfdata # "null" /\ bkl = "none"
    /\ gone' = intfdata /\ intfdata' = "null"
    /\ dpc' = "put"
    /\ UNCHANGED <<kref, freed, unused, bkl, spc, private_data>>

\* and after it.
SkelPut ==
    /\ dpc = "put"
    /\ kref_put(gone)
    /\ gone' = "null" /\ dpc' = "idle"
    /\ UNCHANGED <<intfdata, unused, bkl, spc, private_data>>

SkelNext ==
    \/ SkelProbe \/ SkelUnlink \/ SkelPut
    \/ \E p \in SkelProcs : SkelLookup(p) \/ SkelGet(p) \/ SkelRelease(p)

SkelSpec == SkelInit /\ [][SkelNext]_skelVars

-----------------------------------------------------------------------------
\* The references that exist: the interface's (until disconnect has dropped it) and
\* one of every open file.
SkelFiles(o) == {p \in SkelProcs : spc[p] = "open" /\ private_data[p] = o}
SkelRefs(o) == Cardinality(SkelFiles(o)) + (IF o \in {intfdata, gone} THEN 1 ELSE 0)

\* The variables keep their types.
SkelTypeOK ==
    /\ intfdata \in SkelDevs \cup {"null"} /\ gone \in SkelDevs \cup {"null"}
    /\ kref \in [SkelDevs -> Nat] /\ freed \subseteq SkelDevs /\ unused \subseteq SkelDevs
    /\ bkl \in SkelProcs \cup {"none"}
    /\ spc \in [SkelProcs -> {"closed", "get", "open"}]
    /\ private_data \in [SkelProcs -> SkelDevs \cup {"null"}]

\* A file, an open in progress and the interface never refer to a freed structure,
\* whenever the device is unplugged: "prevent skel_open() from racing
\* skel_disconnect()" (310).
SkelNoStale ==
    /\ \A p \in SkelProcs : spc[p] # "closed" => private_data[p] \notin freed
    /\ intfdata \notin freed /\ gone \notin freed

\* The count is the number of references, so that the last one to go, a file or the
\* interface, frees the structure: it is neither freed early nor leaked.
SkelCountExact ==
    \A o \in SkelDevs \ unused : kref[o] = SkelRefs(o) /\ (o \in freed <=> SkelRefs(o) = 0)
=============================================================================
