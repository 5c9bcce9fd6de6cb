-------------------------- MODULE DriverLifeProofs --------------------------
(***************************************************************************)
(* Proofs about the drivers whose hard part is who owns what, and when it is *)
(* given back: sbull (the invalidation timer), usb-skeleton (the reference *)
(* count), scullpriv (the list of cloned devices) and the setup and cleanup *)
(* of the scull module.  For any number of users, processes, terminals,    *)
(* devices and plug-ins.                                                   *)
(***************************************************************************)
EXTENDS Sbull, UsbSkel, ScullPriv, ScullSetup, FiniteSetTheorems, TLAPS

-----------------------------------------------------------------------------
(* sbull.  The inductive invariant says when the timer is not off: only    *)
(* while there are no users and no open is between its del_timer_sync and  *)
(* its count.                                                              *)

TimerOwned == sbull_timer # "off" => users = 0 /\ sbull_busy = "no"

\* An open that is under way has room for one more user.
RoomForUser == sbull_busy = "open" => users < SbullMax

\* A removal is noted until the next first user, who finds the disk cleared.
RemovalNoted == expired => media_change

SbullInv == SbullTypeOK /\ TimerOwned /\ RoomForUser /\ RemovalNoted /\ SbullSane

\* The part of the type invariant that is about numbers and labels.
Labels ==
    /\ users \in 0..SbullMax
    /\ sbull_data \in {"zero", "written"} /\ sbull_timer \in {"off", "pending", "running"}
    /\ sbull_busy \in {"no", "open"}

\* and the part about flags.
Flags == media_change \in BOOLEAN /\ sanity \in BOOLEAN /\ expired \in BOOLEAN

\* The two halves of the type invariant: SMT reasons about one, Zenon about the other.
LEMMA SbullTypeParts == SbullTypeOK <=> Labels /\ Flags
  BY Zenon DEF SbullTypeOK, Labels, Flags

\* The freshly initialised disk satisfies the invariant.
LEMMA SbullInitInv == SbullInit => SbullInv
  <1>. SUFFICES ASSUME SbullInit PROVE SbullInv
    OBVIOUS
  <1>1. Labels /\ TimerOwned /\ RoomForUser
    BY SbullAssumption DEF SbullInit, Labels, TimerOwned, RoomForUser
  <1>2. Flags /\ RemovalNoted /\ SbullSane
    BY Zenon DEF SbullInit, Flags, RemovalNoted, SbullSane
  <1>. QED
    BY <1>1, <1>2, SbullTypeParts DEF SbullInv

\* Every step of open, release, request and timer preserves it.
LEMMA SbullNextInv == SbullInv /\ [SbullNext]_sbullVars => SbullInv'
  <1>. SUFFICES ASSUME SbullInv, [SbullNext]_sbullVars
                PROVE  SbullInv'
    OBVIOUS
  <1>. USE DEF SbullInv
  <1>0. Labels /\ Flags
    BY SbullTypeParts
  <1>1. (Labels /\ TimerOwned /\ RoomForUser)'
    <2>. USE <1>0, SbullAssumption DEF Labels, TimerOwned, RoomForUser
    <2>1. CASE SbullDelTimer    BY <2>1 DEF SbullDelTimer
    <2>2. CASE SbullOpen
      <3>1. /\ sbull_busy = "open" /\ users' = users + 1 /\ sbull_busy' = "no"
            /\ sbull_timer' = sbull_timer /\ sbull_data' \in {"zero", sbull_data}
        BY <2>2 DEF SbullOpen
      <3>. QED
        BY <3>1
    <2>3. CASE SbullTransfer    BY <2>3 DEF SbullTransfer
    <2>4. CASE SbullRelease
      <3>1. /\ sbull_busy = "no" /\ users > 0 /\ users' = users - 1 /\ sbull_busy' = "no"
            /\ sbull_data' = sbull_data
            /\ sbull_timer' = IF users = 1 THEN "pending" ELSE sbull_timer
        BY <2>4 DEF SbullRelease
      <3>. QED
        BY <3>1
    <2>5. CASE SbullInvalidate
      <3>1. /\ sbull_timer \in {"pending", "running"} /\ sbull_timer' \in {"running", "off"}
            /\ UNCHANGED <<users, sbull_data, sbull_busy>>
        BY <2>5 DEF SbullInvalidate
      <3>. QED
        BY <3>1
    <2>6. CASE UNCHANGED sbullVars  BY <2>6 DEF sbullVars
    <2>. QED
      BY <2>1, <2>2, <2>3, <2>4, <2>5, <2>6 DEF SbullNext
  <1>2. (Flags /\ RemovalNoted /\ SbullSane)'
    <2>. USE <1>0 DEF Flags, RemovalNoted, SbullSane
    <2>1. CASE SbullDelTimer    BY <2>1, Zenon DEF SbullDelTimer
    <2>2. CASE SbullOpen        BY <2>2, Zenon DEF SbullOpen
    <2>3. CASE SbullTransfer    BY <2>3, Zenon DEF SbullTransfer
    <2>4. CASE SbullRelease
      \* add_timer does not meet a pending timer: there was a user.
      <3>1. sbull_timer # "pending"
        BY <2>4 DEF SbullRelease, TimerOwned
      <3>. QED
        BY <2>4, <3>1, Zenon DEF SbullRelease
    <2>5. CASE SbullInvalidate
      \* nor does the handler meet a user.
      <3>1. users = 0
        BY <2>5 DEF SbullInvalidate, TimerOwned
      <3>2. CASE UNCHANGED <<media_change, sanity, expired>>
        BY <3>2, Zenon
      <3>3. CASE /\ sanity' = (sanity /\ users = 0) /\ media_change' = (media_change \/ users = 0)
                 /\ expired' = (users = 0)
        <4>1. sanity' = TRUE /\ media_change' = TRUE /\ expired' = TRUE
          BY <3>1, <3>3, Zenon
        <4>. QED
          BY <4>1, Zenon
      <3>. QED
        BY <2>5, <3>2, <3>3, Zenon DEF SbullInvalidate
    <2>6. CASE UNCHANGED sbullVars  BY <2>6, Zenon DEF sbullVars
    <2>. QED
      BY <2>1, <2>2, <2>3, <2>4, <2>5, <2>6 DEF SbullNext
  <1>3. SbullTypeOK'
    BY <1>1, <1>2, Zenon DEF SbullTypeOK, Labels, Flags
  <1>. QED
    BY <1>1, <1>2, <1>3

\* The state keeps its types, whatever the order of opens, releases and the timer.
THEOREM SbullTypes == SbullSpec => []SbullTypeOK
  <1>1. SbullInv => SbullTypeOK
    BY DEF SbullInv
  <1>. QED
    BY <1>1, SbullInitInv, SbullNextInv, PTL DEF SbullSpec

\* "timer sanity check failed" (271) is never printed and add_timer (229) never meets
\* a pending timer, for any number of users.
THEOREM SbullTimerSane == SbullSpec => []SbullSane
  <1>1. SbullInv => SbullSane
    BY DEF SbullInv
  <1>. QED
    BY <1>1, SbullInitInv, SbullNextInv, PTL DEF SbullSpec

\* The first user after a removal finds the disk cleared, and no user sees it
\* cleared under them.
LEMMA SbullStepFresh == SbullInv /\ [SbullNext]_sbullVars => [SbullFreshStep]_sbullVars
  <1>. SUFFICES ASSUME SbullInv, SbullNext PROVE SbullFreshStep
    OBVIOUS
  <1>0. Labels
    BY SbullTypeParts DEF SbullInv
  <1>1. CASE SbullOpen
    <2>1. users = 0 /\ expired => sbull_data' = "zero"
      BY <1>1, Zenon DEF SbullOpen, SbullInv, RemovalNoted
    <2>2. users > 0 => sbull_data' = sbull_data
      BY <1>1, <1>0 DEF SbullOpen, Labels
    <2>. QED
      BY <2>1, <2>2 DEF SbullFreshStep
  <1>2. CASE SbullTransfer
    <2>1. users' = users /\ sbull_data' = "written"
      BY <1>2 DEF SbullTransfer
    <2>. QED
      BY <2>1, <1>0 DEF SbullFreshStep, Labels
  <1>3. CASE SbullDelTimer \/ SbullRelease \/ SbullInvalidate
    <2>1. sbull_data' = sbull_data
      BY <1>3 DEF SbullDelTimer, SbullRelease, SbullInvalidate
    <2>2. ~(users = 0 /\ users' = 1)
      BY <1>3 DEF SbullDelTimer, SbullRelease, SbullInvalidate
    <2>. QED
      BY <2>1, <2>2 DEF SbullFreshStep
  <1>. QED
    BY <1>1, <1>2, <1>3 DEF SbullNext

\* So the promise of the media change holds of every step.
THEOREM SbullMediaFresh == SbullSpec => SbullFresh
  BY SbullInitInv, SbullNextInv, SbullStepFresh, PTL DEF SbullSpec, SbullFresh

-----------------------------------------------------------------------------
(* usb-skeleton                                                            *)

\* Who refers to what.  An open between its lookup and its kref_get holds the big
\* kernel lock, so that the interface still refers to what it found.
SkelShape ==
    /\ \A p \in SkelProcs :
         /\ spc[p] = "get" => bkl = p /\ private_data[p] = intfdata /\ intfdata # "null"
         /\ spc[p] = "open" => private_data[p] \in SkelDevs \ unused
    /\ intfdata \notin unused /\ gone \notin unused /\ freed \cap unused = {}
    /\ gone # "null" => intfdata = "null"
    /\ dpc = "idle" => gone = "null"
    /\ dpc = "put" => gone # "null"
    /\ dpc \in {"idle", "put"}

SkelInv == SkelTypeOK /\ SkelShape /\ SkelCountExact

\* The files open on a device can be counted.
LEMMA FilesFinite ==
    ASSUME NEW o
    PROVE  IsFiniteSet(SkelFiles(o)) /\ Cardinality(SkelFiles(o)) \in Nat
  <1>1. SkelFiles(o) \subseteq SkelProcs
    BY DEF SkelFiles
  <1>. QED
    BY <1>1, SkelAssumption, FS_Subset, FS_CardinalityType

\* Nobody refers to a structure that is not allocated yet.
LEMMA UnusedNoRefs ==
    ASSUME SkelInv, NEW o \in unused
    PROVE  SkelFiles(o) = {} /\ Cardinality(SkelFiles(o)) = 0
  <1>1. SkelFiles(o) = {}
    BY DEF SkelInv, SkelShape, SkelFiles
  <1>. QED
    BY <1>1, FS_EmptySet

\* With nothing plugged in there is nothing to count.
LEMMA SkelInitInv == SkelInit => SkelInv
  BY SkelAssumption DEF SkelInit, SkelInv, SkelTypeOK, SkelShape, SkelCountExact

\* The types and the shape do not depend on the counts, but that a reference that is
\* dropped was counted.
LEMMA SkelNextShape ==
    ASSUME SkelInv, SkelNext
    PROVE  (SkelTypeOK /\ SkelShape)'
  <1>. USE SkelAssumption DEF SkelInv, SkelTypeOK, SkelShape
  <1>1. CASE SkelProbe
    <2>1. PICK o \in unused :
            /\ unused' = unused \ {o}
            /\ \/ kref' = [kref EXCEPT ![o] = 1] /\ intfdata' = o /\ UNCHANGED freed
               \/ kref' = [kref EXCEPT ![o] = 0] /\ freed' = freed \cup {o} /\ UNCHANGED intfdata
      BY <1>1 DEF SkelProbe
    <2>2. /\ dpc = "idle" /\ intfdata = "null" /\ gone = "null"
          /\ UNCHANGED <<bkl, spc, private_data, dpc, gone>>
      BY <1>1 DEF SkelProbe
    <2>3. SkelTypeOK'
      <3>1. o \in SkelDevs
        OBVIOUS
      <3>2. kref' \in [SkelDevs -> Nat]
        BY <2>1, <3>1
      <3>3. freed' \subseteq SkelDevs /\ unused' \subseteq SkelDevs /\ intfdata' \in SkelDevs \cup {"null"}
        BY <2>1, <3>1
      <3>. QED
        BY <2>2, <3>2, <3>3
    <2>4. \A p \in SkelProcs : spc[p] # "get"
      BY <2>2
    <2>5. SkelShape'
      BY <2>1, <2>2, <2>4
    <2>. QED
      BY <2>3, <2>5
  <1>2. CASE SkelUnlink
    BY <1>2 DEF SkelUnlink
  <1>3. CASE SkelPut
    <2>1. gone \in SkelDevs \ unused /\ kref[gone] > 0
      BY <1>3, FilesFinite DEF SkelPut, SkelCountExact, SkelRefs
    <2>. QED
      BY <1>3, <2>1 DEF SkelPut, kref_put
  <1>4. ASSUME NEW p \in SkelProcs, SkelLookup(p)
        PROVE  (SkelTypeOK /\ SkelShape)'
    BY <1>4 DEF SkelLookup, SGoto
  <1>5. ASSUME NEW p \in SkelProcs, SkelGet(p)
        PROVE  (SkelTypeOK /\ SkelShape)'
    BY <1>5 DEF SkelGet, SGoto
  <1>6. ASSUME NEW p \in SkelProcs, SkelRelease(p)
        PROVE  (SkelTypeOK /\ SkelShape)'
    <2>1. private_data[p] \in SkelDevs \ unused /\ p \in SkelFiles(private_data[p])
      BY <1>6 DEF SkelRelease, SkelFiles
    <2>2. Cardinality(SkelFiles(private_data[p])) > 0
      BY <2>1, FilesFinite, FS_EmptySet
    <2>3. kref[private_data[p]] > 0
      BY <2>1, <2>2, FilesFinite DEF SkelCountExact, SkelRefs
    <2>. QED
      BY <1>6, <2>1, <2>3 DEF SkelRelease, SGoto, kref_put
  <1>. QED
    BY <1>1, <1>2, <1>3, <1>4, <1>5, <1>6 DEF SkelNext

\* Every step moves the count together with the references it counts.
LEMMA SkelNextCount ==
    ASSUME SkelInv, SkelNext
    PROVE  SkelCountExact'
  <1>. USE SkelAssumption DEF SkelInv, SkelTypeOK, SkelShape
  <1>. SUFFICES ASSUME NEW o \in SkelDevs, o \notin unused'
                PROVE  /\ kref'[o] = SkelRefs(o)'
                       /\ o \in freed' <=> SkelRefs(o)' = 0
    BY DEF SkelCountExact
  <1>0. Cardinality(SkelFiles(o)) \in Nat
    BY FilesFinite
  <1>1. CASE SkelProbe
    <2>1. SkelFiles(o)' = SkelFiles(o)
      BY <1>1 DEF SkelProbe, SkelFiles
    <2>2. CASE o \notin unused
      <3>1. kref'[o] = kref[o] /\ (o \in freed' <=> o \in freed)
        BY <1>1, <2>2 DEF SkelProbe
      <3>2. o \in {intfdata', gone'} <=> o \in {intfdata, gone}
        BY <1>1, <2>2 DEF SkelProbe
      <3>. QED
        BY <2>1, <2>2, <3>1, <3>2 DEF SkelCountExact, SkelRefs
    <2>3. CASE o \in unused
      <3>1. Cardinality(SkelFiles(o)') = 0
        BY <2>1, <2>3, UnusedNoRefs
      <3>2. gone' = "null"
        BY <1>1 DEF SkelProbe
      <3>3. \/ kref' = [kref EXCEPT ![o] = 1] /\ intfdata' = o /\ freed' = freed
            \/ kref' = [kref EXCEPT ![o] = 0] /\ freed' = freed \cup {o} /\ intfdata' = "null"
        BY <1>1, <2>3 DEF SkelProbe
      <3>4. o \notin freed
        BY <2>3
      <3>. QED
        BY <3>1, <3>2, <3>3, <3>4 DEF SkelRefs
    <2>. QED
      BY <2>2, <2>3
  <1>2. CASE SkelUnlink
    <2>1. SkelFiles(o)' = SkelFiles(o)
      BY <1>2 DEF SkelUnlink, SkelFiles
    <2>. QED
      BY <1>0, <1>2, <2>1 DEF SkelUnlink, SkelCountExact, SkelRefs
  <1>3. CASE SkelPut
    <2>1. SkelFiles(o)' = SkelFiles(o)
      BY <1>3 DEF SkelPut, SkelFiles
    <2>. QED
      BY <1>0, <1>3, <2>1 DEF SkelPut, kref_put, SkelCountExact, SkelRefs
  <1>4. ASSUME NEW p \in SkelProcs, SkelLookup(p)
        PROVE  /\ kref'[o] = SkelRefs(o)'
               /\ o \in freed' <=> SkelRefs(o)' = 0
    <2>1. SkelFiles(o)' = SkelFiles(o)
      BY <1>4 DEF SkelLookup, SGoto, SkelFiles
    <2>. QED
      BY <1>0, <1>4, <2>1 DEF SkelLookup, SkelCountExact, SkelRefs
  <1>5. ASSUME NEW p \in SkelProcs, SkelGet(p)
        PROVE  /\ kref'[o] = SkelRefs(o)'
               /\ o \in freed' <=> SkelRefs(o)' = 0
    <2>1. CASE o = private_data[p]
      <3>1. SkelFiles(o)' = SkelFiles(o) \cup {p} /\ p \notin SkelFiles(o)
        BY <1>5, <2>1 DEF SkelGet, SGoto, SkelFiles
      <3>2. Cardinality(SkelFiles(o)') = Cardinality(SkelFiles(o)) + 1
        BY <3>1, FilesFinite, FS_AddElement, ZenonT(40)
      <3>3. o = intfdata
        BY <1>5, <2>1 DEF SkelGet
      <3>. QED
        BY <1>0, <1>5, <2>1, <3>2, <3>3 DEF SkelGet, SkelCountExact, SkelRefs
    <2>2. CASE o # private_data[p]
      <3>1. SkelFiles(o)' = SkelFiles(o)
        BY <1>5, <2>2 DEF SkelGet, SGoto, SkelFiles
      <3>. QED
        BY <1>0, <1>5, <2>2, <3>1 DEF SkelGet, SkelCountExact, SkelRefs
    <2>. QED
      BY <2>1, <2>2
  <1>6. ASSUME NEW p \in SkelProcs, SkelRelease(p)
        PROVE  /\ kref'[o] = SkelRefs(o)'
               /\ o \in freed' <=> SkelRefs(o)' = 0
    <2>1. CASE o = private_data[p]
      <3>1. SkelFiles(o)' = SkelFiles(o) \ {p} /\ p \in SkelFiles(o)
        BY <1>6, <2>1 DEF SkelRelease, SGoto, SkelFiles
      <3>2. Cardinality(SkelFiles(o)') = Cardinality(SkelFiles(o)) - 1
        BY <3>1, FilesFinite, FS_RemoveElement, ZenonT(40)
      <3>3. Cardinality(SkelFiles(o)') \in Nat
        BY <3>1, FilesFinite, FS_RemoveElement, FS_CardinalityType
      <3>. QED
        BY <1>0, <1>6, <2>1, <3>2, <3>3 DEF SkelRelease, kref_put, SkelCountExact, SkelRefs
    <2>2. CASE o # private_data[p]
      <3>1. SkelFiles(o)' = SkelFiles(o)
        BY <1>6, <2>2 DEF SkelRelease, SGoto, SkelFiles
      <3>. QED
        BY <1>0, <1>6, <2>2, <3>1 DEF SkelRelease, kref_put, SkelCountExact, SkelRefs
    <2>. QED
      BY <2>1, <2>2
  <1>. QED
    BY <1>1, <1>2, <1>3, <1>4, <1>5, <1>6 DEF SkelNext

\* The invariant is inductive.
LEMMA SkelStep == SkelInv /\ [SkelNext]_skelVars => SkelInv'
  <1>1. CASE SkelNext
    BY <1>1, SkelNextShape, SkelNextCount DEF SkelInv
  <1>2. CASE UNCHANGED skelVars
    BY <1>2 DEF skelVars, SkelInv, SkelTypeOK, SkelShape, SkelCountExact, SkelRefs, SkelFiles
  <1>. QED
    BY <1>1, <1>2

\* What is referred to has a reference that is counted, and so is not freed.
LEMMA ReferredNotFreed ==
    ASSUME SkelInv, NEW o \in SkelDevs, o \notin unused,
           o \in {intfdata, gone} \/ SkelFiles(o) # {}
    PROVE  o \notin freed
  <1>1. IsFiniteSet(SkelFiles(o)) /\ Cardinality(SkelFiles(o)) \in Nat
    BY FilesFinite
  <1>2. SkelFiles(o) # {} => Cardinality(SkelFiles(o)) # 0
    BY <1>1, FS_EmptySet
  <1>3. SkelRefs(o) # 0
    BY <1>1, <1>2 DEF SkelRefs
  <1>. QED
    BY <1>3 DEF SkelInv, SkelCountExact

\* A device in use has a reference, so its count is not 0 and it is not freed.
LEMMA NoStaleNow ==
    ASSUME SkelInv
    PROVE  SkelNoStale
  <1>. USE SkelAssumption DEF SkelInv
  <1>0. "null" \notin freed
    BY DEF SkelTypeOK
  <1>1. intfdata \notin freed /\ gone \notin freed
    BY <1>0, ReferredNotFreed DEF SkelTypeOK, SkelShape
  <1>2. ASSUME NEW p \in SkelProcs, spc[p] # "closed"
        PROVE  private_data[p] \notin freed
    <2>1. CASE spc[p] = "get"
      BY <1>1, <2>1 DEF SkelShape
    <2>2. CASE spc[p] = "open"
      <3>1. p \in SkelFiles(private_data[p])
        BY <2>2 DEF SkelFiles
      <3>. QED
        BY <2>2, <3>1, ReferredNotFreed DEF SkelShape
    <2>. QED
      BY <1>2, <2>1, <2>2 DEF SkelTypeOK
  <1>. QED
    BY <1>1, <1>2 DEF SkelNoStale

\* The types are kept by every open, release, probe and disconnect.
THEOREM SkelTypes == SkelSpec => []SkelTypeOK
  <1>1. SkelInv => SkelTypeOK
    BY DEF SkelInv
  <1>. QED
    BY <1>1, SkelInitInv, SkelStep, PTL DEF SkelSpec

\* The reference count is exact for any number of files and of pluggings: the last
\* reference to go frees the structure, and no other does.
THEOREM SkelCounted == SkelSpec => []SkelCountExact
  <1>1. SkelInv => SkelCountExact
    BY DEF SkelInv
  <1>. QED
    BY <1>1, SkelInitInv, SkelStep, PTL DEF SkelSpec

\* No file, open in progress or interface ever refers to a freed structure.
THEOREM SkelSafe == SkelSpec => []SkelNoStale
  <1>1. SkelInv => SkelNoStale
    BY NoStaleNow
  <1>. QED
    BY <1>1, SkelInitInv, SkelStep, PTL DEF SkelSpec

-----------------------------------------------------------------------------
(* scullpriv                                                               *)

\* The types, and who may be between spin_lock and spin_unlock: the holder and nobody else.
PrivShape ==
    /\ PrivTypeOK /\ scull_c_lock \in PrivProcs \cup {"none"}
    /\ allocated \in 0..PrivMax /\ home \in [Ttys -> 0..PrivMax]
    /\ scull_c_list \in Seq([key : Ttys, dev : 1..PrivMax])
    /\ \A p \in PrivProcs : ppc[p] \in {"look", "alloc"} => scull_c_lock = p
    /\ \A p \in PrivProcs : ppc[p] # "closed" => tty[p] \in Ttys

\* An item of the list leads to the device its terminal was given first, and every
\* terminal that was given one is in the list, so that an allocation under the lock is
\* for a terminal without one.
ListExact ==
    /\ \A i \in DOMAIN scull_c_list :
         scull_c_list[i].dev = home[scull_c_list[i].key]
    /\ \A k \in Ttys : home[k] # 0 => Matching(k) # {}
    /\ \A p \in PrivProcs : ppc[p] = "alloc" => Matching(tty[p]) = {}

\* No two terminals share a device, and a device that was not given away is empty.
HomesApart ==
    /\ \A k \in Ttys : home[k] <= allocated
    /\ \A k, j \in Ttys : home[k] = home[j] /\ home[k] # 0 => k = j
    /\ \A k \in Ttys : home[k] # 0 => content[home[k]] \in {NoTty, k}
    /\ \A d \in 1..PrivMax : d > allocated => content[d] = NoTty

\* An open file uses its terminal's device.
FilesHome == \A p \in PrivProcs : ppc[p] \in {"trim", "open"} => pdev[p] = home[tty[p]] /\ pdev[p] # 0

PrivInv == PrivShape /\ ListExact /\ HomesApart /\ FilesHome

\* The empty list satisfies the invariant.
LEMMA PrivInitInv == PrivInit => PrivInv
  BY PrivAssumption DEF PrivInit, PrivInv, PrivShape, PrivTypeOK, ListExact, HomesApart, FilesHome, Matching

\* The invariant says where the processes of a terminal find their device.
LEMMA PrivInvSafe == PrivInv => PrivTypeOK /\ PrivOwnDevice
  BY DEF PrivInv, PrivShape, PrivTypeOK, HomesApart, FilesHome, PrivOwnDevice

\* An element of a sequence has the type of its elements.
LEMMA SeqElement ==
    ASSUME NEW S, NEW s \in Seq(S), NEW i \in DOMAIN s
    PROVE  s[i] \in S
  OBVIOUS

\* An element pushed in front of a sequence moves the others by one.
LEMMA SeqPushed ==
    ASSUME NEW S, NEW s \in Seq(S), NEW x \in S, NEW t, t = <<x>> \o s
    PROVE  /\ t \in Seq(S) /\ 1 \in DOMAIN t /\ t[1] = x
           /\ \A i \in DOMAIN s : i + 1 \in DOMAIN t /\ t[i + 1] = s[i]
           /\ \A i \in DOMAIN t : i = 1 \/ (i - 1 \in DOMAIN s /\ t[i] = s[i - 1])
  OBVIOUS

\* What an item of scull_c_list holds.
LEMMA ItemType ==
    ASSUME PrivInv, NEW i \in DOMAIN scull_c_list
    PROVE  scull_c_list[i].key \in Ttys /\ scull_c_list[i].dev \in 1..PrivMax
  <1>1. scull_c_list \in Seq([key : Ttys, dev : 1..PrivMax])
    BY DEF PrivInv, PrivShape
  <1>2. scull_c_list[i] \in [key : Ttys, dev : 1..PrivMax]
    BY <1>1, SeqElement, Zenon
  <1>. QED
    BY <1>2

\* The steps that leave the list alone.
LEMMA ListQuiet ==
    ASSUME ListExact, UNCHANGED <<scull_c_list, home, tty>>,
           \A p \in PrivProcs : ppc'[p] = "alloc" => ppc[p] = "alloc" \/ Matching(tty[p]) = {}
    PROVE  ListExact'
  <1>1. \A k : Matching(k)' = Matching(k)
    BY DEF Matching
  <1>. QED
    BY <1>1 DEF ListExact

\* Every step of open, write, release and cleanup preserves the invariant.
LEMMA PrivNextInv == PrivInv /\ [PrivNext]_privVars => PrivInv'
  <1>. SUFFICES ASSUME PrivInv, [PrivNext]_privVars
                PROVE  PrivInv'
    OBVIOUS
  <1>. USE PrivAssumption DEF PrivInv, PrivShape, PrivTypeOK, PGoto
  <1>1. ASSUME NEW p \in PrivProcs, PrivLock(p)
        PROVE  PrivInv'
    BY <1>1 DEF PrivLock, ListExact, HomesApart, FilesHome, Matching
  <1>2. ASSUME NEW p \in PrivProcs, PrivLook(p)
        PROVE  PrivInv'
    <2>1. tty[p] \in Ttys /\ scull_c_lock = p
      BY <1>2 DEF PrivLook
    <2>2. CASE Matching(tty[p]) = {}
      <3>1. PGoto(p, "alloc") /\ UNCHANGED <<tty, scull_c_list, allocated, content, home, pdev, scull_c_lock>>
        BY <1>2, <2>2 DEF PrivLook
      <3>2. ListExact'
        BY <2>2, <3>1, ListQuiet
      <3>. QED
        BY <2>1, <3>1, <3>2 DEF HomesApart, FilesHome
    <2>3. CASE Matching(tty[p]) # {}
      <3>1. pdev' = [pdev EXCEPT ![p] = home[tty[p]]] /\ home[tty[p]] \in 1..PrivMax
        <4>1. PICK i \in Matching(tty[p]) : pdev' = [pdev EXCEPT ![p] = scull_c_list[i].dev]
          BY <1>2, <2>3 DEF PrivLook
        <4>2. i \in DOMAIN scull_c_list /\ scull_c_list[i].key = tty[p]
          BY DEF Matching
        <4>3. scull_c_list[i].dev \in 1..PrivMax
          BY <4>2, ItemType
        <4>. QED
          BY <4>1, <4>2, <4>3 DEF ListExact
      <3>2. /\ PGoto(p, "trim") /\ scull_c_lock' = "none"
            /\ UNCHANGED <<tty, scull_c_list, allocated, content, home>>
        BY <1>2, <2>3 DEF PrivLook
      <3>3. ListExact'
        BY <3>2, ListQuiet
      <3>. QED
        BY <2>1, <3>1, <3>2, <3>3 DEF HomesApart, FilesHome
    <2>. QED
      BY <2>2, <2>3
  <1>3. ASSUME NEW p \in PrivProcs, PrivAlloc(p)
        PROVE  PrivInv'
    <2>. DEFINE k == tty[p]
                n == allocated + 1
    <2>1. k \in Ttys /\ scull_c_lock = p /\ Matching(k) = {} /\ home[k] = 0
      BY <1>3 DEF PrivAlloc, ListExact
    <2>2. CASE PGoto(p, "closed") /\ UNCHANGED <<scull_c_list, pdev, allocated, home>>
      BY <1>3, <2>1, <2>2 DEF PrivAlloc, ListExact, HomesApart, FilesHome, Matching
    <2>3. CASE /\ n <= PrivMax /\ allocated' = n
               /\ scull_c_list' = <<[key |-> k, dev |-> n]>> \o scull_c_list
               /\ pdev' = [pdev EXCEPT ![p] = n]
               /\ home' = [home EXCEPT ![k] = IF @ = 0 THEN n ELSE @]
               /\ PGoto(p, "trim")
      <3>1. home' = [home EXCEPT ![k] = n] /\ n \in 1..PrivMax
        BY <2>1, <2>3
      <3>2. /\ scull_c_lock' = "none" /\ UNCHANGED <<tty, content>>
        BY <1>3 DEF PrivAlloc
      <3>3. /\ scull_c_list' \in Seq([key : Ttys, dev : 1..PrivMax])
            /\ 1 \in DOMAIN scull_c_list' /\ scull_c_list'[1] = [key |-> k, dev |-> n]
            /\ \A i \in DOMAIN scull_c_list :
                 i + 1 \in DOMAIN scull_c_list' /\ scull_c_list'[i + 1] = scull_c_list[i]
            /\ \A i \in DOMAIN scull_c_list' :
                 i = 1 \/ (i - 1 \in DOMAIN scull_c_list /\ scull_c_list'[i] = scull_c_list[i - 1])
        <4>. DEFINE item == [key |-> k, dev |-> n]
                    Item == [key : Ttys, dev : 1..PrivMax]
        <4>1. item \in Item /\ scull_c_list \in Seq(Item) /\ scull_c_list' = <<item>> \o scull_c_list
          BY <2>1, <2>3, <3>1
        <4>. HIDE DEF item, Item
        <4>2. /\ scull_c_list' \in Seq(Item)
              /\ 1 \in DOMAIN scull_c_list' /\ scull_c_list'[1] = item
              /\ \A i \in DOMAIN scull_c_list :
                   i + 1 \in DOMAIN scull_c_list' /\ scull_c_list'[i + 1] = scull_c_list[i]
              /\ \A i \in DOMAIN scull_c_list' :
                   i = 1 \/ (i - 1 \in DOMAIN scull_c_list /\ scull_c_list'[i] = scull_c_list[i - 1])
          BY ONLY <4>1, SeqPushed
        <4>. QED
          BY <4>2, Zenon DEF item, Item
      <3>4. PrivShape'
        BY <2>1, <2>3, <3>1, <3>2, <3>3
      <3>5. HomesApart'
        BY <2>1, <2>3, <3>1, <3>2 DEF HomesApart
      <3>6. FilesHome'
        BY <2>1, <2>3, <3>1, <3>2 DEF FilesHome, HomesApart
      <3>7. ListExact'
        <4>1. ASSUME NEW i \in DOMAIN scull_c_list'
              PROVE  scull_c_list'[i].dev = home'[scull_c_list'[i].key]
          <5>1. CASE i = 1
            BY <2>1, <3>1, <3>3, <5>1
          <5>2. CASE i # 1
            <6>1. i - 1 \in DOMAIN scull_c_list /\ scull_c_list'[i] = scull_c_list[i - 1]
              BY <3>3, <5>2, Zenon
            <6>2. scull_c_list[i - 1].key # k /\ scull_c_list[i - 1].key \in Ttys
              BY <2>1, <6>1, ItemType DEF Matching
            <6>. QED
              BY <3>1, <6>1, <6>2 DEF ListExact
          <5>. QED
            BY <5>1, <5>2
        <4>2. ASSUME NEW j \in Ttys, home'[j] # 0
              PROVE  Matching(j)' # {}
          <5>1. CASE j = k
            <6>1. 1 \in Matching(j)'
              BY <3>3, <5>1 DEF Matching
            <6>. QED
              BY <6>1
          <5>2. CASE j # k
            <6>1. PICK i \in DOMAIN scull_c_list : scull_c_list[i].key = j
              BY <2>1, <3>1, <4>2, <5>2 DEF ListExact, Matching
            <6>2. i + 1 \in DOMAIN scull_c_list' /\ scull_c_list'[i + 1] = scull_c_list[i]
              BY <3>3, Zenon
            <6>3. i + 1 \in Matching(j)'
              BY <6>1, <6>2 DEF Matching
            <6>. QED
              BY <6>3
          <5>. QED
            BY <5>1, <5>2
        <4>3. \A q \in PrivProcs : ppc'[q] # "alloc"
          BY <2>1, <2>3
        <4>. QED
          BY <4>1, <4>2, <4>3 DEF ListExact
      <3>. QED
        BY <3>4, <3>5, <3>6, <3>7
    <2>. QED
      BY <1>3, <2>2, <2>3 DEF PrivAlloc
  <1>4. ASSUME NEW p \in PrivProcs, PrivTrim(p) \/ PrivWrite(p)
        PROVE  PrivInv'
    <2>. DEFINE k == tty[p]
    <2>1. k \in Ttys /\ pdev[p] = home[k] /\ home[k] # 0
      BY <1>4 DEF PrivTrim, PrivWrite, FilesHome
    <2>2. PICK v \in {NoTty, k} : content' = [content EXCEPT ![home[k]] = v]
      BY <1>4, <2>1 DEF PrivTrim, PrivWrite, HomesApart
    <2>3. /\ UNCHANGED <<tty, scull_c_list, scull_c_lock, pdev, allocated, home>>
          /\ ppc' = ppc \/ (ppc[p] = "trim" /\ ppc' = [ppc EXCEPT ![p] = "open"])
      BY <1>4 DEF PrivTrim, PrivWrite
    <2>4. HomesApart'
      BY <2>1, <2>2, <2>3 DEF HomesApart
    <2>. QED
      BY <2>1, <2>2, <2>3, <2>4, ListQuiet DEF FilesHome
  <1>5. ASSUME NEW p \in PrivProcs, PrivRelease(p)
        PROVE  PrivInv'
    BY <1>5 DEF PrivRelease, ListExact, HomesApart, FilesHome, Matching
  <1>6. CASE PrivCleanup
    BY <1>6 DEF PrivCleanup, ListExact, HomesApart, FilesHome, Matching
  <1>7. CASE UNCHANGED privVars
    BY <1>7 DEF privVars, ListExact, HomesApart, FilesHome, Matching
  <1>. QED
    BY <1>1, <1>2, <1>3, <1>4, <1>5, <1>6, <1>7 DEF PrivNext

-----------------------------------------------------------------------------
(* scull module setup                                                      *)

Groups == {"scull", "scullp", "sculla"}

\* The state of the groups that scull_cleanup_module and scull_p_cleanup find by
\* testing for their memory: when the memory is there the numbers are registered and
\* every cdev is held, otherwise no cdev is.
GroupHeld(g) ==
    /\ g \in memory => g \in regions /\ \A d \in Group(g) : cdevs[d] \in {"added", "failed"}
    /\ g \notin memory => \A d \in Group(g) : cdevs[d] \in {"zero", "put"}

SetupTypeOK ==
    /\ setup \in {"unloaded", "alloc", "scull_p_init", "scull_access_init", "loaded", "cleanup",
                  "scull_p_cleanup", "scull_access_cleanup"}
    /\ regions \subseteq Groups /\ memory \subseteq {"scull", "scullp"}
    /\ cdevs \in [Cdevs -> {"zero", "added", "failed", "put"}]

\* How far the setup or the cleanup has come.
SetupStage ==
    /\ setup = "alloc" => memory = {} /\ "scull" \in regions
    /\ setup \in {"cleanup", "scull_p_cleanup", "scull_access_cleanup", "unloaded"} => "scull" \notin memory
    /\ setup \in {"scull_access_cleanup", "unloaded"} => "scullp" \notin memory
    /\ "scull" \in regions => "scull" \in memory \/ setup \in {"alloc", "cleanup"}
    /\ "scullp" \in regions => "scullp" \in memory
    /\ setup = "unloaded" => "sculla" \notin regions /\ \A d \in Group("sculla") : cdevs[d] \in {"zero", "put"}

SetupInv ==
    /\ SetupTypeOK /\ SetupStage /\ GroupHeld("scull") /\ GroupHeld("scullp")
    /\ unowned \subseteq {"sculla"}

\* The three groups of devices partition the cdevs.
LEMMA GroupsApart ==
    /\ \A g \in Groups : Group(g) \subseteq Cdevs
    /\ \A d \in Cdevs : \E g \in Groups : d \in Group(g)
    /\ \A g, h : g # h => Group(g) \cap Group(h) = {}
  BY SetupAssumption DEF Groups, Group, Cdevs

\* Before the module is loaded nothing is held.
LEMMA SetupInitInv == SetupInit => SetupInv
  BY GroupsApart DEF SetupInit, Zeroed, SetupInv, SetupTypeOK, SetupStage, GroupHeld, Groups

\* The last stage of the invariant is the property.
LEMMA SetupInvSafe == SetupInv => SetupExact
  <1>. SUFFICES ASSUME SetupInv, setup = "unloaded"
                PROVE  regions = {} /\ memory = {} /\ \A d \in Cdevs : cdevs[d] \in {"zero", "put"}
    BY DEF SetupInv, SetupExact
  <1>1. regions = {} /\ memory = {}
    BY DEF SetupInv, SetupTypeOK, SetupStage, Groups
  <1>2. ASSUME NEW d \in Cdevs
        PROVE  cdevs[d] \in {"zero", "put"}
    BY <1>1, GroupsApart DEF SetupInv, SetupStage, GroupHeld, Groups
  <1>. QED
    BY <1>1, <1>2

\* Every step of setup, of a failed setup and of cleanup preserves the invariant.
LEMMA SetupNextInv == SetupInv /\ [SetupNext]_setupVars => SetupInv'
  <1>. SUFFICES ASSUME SetupInv, [SetupNext]_setupVars
                PROVE  SetupInv'
    OBVIOUS
  <1>. USE GroupsApart DEF SetupInv, SetupTypeOK, Groups
  <1>1. CASE SetupRegister
    BY <1>1 DEF SetupRegister, Zeroed, SetupStage, GroupHeld
  <1>2. CASE SetupAlloc
    <2>1. CASE setup' = "cleanup" /\ UNCHANGED <<memory, cdevs>>
      BY <1>2, <2>1 DEF SetupAlloc, SetupStage, GroupHeld
    <2>2. CASE memory' = {"scull"} /\ SetupCdevs("scull", "failed") /\ setup' = "scull_p_init"
      <3>1. PICK f \in [Group("scull") -> {"added", "failed"}] :
              cdevs' = [d \in Cdevs |-> IF d \in Group("scull") THEN f[d] ELSE cdevs[d]]
        BY <2>2 DEF SetupCdevs
      <3>2. /\ \A d \in Group("scull") : cdevs'[d] \in {"added", "failed"}
            /\ \A d \in Group("scullp") : cdevs'[d] = cdevs[d]
            /\ cdevs' \in [Cdevs -> {"zero", "added", "failed", "put"}]
        BY <3>1
      <3>3. SetupStage'
        BY <1>2, <2>2, <3>2 DEF SetupAlloc, SetupStage
      <3>4. GroupHeld("scull")' /\ GroupHeld("scullp")'
        BY <1>2, <2>2, <3>2 DEF SetupAlloc, SetupStage, GroupHeld
      <3>. QED
        BY <1>2, <2>2, <3>2, <3>3, <3>4 DEF SetupAlloc
    <2>. QED
      BY <1>2, <2>1, <2>2 DEF SetupAlloc
  <1>3. CASE SetupPipes
    <2>1. CASE UNCHANGED <<regions, memory, cdevs>>
      BY <1>3, <2>1 DEF SetupPipes, SetupStage, GroupHeld
    <2>2. CASE /\ regions' = regions \cup {"scullp"} /\ memory' = memory \cup {"scullp"}
               /\ SetupCdevs("scullp", "failed")
      <3>1. PICK f \in [Group("scullp") -> {"added", "failed"}] :
              cdevs' = [d \in Cdevs |-> IF d \in Group("scullp") THEN f[d] ELSE cdevs[d]]
        BY <2>2 DEF SetupCdevs
      <3>2. /\ \A d \in Group("scullp") : cdevs'[d] \in {"added", "failed"}
            /\ \A d \in Group("scull") : cdevs'[d] = cdevs[d]
            /\ cdevs' \in [Cdevs -> {"zero", "added", "failed", "put"}]
        BY <3>1
      <3>. QED
        BY <1>3, <2>2, <3>2 DEF SetupPipes, SetupStage, GroupHeld
    <2>. QED
      BY <1>3, <2>1, <2>2 DEF SetupPipes
  <1>4. CASE SetupAccess
    <2>1. CASE UNCHANGED <<regions, cdevs>>
      BY <1>4, <2>1 DEF SetupAccess, SetupStage, GroupHeld
    <2>2. CASE regions' = regions \cup {"sculla"} /\ SetupCdevs("sculla", "put")
      <3>1. PICK f \in [Group("sculla") -> {"added", "put"}] :
              cdevs' = [d \in Cdevs |-> IF d \in Group("sculla") THEN f[d] ELSE cdevs[d]]
        BY <2>2 DEF SetupCdevs
      <3>2. /\ \A d \in Group("scull") \cup Group("scullp") : cdevs'[d] = cdevs[d]
            /\ cdevs' \in [Cdevs -> {"zero", "added", "failed", "put"}]
        BY <3>1
      <3>. QED
        BY <1>4, <2>2, <3>2 DEF SetupAccess, SetupStage, GroupHeld
    <2>. QED
      BY <1>4, <2>1, <2>2 DEF SetupAccess
  <1>5. CASE CleanupModule
    <2>1. CASE "scull" \in memory
      <3>1. /\ \A d \in Group("scull") : cdevs[d] \notin {"zero", "put"}
            /\ "scull" \in regions
        BY <2>1 DEF GroupHeld
      <3>2. /\ cdevs' = [d \in Cdevs |-> IF d \in Group("scull") THEN "put" ELSE cdevs[d]]
            /\ regions' = regions \ {"scull"} /\ memory' = memory \ {"scull"}
        BY <1>5, <2>1 DEF CleanupModule, Dismantle
      <3>3. unowned' = unowned
        BY <1>5, <2>1, <3>1 DEF CleanupModule, Dismantle
      <3>4. cdevs' \in [Cdevs -> {"zero", "added", "failed", "put"}]
        BY <3>2
      <3>5. GroupHeld("scull")'
        BY <3>2 DEF GroupHeld
      <3>6. GroupHeld("scullp")'
        BY <3>2 DEF GroupHeld
      <3>7. SetupStage'
        BY <1>5, <3>2 DEF CleanupModule, SetupStage
      <3>. QED
        BY <1>5, <3>2, <3>3, <3>4, <3>5, <3>6, <3>7 DEF CleanupModule
    <2>2. CASE "scull" \notin memory
      <3>1. /\ regions' = regions \ {"scull"} /\ memory' = memory \ {"scull"}
            /\ UNCHANGED <<cdevs, unowned>>
        BY <1>5, <2>2 DEF CleanupModule
      <3>2. GroupHeld("scull")' /\ GroupHeld("scullp")'
        BY <2>2, <3>1 DEF GroupHeld
      <3>. QED
        BY <1>5, <2>2, <3>1, <3>2 DEF CleanupModule, SetupStage
    <2>. QED
      BY <2>1, <2>2
  <1>6. CASE CleanupPipes
    <2>1. CASE "scullp" \in memory
      <3>1. /\ \A d \in Group("scullp") : cdevs[d] \notin {"zero", "put"}
            /\ "scullp" \in regions
        BY <2>1 DEF GroupHeld
      <3>2. /\ cdevs' = [d \in Cdevs |-> IF d \in Group("scullp") THEN "put" ELSE cdevs[d]]
            /\ regions' = regions \ {"scullp"} /\ memory' = memory \ {"scullp"}
        BY <1>6, <2>1 DEF CleanupPipes, Dismantle
      <3>3. unowned' = unowned
        BY <1>6, <2>1, <3>1 DEF CleanupPipes, Dismantle
      <3>4. cdevs' \in [Cdevs -> {"zero", "added", "failed", "put"}]
        BY <3>2
      <3>5. GroupHeld("scullp")'
        BY <3>2 DEF GroupHeld
      <3>6. GroupHeld("scull")'
        BY <3>2 DEF GroupHeld
      <3>7. SetupStage'
        BY <1>6, <3>2 DEF CleanupPipes, SetupStage
      <3>. QED
        BY <1>6, <3>2, <3>3, <3>4, <3>5, <3>6, <3>7 DEF CleanupPipes
    <2>2. CASE "scullp" \notin memory
      BY <1>6, <2>2 DEF CleanupPipes, SetupStage, GroupHeld
    <2>. QED
      BY <2>1, <2>2
  <1>7. CASE CleanupAccess
    BY <1>7 DEF CleanupAccess, Dismantle, SetupStage, GroupHeld
  <1>8. CASE UNCHANGED setupVars
    BY <1>8 DEF setupVars, SetupStage, GroupHeld
  <1>. QED
    BY <1>1, <1>2, <1>3, <1>4, <1>5, <1>6, <1>7, <1>8 DEF SetupNext
=============================================================================
