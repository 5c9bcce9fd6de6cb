---------------------------- MODULE ShortProofs -----------------------------
(***************************************************************************)
(* Proofs about the two drivers of the parallel port, short and shortprint, *)
(* for any buffer sizes, processes and configurations.  Both hold a ring that *)
(* an interrupt handler or a work item moves under its users.              *)
(***************************************************************************)
EXTENDS Short, ShortPrint, TLAPS

-----------------------------------------------------------------------------
(* short                                                                   *)

\* Slots of tv_data, and those from the tail up to the head.
Slots == 0..NR_TIMEVAL - 1
Between(i) == IF tv_tail <= tv_head THEN tv_tail <= i /\ i < tv_head ELSE tv_tail <= i \/ i < tv_head
\* A slot whose stamp is still to be printed.
Unstamped(i) == tv_data[i] # 0 /\ tv_data[i] \notin stamped

ShortTypes ==
    /\ ShortTypeOK
    /\ handled \in 0..ShortMax /\ short_wq_count \in Nat /\ savecount \in Nat /\ told \in Nat

\* The stamps are numbers of interrupts so far, no two slots have the same one, and
\* those that are not in a slot were printed or overwritten.
StampsKnown ==
    /\ stamped \subseteq 0..handled /\ \A i \in Slots : tv_data[i] \in 0..handled
    /\ \A i, j \in Slots : tv_data[i] = tv_data[j] /\ tv_data[i] # 0 => i = j
    /\ ~again => 0 \notin stamped
    /\ ~overwritten /\ shcf.bh => \A n \in 1..handled : n \in stamped \/ \E i \in Slots : tv_data[i] = n

\* Without a bottom half every stamp is printed at once.
DirectPrints ==
    ~shcf.bh => /\ bhpc = "idle" /\ ~short_bh /\ ~again /\ stamped = 1..handled

\* As long as nothing was lost or repeated, the slots between tail and head are those
\* still to be printed: none or all of them when the two are equal, and all only when the bottom
\* half has not finished or is queued again.
PendingExact ==
    shcf.bh /\ ~again /\ ~overwritten =>
      /\ tv_head # tv_tail => \A i \in Slots : Unstamped(i) <=> Between(i)
      /\ tv_head = tv_tail => (\A i \in Slots : Unstamped(i)) \/ (\A i \in Slots : ~Unstamped(i))
      /\ ~short_bh /\ bhpc \in {"idle", "wake"} => tv_head = tv_tail
      /\ ~short_bh /\ bhpc \in {"idle", "wake", "test"} /\ tv_head = tv_tail => \A i \in Slots : ~Unstamped(i)

\* When no interrupt falls into the bottom half, what lies between tail and head is
\* fresh, even if more interrupts came than there are slots.
BatchFresh ==
    shcf.bh /\ ~shcf.overlap =>
      /\ ~again
      /\ \A i \in Slots : Between(i) => Unstamped(i)
      /\ bhpc # "idle" => ~short_bh
      /\ (bhpc = "idle" /\ ~short_bh) \/ bhpc = "wake" => tv_head = tv_tail
      /\ (bhpc = "idle" /\ short_bh) \/ bhpc \in {"clear", "print"} =>
            (tv_head = tv_tail => \A i \in Slots : Unstamped(i))
      /\ bhpc = "idle" => told + short_wq_count = handled /\ (~short_bh => short_wq_count = 0)
      /\ bhpc = "clear" => told + savecount = handled
      /\ bhpc \in {"print", "test", "wake"} => told = handled /\ short_wq_count = 0

ShortInv ==
    /\ ShortTypes /\ ShortRing /\ ShortReaderWoken
    /\ StampsKnown /\ DirectPrints /\ PendingExact /\ BatchFresh

\* The distance from the tail to the head of a ring, without the remainder.
LEMMA RingDistance ==
    ASSUME NEW n \in Nat \ {0}, NEW h \in 0..n - 1, NEW t \in 0..n - 1
    PROVE  (h - t) % n = IF h >= t THEN h - t ELSE h - t + n
  OBVIOUS

\* The empty rings satisfy the invariant.
LEMMA ShortInitInv == ShortInit => ShortInv
  <1>. SUFFICES ASSUME ShortInit PROVE ShortInv
    OBVIOUS
  <1>1. ShortTypes
    BY ShortAssumption DEF ShortInit, ShortTypes, ShortTypeOK
  <1>2. ShortRing /\ ShortReaderWoken
    BY ShortAssumption, RingDistance DEF ShortInit, ShortRing, ShortReaderWoken
  <1>3. StampsKnown
    BY ShortAssumption DEF ShortInit, StampsKnown, Slots
  <1>4. DirectPrints /\ PendingExact /\ BatchFresh
    BY ShortAssumption DEF ShortInit, DirectPrints, PendingExact, BatchFresh, Unstamped, Between, Slots
  <1>. QED
    BY <1>1, <1>2, <1>3, <1>4 DEF ShortInv

\* Nothing is pending when the bottom half has nothing to do.
LEMMA ShortInvSafe == ShortInv => ShortTypeOK /\ ShortReported
  <1>. SUFFICES ASSUME ShortInv PROVE ShortReported
    BY DEF ShortInv, ShortTypes
  <1>1. ASSUME BhIdle, ~overwritten, ~again
        PROVE  stamped = 1..handled
    <2>1. CASE ~shcf.bh
      BY <2>1 DEF ShortInv, DirectPrints
    <2>2. CASE shcf.bh
      <3>1. \A i \in Slots : ~Unstamped(i)
        BY <1>1, <2>2 DEF ShortInv, PendingExact, BhIdle
      <3>2. 1..handled \subseteq stamped
        BY <1>1, <2>2, <3>1 DEF ShortInv, ShortTypes, StampsKnown, Unstamped
      <3>. QED
        <4>1. stamped \subseteq 0..handled /\ 0 \notin stamped
          BY <1>1, Zenon DEF ShortInv, StampsKnown
        <4>2. handled \in Nat
          BY DEF ShortInv, ShortTypes
        <4>3. stamped \subseteq 1..handled
          BY <4>1, <4>2
        <4>. QED
          BY <3>2, <4>3, Zenon
    <2>. QED
      BY <2>1, <2>2
  <1>2. ASSUME ~shcf.overlap
        PROVE  ~again /\ (BhIdle /\ shcf.bh => told = handled)
    BY <1>2 DEF ShortInv, ShortTypes, DirectPrints, BatchFresh, BhIdle
  <1>. QED
    BY <1>1, <1>2 DEF ShortReported

\* A line put at the head.
LEMMA PutLineKeeps ==
    ASSUME short_head \in 0..Lines - 1, short_tail \in 0..Lines - 1, unread \in 0..Lines - 1,
           ShortRing, PutLine
    PROVE  /\ short_head' \in 0..Lines - 1 /\ short_tail' \in 0..Lines - 1
           /\ unread' \in 0..Lines - 1 /\ ShortRing'
  <1>. USE ShortAssumption
  <1>1. /\ short_head' = IF short_head + 1 = Lines THEN 0 ELSE short_head + 1
        /\ unread' = IF unread + 1 = Lines THEN 0 ELSE unread + 1
        /\ short_tail' = short_tail
    BY DEF PutLine, short_incr_bp
  <1>2. ~overrun' => ~overrun /\ unread + 1 # Lines
    BY Zenon DEF PutLine
  <1>3. ASSUME ~overrun'
        PROVE  (short_head' - short_tail') % Lines = unread'
    <2>1. (short_head - short_tail) % Lines = unread
      BY <1>2, <1>3 DEF ShortRing
    <2>2. unread = IF short_head >= short_tail THEN short_head - short_tail
                   ELSE short_head - short_tail + Lines
      BY <2>1, RingDistance
    <2>3. short_head' \in 0..Lines - 1
      BY <1>1
    <2>4. (short_head' - short_tail') % Lines =
            IF short_head' >= short_tail' THEN short_head' - short_tail'
            ELSE short_head' - short_tail' + Lines
      BY <1>1, <2>3, RingDistance
    <2>. QED
      BY <1>1, <1>2, <1>3, <2>2, <2>4
  <1>. QED
    BY <1>1, <1>3 DEF ShortRing

\* A read moves the tail over lines that are there.
LEMMA ReadKeeps ==
    ASSUME short_head \in 0..Lines - 1, short_tail \in 0..Lines - 1, unread \in 0..Lines - 1,
           ShortRing, ShortRead
    PROVE  /\ short_head' \in 0..Lines - 1 /\ short_tail' \in 0..Lines - 1
           /\ unread' \in 0..Lines - 1 /\ ShortRing'
  <1>. USE ShortAssumption
  <1>0. short_head' = short_head /\ overrun' = overrun
    BY Zenon DEF ShortRead
  <1>1. CASE UNCHANGED <<short_tail, unread>>
    BY <1>0, <1>1 DEF ShortRing
  <1>2. CASE shortpc = "copy"
    <2>. DEFINE n == IF short_head >= short_tail THEN short_head - short_tail ELSE Lines - short_tail
    <2>1. PICK k \in 0..n : /\ short_tail' = short_incr_bp(short_tail, k)
                            /\ unread' = IF overrun THEN unread ELSE unread - k
      BY <1>2 DEF ShortRead
    <2>2. short_tail' = IF short_tail + k = Lines THEN 0 ELSE short_tail + k
      BY <2>1 DEF short_incr_bp
    <2>3. short_tail' \in 0..Lines - 1
      BY <2>2
    <2>4. CASE overrun
      BY <1>0, <2>1, <2>3, <2>4 DEF ShortRing
    <2>5. CASE ~overrun
      <3>1. unread' = unread - k
        BY <2>1, <2>5
      <3>2. unread = IF short_head >= short_tail THEN short_head - short_tail
                     ELSE short_head - short_tail + Lines
        BY <2>5, RingDistance DEF ShortRing
      <3>3. (short_head' - short_tail') % Lines =
              IF short_head' >= short_tail' THEN short_head' - short_tail'
              ELSE short_head' - short_tail' + Lines
        BY <1>0, <2>3, RingDistance
      <3>. QED
        BY <1>0, <2>2, <2>3, <3>1, <3>2, <3>3 DEF ShortRing
    <2>. QED
      BY <2>4, <2>5
  <1>. QED
    BY <1>1, <1>2 DEF ShortRead

\* The types, the text ring and its reader.
LEMMA ShortTextStep ==
    ASSUME ShortInv, [ShortNext]_shortVars
    PROVE  (ShortTypes /\ ShortRing /\ ShortReaderWoken)'
  <1>. USE ShortAssumption DEF ShortInv, ShortTypes, ShortTypeOK, ShortReaderWoken
  <1>0. \A i \in Slots : tv_data[i] \in 0..handled
    BY DEF StampsKnown
  <1>1. CASE Interrupt16
    <2>1. PutLine /\ stamped' = stamped \cup {handled + 1} /\ handled' = handled + 1 /\ handled < ShortMax
      BY <1>1 DEF Interrupt16, Stamp
    <2>2. /\ shortpc' = IF shortpc = "sleep" THEN "user" ELSE shortpc
          /\ UNCHANGED <<tv_data, tv_head, tv_tail, short_wq_count, savecount, bhpc, told>>
      BY <1>1 DEF Interrupt16, WakeReader
    <2>. QED
      BY <2>1, <2>2, PutLineKeeps
  <1>2. CASE TopHalf
    <2>1. /\ handled' = handled + 1 /\ handled < ShortMax
          /\ tv_data' = [tv_data EXCEPT ![tv_head] = handled + 1]
          /\ tv_head' = short_incr_tv(tv_head) /\ short_wq_count' = short_wq_count + 1
          /\ UNCHANGED <<short_head, short_tail, unread, overrun, tv_tail, savecount, bhpc, shortpc, stamped, told>>
      BY <1>2 DEF TopHalf, text
    <2>. QED
      BY <2>1 DEF short_incr_tv, ShortRing
  <1>3. CASE BhSave
    <2>1. /\ bhpc' = "clear" /\ savecount' = short_wq_count
          /\ UNCHANGED <<short_head, short_tail, unread, overrun, tv_data, tv_head, tv_tail, short_wq_count,
                         shortpc, handled, stamped, told>>
      BY <1>3 DEF BhSave, text
    <2>. QED
      BY <2>1 DEF ShortRing
  <1>4. CASE BhClear
    <2>1. /\ PutLine /\ bhpc' = "print" /\ short_wq_count' = 0 /\ savecount' = 0 /\ told' = told + savecount
          /\ UNCHANGED <<tv_data, tv_head, tv_tail, shortpc, handled, stamped>>
      BY <1>4 DEF BhClear
    <2>. QED
      BY <2>1, PutLineKeeps
  <1>5. CASE BhPrint
    <2>1. /\ PutLine /\ bhpc' = "test" /\ stamped' = stamped \cup {tv_data[tv_tail]}
          /\ tv_tail' = short_incr_tv(tv_tail)
          /\ UNCHANGED <<tv_data, tv_head, short_wq_count, savecount, shortpc, handled, told>>
      BY <1>5 DEF BhPrint, Stamp
    <2>2. tv_tail' \in 0..NR_TIMEVAL - 1 /\ tv_data[tv_tail] \in 0..ShortMax
      BY <2>1 DEF short_incr_tv
    <2>. QED
      BY <2>1, <2>2, PutLineKeeps
  <1>6. CASE BhTest
    <2>1. /\ bhpc' \in {"print", "wake"}
          /\ UNCHANGED <<short_head, short_tail, unread, overrun, tv_data, tv_head, tv_tail, short_wq_count,
                         savecount, shortpc, handled, stamped, told>>
      BY <1>6 DEF BhTest, text
    <2>. QED
      BY <2>1 DEF ShortRing
  <1>7. CASE BhWake
    <2>1. /\ bhpc' = "idle" /\ shortpc' = IF shortpc = "sleep" THEN "user" ELSE shortpc
          /\ UNCHANGED <<short_head, short_tail, unread, overrun, tv_data, tv_head, tv_tail, short_wq_count,
                         savecount, handled, stamped, told>>
      BY <1>7 DEF BhWake, WakeReader, text
    <2>. QED
      BY <2>1 DEF ShortRing
  <1>8. CASE ShortRead
    <2>1. /\ UNCHANGED <<tv_data, tv_head, tv_tail, short_wq_count, savecount, bhpc, handled, stamped, told>>
          /\ shortpc' \in {"user", "sleep", "copy"}
      BY <1>8 DEF ShortRead
    <2>2. shortpc' = "sleep" => short_head' = short_head /\ short_tail' = short_tail /\ short_head = short_tail
      BY <1>8 DEF ShortRead
    <2>. QED
      BY <1>8, <2>1, <2>2, ReadKeeps
  <1>9. CASE UNCHANGED shortVars
    BY <1>9 DEF shortVars, text, ShortRing
  <1>. QED
    BY <1>1, <1>2, <1>3, <1>4, <1>5, <1>6, <1>7, <1>8, <1>9 DEF ShortNext

\* Steps that leave the stamps alone.
LEMMA StampsQuiet ==
    ASSUME StampsKnown, UNCHANGED <<tv_data, stamped, handled, again, overwritten, shcf>>
    PROVE  StampsKnown'
  BY DEF StampsKnown

\* The stamps stay known, whatever the bottom half is doing.
LEMMA StampsStep ==
    ASSUME ShortInv, [ShortNext]_shortVars
    PROVE  StampsKnown'
  <1>. USE ShortAssumption DEF ShortInv, ShortTypes, ShortTypeOK, Slots
  <1>1. CASE Interrupt16
    <2>1. /\ stamped' = stamped \cup {handled + 1} /\ handled' = handled + 1
          /\ UNCHANGED <<tv_data, overwritten, shcf>> /\ ~shcf.bh
      BY <1>1 DEF Interrupt16, Stamp
    <2>2. ~again' => ~again
      BY <1>1, Zenon DEF Interrupt16, Stamp
    <2>. QED
      BY <2>1, <2>2 DEF StampsKnown
  <1>2. CASE TopHalf
    <2>1. /\ handled' = handled + 1 /\ UNCHANGED <<stamped, again, shcf>>
          /\ tv_data' = [tv_data EXCEPT ![tv_head] = handled + 1]
      BY <1>2 DEF TopHalf
    <2>2. ~overwritten' => ~overwritten /\ tv_data[tv_head] \in stamped \cup {0}
      BY <1>2, Zenon DEF TopHalf
    <2>3. ASSUME ~overwritten', shcf'.bh, NEW n \in 1..handled', n \notin stamped'
          PROVE  \E i \in Slots : tv_data'[i] = n
      <3>1. CASE n = handled + 1
        BY <2>1, <3>1
      <3>2. CASE n # handled + 1
        <4>1. PICK i \in Slots : tv_data[i] = n
          BY <2>1, <2>2, <2>3, <3>2 DEF StampsKnown
        <4>2. i # tv_head
          BY <2>1, <2>2, <2>3, <4>1
        <4>. QED
          BY <2>1, <4>1, <4>2
      <3>. QED
        BY <3>1, <3>2
    <2>. QED
      BY <2>1, <2>3 DEF StampsKnown
  <1>3. CASE BhPrint
    <2>1. /\ stamped' = stamped \cup {tv_data[tv_tail]}
          /\ UNCHANGED <<tv_data, handled, overwritten, shcf>>
      BY <1>3 DEF BhPrint, Stamp
    <2>2. ~again' => ~again /\ tv_data[tv_tail] # 0
      BY <1>3, Zenon DEF BhPrint, Stamp
    <2>. QED
      BY <2>1, <2>2, ZenonT(40) DEF StampsKnown
  <1>4. CASE BhSave \/ BhClear \/ BhTest \/ BhWake \/ ShortRead \/ UNCHANGED shortVars
    <2>1. UNCHANGED <<tv_data, stamped, handled, again, overwritten, shcf>>
      BY <1>4, Zenon DEF BhSave, BhClear, BhTest, BhWake, ShortRead, shortVars
    <2>. QED
      BY <2>1, StampsQuiet
  <1>. QED
    BY <1>1, <1>2, <1>3, <1>4 DEF ShortNext

\* Without a bottom half every interrupt is printed by the handler itself.
LEMMA DirectStep ==
    ASSUME ShortInv, [ShortNext]_shortVars
    PROVE  DirectPrints'
  <1>. USE ShortAssumption DEF ShortInv, ShortTypes, ShortTypeOK, DirectPrints
  <1>. SUFFICES ASSUME ~shcf'.bh
                PROVE  /\ bhpc' = "idle" /\ ~short_bh' /\ ~again' /\ stamped' = 1..handled'
    BY DEF DirectPrints
  <1>. shcf' = shcf
    BY DEF ShortNext, shortVars, Interrupt16, TopHalf, BhSave, BhClear, BhPrint, BhTest, BhWake, ShortRead
  <1>0. ~shcf.bh /\ bhpc = "idle" /\ ~short_bh /\ ~again /\ stamped = 1..handled
    BY Zenon
  <1>1. CASE Interrupt16
    <2>1. /\ stamped' = stamped \cup {handled + 1} /\ handled' = handled + 1 /\ bhpc' = bhpc
      BY <1>1 DEF Interrupt16, Stamp
    <2>2. handled + 1 # 0 /\ handled + 1 \notin stamped
      BY <1>0
    <2>3. ~short_bh' /\ ~again'
      BY <1>0, <1>1, <2>2, Zenon DEF Interrupt16, Stamp
    <2>. QED
      BY <1>0, <2>1, <2>3
  <1>2. CASE ShortRead \/ UNCHANGED shortVars
    <2>1. UNCHANGED <<bhpc, short_bh, again, stamped, handled>>
      BY <1>2 DEF ShortRead, shortVars
    <2>. QED
      BY <1>0, <2>1
  <1>3. ~(TopHalf \/ BhSave \/ BhClear \/ BhPrint \/ BhTest \/ BhWake)
    BY <1>0 DEF TopHalf, BhSave, BhClear, BhPrint, BhTest, BhWake
  <1>. QED
    BY <1>1, <1>2, <1>3 DEF ShortNext

\* What TopHalf and BhPrint do to the slots.
LEMMA StoreSlot ==
    ASSUME ShortInv, TopHalf
    PROVE  /\ tv_head \in Slots /\ tv_tail \in Slots /\ tv_tail' = tv_tail
           /\ tv_head' = IF tv_head = NR_TIMEVAL - 1 THEN 0 ELSE tv_head + 1
           /\ \A i \in Slots : Unstamped(i)' <=> i = tv_head \/ Unstamped(i)
           /\ bhpc' = bhpc /\ told' = told /\ handled' = handled + 1
           /\ short_wq_count' = short_wq_count + 1 /\ savecount' = savecount
  <1>. USE ShortAssumption DEF ShortInv, ShortTypes, ShortTypeOK, Slots
  <1>1. /\ handled' = handled + 1 /\ UNCHANGED <<stamped, tv_tail, bhpc, told, savecount>>
        /\ tv_data' = [tv_data EXCEPT ![tv_head] = handled + 1]
        /\ tv_head' = short_incr_tv(tv_head) /\ short_wq_count' = short_wq_count + 1
    BY DEF TopHalf
  <1>2. handled + 1 # 0 /\ handled + 1 \notin stamped
    BY DEF StampsKnown
  <1>3. \A i \in Slots : Unstamped(i)' <=> i = tv_head \/ Unstamped(i)
    BY <1>1, <1>2 DEF Unstamped
  <1>. QED
    BY <1>1, <1>3 DEF short_incr_tv

\* What the loop of the bottom half does to the slot at the tail.
LEMMA PrintSlot ==
    ASSUME ShortInv, BhPrint
    PROVE  /\ tv_head \in Slots /\ tv_tail \in Slots /\ tv_head' = tv_head
           /\ tv_tail' = IF tv_tail = NR_TIMEVAL - 1 THEN 0 ELSE tv_tail + 1
           /\ Unstamped(tv_tail) => \A i \in Slots : Unstamped(i)' <=> Unstamped(i) /\ i # tv_tail
           /\ ~again' <=> ~again /\ Unstamped(tv_tail)
           /\ bhpc = "print" /\ bhpc' = "test" /\ told' = told /\ handled' = handled
           /\ short_wq_count' = short_wq_count
  <1>. USE ShortAssumption DEF ShortInv, ShortTypes, ShortTypeOK, Slots
  <1>1. /\ UNCHANGED <<handled, tv_data, tv_head, told, short_wq_count>> /\ bhpc = "print" /\ bhpc' = "test"
        /\ stamped' = stamped \cup {tv_data[tv_tail]} /\ tv_tail' = short_incr_tv(tv_tail)
    BY DEF BhPrint, Stamp
  <1>2. ~again' <=> ~again /\ Unstamped(tv_tail)
    BY Zenon DEF BhPrint, Stamp, Unstamped
  <1>3. ASSUME Unstamped(tv_tail), NEW i \in Slots
        PROVE  Unstamped(i)' <=> Unstamped(i) /\ i # tv_tail
    BY <1>1, <1>3 DEF Unstamped, StampsKnown
  <1>. QED
    BY <1>1, <1>2, <1>3 DEF short_incr_tv

\* The slots between tail and head after a store,
LEMMA StoreBetween ==
    ASSUME NEW h \in Slots, NEW t \in Slots, tv_head = h, tv_tail = t, tv_tail' = t,
           tv_head' = IF h = NR_TIMEVAL - 1 THEN 0 ELSE h + 1
    PROVE  /\ tv_head' # t => \A i \in Slots : Between(i)' <=> i = h \/ Between(i)
           /\ tv_head' = t => h # t /\ \A i \in Slots : (i = h \/ Between(i)) /\ ~Between(i)'
  BY ShortAssumption DEF Slots, Between

\* and after a print.
LEMMA PrintBetween ==
    ASSUME NEW h \in Slots, NEW t \in Slots, tv_head = h, tv_tail = t, tv_head' = h,
           tv_tail' = IF t = NR_TIMEVAL - 1 THEN 0 ELSE t + 1
    PROVE  /\ h # t => Between(t) /\ \A i \in Slots : Between(i)' <=> Between(i) /\ i # t
           /\ h = t => tv_tail' # h /\ \A i \in Slots : Between(i)' <=> i # t
  BY ShortAssumption DEF Slots, Between

\* What the other steps leave alone.
ShortQuiet == UNCHANGED <<tv_data, tv_head, tv_tail, stamped, handled, again, overwritten, shcf>>

\* The steps that neither stamp nor print.
LEMMA QuietSteps ==
    BhSave \/ BhClear \/ BhTest \/ BhWake \/ ShortRead \/ UNCHANGED shortVars => ShortQuiet
  BY Zenon DEF BhSave, BhClear, BhTest, BhWake, ShortRead, shortVars, ShortQuiet

\* Nothing is lost from the slots unless a flag says so.
LEMMA PendingStep ==
    ASSUME ShortInv, [ShortNext]_shortVars
    PROVE  PendingExact'
  <1>. SUFFICES ASSUME shcf'.bh, ~again', ~overwritten'
                PROVE  /\ tv_head' # tv_tail' => \A i \in Slots : Unstamped(i)' <=> Between(i)'
                       /\ tv_head' = tv_tail' => (\A i \in Slots : Unstamped(i)')
                                                   \/ (\A i \in Slots : ~Unstamped(i)')
                       /\ ~short_bh' /\ bhpc' \in {"idle", "wake"} => tv_head' = tv_tail'
                       /\ ~short_bh' /\ bhpc' \in {"idle", "wake", "test"} /\ tv_head' = tv_tail' =>
                             \A i \in Slots : ~Unstamped(i)'
    BY Zenon DEF PendingExact, Slots
  <1>0. shcf' = shcf
    BY DEF ShortNext, shortVars, Interrupt16, TopHalf, BhSave, BhClear, BhPrint, BhTest, BhWake, ShortRead
  <1>p. PendingExact
    BY DEF ShortInv
  <1>1. CASE TopHalf
    <2>1. ~again /\ ~overwritten /\ ~Unstamped(tv_head) /\ short_bh'
      BY <1>1, Zenon DEF TopHalf, Unstamped
    <2>2. /\ tv_head # tv_tail => \A i \in Slots : Unstamped(i) <=> Between(i)
          /\ tv_head = tv_tail => (\A i \in Slots : Unstamped(i)) \/ (\A i \in Slots : ~Unstamped(i))
      BY <1>0, <1>p, <2>1, Zenon DEF PendingExact
    <2>3. /\ tv_head \in Slots /\ tv_tail \in Slots /\ tv_tail' = tv_tail
          /\ tv_head' = IF tv_head = NR_TIMEVAL - 1 THEN 0 ELSE tv_head + 1
          /\ \A i \in Slots : Unstamped(i)' <=> i = tv_head \/ Unstamped(i)
      BY <1>1, StoreSlot, Zenon
    <2>4. /\ tv_head' # tv_tail => \A i \in Slots : Between(i)' <=> i = tv_head \/ Between(i)
          /\ tv_head' = tv_tail => tv_head # tv_tail
                /\ \A i \in Slots : (i = tv_head \/ Between(i)) /\ ~Between(i)'
      BY <2>3, StoreBetween
    <2>5. tv_head = tv_tail => \A i \in Slots : ~Unstamped(i) /\ ~Between(i)
      BY <2>1, <2>2, <2>3 DEF Between, Slots, Unstamped
    <2>6. \A i \in Slots : Unstamped(i) <=> Between(i)
      BY <2>2, <2>5, Zenon
    <2>. QED
      BY <2>1, <2>3, <2>4, <2>6, Zenon
  <1>2. CASE BhPrint
    <2>1. ~overwritten /\ bhpc' = "test"
      BY <1>2, Zenon DEF BhPrint
    <2>2. /\ tv_head \in Slots /\ tv_tail \in Slots /\ tv_head' = tv_head
          /\ tv_tail' = IF tv_tail = NR_TIMEVAL - 1 THEN 0 ELSE tv_tail + 1
          /\ ~again /\ Unstamped(tv_tail)
          /\ \A i \in Slots : Unstamped(i)' <=> Unstamped(i) /\ i # tv_tail
      BY <1>2, PrintSlot, Zenon
    <2>3. /\ tv_head # tv_tail => \A i \in Slots : Unstamped(i) <=> Between(i)
          /\ tv_head = tv_tail => (\A i \in Slots : Unstamped(i)) \/ (\A i \in Slots : ~Unstamped(i))
      BY <1>0, <1>p, <2>1, <2>2, Zenon DEF PendingExact
    <2>4. /\ tv_head # tv_tail => Between(tv_tail) /\ \A i \in Slots : Between(i)' <=> Between(i) /\ i # tv_tail
          /\ tv_head = tv_tail => tv_tail' # tv_head /\ \A i \in Slots : Between(i)' <=> i # tv_tail
      BY <2>2, PrintBetween
    <2>5. \A i \in Slots : Unstamped(i)' <=> Between(i)'
      BY <2>2, <2>3, <2>4, Zenon
    <2>6. tv_head' = tv_tail' => \A i \in Slots : ~Between(i)'
      BY <2>2 DEF Between, Slots
    <2>7. bhpc' \notin {"idle", "wake"}
      BY <2>1
    <2>. QED
      BY <2>5, <2>6, <2>7, Zenon
  <1>3. CASE BhSave \/ BhClear \/ BhTest \/ BhWake \/ ShortRead \/ UNCHANGED shortVars
    <2>1. ShortQuiet
      BY <1>3, QuietSteps
    <2>2. /\ \A i \in Slots : (Unstamped(i)' <=> Unstamped(i)) /\ (Between(i)' <=> Between(i))
          /\ tv_head' = tv_head /\ tv_tail' = tv_tail /\ ~again /\ ~overwritten
      BY <2>1, Zenon DEF ShortQuiet, Unstamped, Between
    <2>3. /\ tv_head # tv_tail => \A i \in Slots : Unstamped(i) <=> Between(i)
          /\ tv_head = tv_tail => (\A i \in Slots : Unstamped(i)) \/ (\A i \in Slots : ~Unstamped(i))
          /\ ~short_bh /\ bhpc \in {"idle", "wake"} => tv_head = tv_tail
          /\ ~short_bh /\ bhpc \in {"idle", "wake", "test"} /\ tv_head = tv_tail =>
                \A i \in Slots : ~Unstamped(i)
      BY <1>0, <1>p, <2>2, Zenon DEF PendingExact
    <2>4. /\ ~short_bh' /\ bhpc' \in {"idle", "wake"} => tv_head = tv_tail
          /\ ~short_bh' /\ bhpc' \in {"idle", "wake", "test"} /\ tv_head = tv_tail =>
                \A i \in Slots : ~Unstamped(i)
      <3>1. CASE BhSave \/ BhClear
        <4>1. bhpc' \in {"clear", "print"}
          BY <3>1 DEF BhSave, BhClear
        <4>. QED
          BY <4>1
      <3>2. CASE BhTest
        <4>1. short_bh' = short_bh /\ bhpc = "test" /\ bhpc' = IF tv_tail # tv_head THEN "print" ELSE "wake"
          BY <3>2, Zenon DEF BhTest
        <4>2. CASE tv_tail # tv_head
          BY <4>1, <4>2
        <4>3. CASE tv_tail = tv_head
          BY <2>3, <4>1, <4>3, Zenon
        <4>. QED
          BY <4>2, <4>3
      <3>3. CASE BhWake
        <4>1. short_bh' = short_bh /\ bhpc = "wake"
          BY <3>3, Zenon DEF BhWake
        <4>. QED
          BY <2>3, <4>1, Zenon
      <3>4. CASE ShortRead \/ UNCHANGED shortVars
        <4>1. short_bh' = short_bh /\ bhpc' = bhpc
          BY <3>4, Zenon DEF ShortRead, shortVars
        <4>. QED
          BY <2>3, <4>1, Zenon
      <3>. QED
        BY <1>3, <3>1, <3>2, <3>3, <3>4
    <2>. QED
      BY <2>2, <2>3, <2>4, Zenon
  <1>4. ~Interrupt16
    BY <1>0 DEF Interrupt16
  <1>. QED
    BY <1>1, <1>2, <1>3, <1>4 DEF ShortNext

\* When no interrupt falls into the bottom half, it prints a whole batch.
LEMMA BatchStep ==
    ASSUME ShortInv, [ShortNext]_shortVars
    PROVE  BatchFresh'
  <1>. SUFFICES ASSUME shcf'.bh, ~shcf'.overlap
                PROVE  /\ ~again'
                       /\ \A i \in Slots : Between(i)' => Unstamped(i)'
                       /\ bhpc' # "idle" => ~short_bh'
                       /\ (bhpc' = "idle" /\ ~short_bh') \/ bhpc' = "wake" => tv_head' = tv_tail'
                       /\ (bhpc' = "idle" /\ short_bh') \/ bhpc' \in {"clear", "print"} =>
                             (tv_head' = tv_tail' => \A i \in Slots : Unstamped(i)')
                       /\ bhpc' = "idle" => told' + short_wq_count' = handled' /\ (~short_bh' => short_wq_count' = 0)
                       /\ bhpc' = "clear" => told' + savecount' = handled'
                       /\ bhpc' \in {"print", "test", "wake"} => told' = handled' /\ short_wq_count' = 0
    BY Zenon DEF BatchFresh, Slots
  <1>0. shcf' = shcf
    BY DEF ShortNext, shortVars, Interrupt16, TopHalf, BhSave, BhClear, BhPrint, BhTest, BhWake, ShortRead
  <1>n. told \in Nat /\ savecount \in Nat /\ short_wq_count \in Nat /\ handled \in Nat
    BY DEF ShortInv, ShortTypes
  <1>b. /\ ~again
        /\ \A i \in Slots : Between(i) => Unstamped(i)
        /\ bhpc # "idle" => ~short_bh
        /\ (bhpc = "idle" /\ ~short_bh) \/ bhpc = "wake" => tv_head = tv_tail
        /\ (bhpc = "idle" /\ short_bh) \/ bhpc \in {"clear", "print"} =>
              (tv_head = tv_tail => \A i \in Slots : Unstamped(i))
        /\ bhpc = "idle" => told + short_wq_count = handled /\ (~short_bh => short_wq_count = 0)
        /\ bhpc = "clear" => told + savecount = handled
        /\ bhpc \in {"print", "test", "wake"} => told = handled /\ short_wq_count = 0
    BY <1>0, Zenon DEF ShortInv, BatchFresh
  <1>1. CASE TopHalf
    <2>1. ~again' /\ short_bh' /\ bhpc = "idle"
      BY <1>0, <1>1, <1>b, Zenon DEF TopHalf
    <2>2. /\ tv_head \in Slots /\ tv_tail \in Slots /\ tv_tail' = tv_tail
          /\ tv_head' = IF tv_head = NR_TIMEVAL - 1 THEN 0 ELSE tv_head + 1
          /\ \A i \in Slots : Unstamped(i)' <=> i = tv_head \/ Unstamped(i)
          /\ bhpc' = bhpc
      BY <1>1, StoreSlot, Zenon
    <2>3. /\ tv_head' # tv_tail => \A i \in Slots : Between(i)' <=> i = tv_head \/ Between(i)
          /\ tv_head' = tv_tail => tv_head # tv_tail
                /\ \A i \in Slots : (i = tv_head \/ Between(i)) /\ ~Between(i)'
      BY <2>2, StoreBetween
    <2>4. /\ \A i \in Slots : Between(i)' => Unstamped(i)'
          /\ tv_head' = tv_tail' => \A i \in Slots : Unstamped(i)'
      BY <1>b, <2>2, <2>3, Zenon
    <2>5. told' + short_wq_count' = handled'
      BY <1>1, <1>b, <1>n, <2>1, StoreSlot
    <2>6. bhpc' = "idle" /\ bhpc' \notin {"clear", "print", "test", "wake"}
      BY <2>1, <2>2
    <2>. QED
      BY <2>1, <2>4, <2>5, <2>6, Zenon
  <1>2. CASE BhPrint
    <2>1. bhpc = "print" /\ bhpc' = "test" /\ short_bh' = short_bh
      BY <1>2, Zenon DEF BhPrint
    <2>2. /\ tv_head \in Slots /\ tv_tail \in Slots /\ tv_head' = tv_head
          /\ tv_tail' = IF tv_tail = NR_TIMEVAL - 1 THEN 0 ELSE tv_tail + 1
          /\ Unstamped(tv_tail) => \A i \in Slots : Unstamped(i)' <=> Unstamped(i) /\ i # tv_tail
          /\ ~again' <=> ~again /\ Unstamped(tv_tail)
          /\ told' = told /\ handled' = handled /\ short_wq_count' = short_wq_count
      BY <1>2, PrintSlot, Zenon
    <2>3. /\ tv_head # tv_tail => Between(tv_tail) /\ \A i \in Slots : Between(i)' <=> Between(i) /\ i # tv_tail
          /\ tv_head = tv_tail => tv_tail' # tv_head /\ \A i \in Slots : Between(i)' <=> i # tv_tail
      BY <2>2, PrintBetween
    <2>4. ~short_bh /\ told = handled /\ short_wq_count = 0
          /\ (tv_head = tv_tail => \A i \in Slots : Unstamped(i))
      BY <1>b, <2>1
    <2>5. Unstamped(tv_tail)
      BY <1>b, <2>2, <2>3, <2>4, Zenon
    <2>6. \A i \in Slots : Between(i)' => Unstamped(i)'
      BY <1>b, <2>2, <2>3, <2>4, <2>5, Zenon
    <2>7. bhpc' # "idle" /\ bhpc' \notin {"clear", "print", "wake"} /\ bhpc' # "clear" /\ bhpc' # "wake"
      BY <2>1
    <2>8. bhpc' \notin {"clear", "print"}
      BY <2>7
    <2>9. ~again' /\ ~short_bh' /\ told' = handled' /\ short_wq_count' = 0
      BY <1>b, <2>1, <2>2, <2>4, <2>5, Zenon
    <2>. QED
      BY <2>6, <2>7, <2>8, <2>9, Zenon
  <1>3. CASE BhSave \/ BhClear \/ BhTest \/ BhWake \/ ShortRead \/ UNCHANGED shortVars
    <2>1. ShortQuiet
      BY <1>3, QuietSteps
    <2>2. /\ \A i \in Slots : (Unstamped(i)' <=> Unstamped(i)) /\ (Between(i)' <=> Between(i))
          /\ tv_head' = tv_head /\ tv_tail' = tv_tail /\ ~again' /\ handled' = handled
      BY <1>b, <2>1, Zenon DEF ShortQuiet, Unstamped, Between
    <2>3. CASE BhSave
      <3>1. /\ bhpc = "idle" /\ short_bh /\ ~short_bh' /\ bhpc' = "clear"
            /\ savecount' = short_wq_count /\ told' = told
        BY <2>3, Zenon DEF BhSave
      <3>2. /\ bhpc' # "idle" /\ bhpc' # "wake" /\ bhpc' \notin {"print", "test", "wake"}
            /\ told' + savecount' = handled'
        BY <1>b, <2>2, <3>1
      <3>. QED
        BY <1>b, <2>2, <3>1, <3>2, Zenon
    <2>4. CASE BhClear
      <3>1. /\ bhpc = "clear" /\ short_bh' = short_bh /\ bhpc' = "print"
            /\ short_wq_count' = 0 /\ told' = told + savecount
        BY <2>4, Zenon DEF BhClear
      <3>2. /\ bhpc' # "idle" /\ bhpc' # "wake" /\ bhpc' # "clear" /\ bhpc # "idle"
            /\ told' = handled' /\ bhpc \in {"clear", "print"}
        BY <1>b, <2>2, <3>1
      <3>. QED
        BY <1>b, <2>2, <3>1, <3>2, Zenon
    <2>5. CASE BhTest
      <3>1. /\ bhpc = "test" /\ bhpc' = (IF tv_tail # tv_head THEN "print" ELSE "wake")
            /\ short_bh' = short_bh /\ short_wq_count' = short_wq_count /\ told' = told
        BY <2>5, Zenon DEF BhTest
      <3>2. /\ bhpc # "idle" /\ bhpc' # "idle" /\ bhpc' # "clear"
            /\ bhpc' = "wake" => tv_head = tv_tail
            /\ bhpc' \in {"clear", "print"} => tv_head # tv_tail
            /\ bhpc \in {"print", "test", "wake"}
        BY <3>1
      <3>. QED
        BY <1>b, <2>2, <3>1, <3>2, Zenon
    <2>6. CASE BhWake
      <3>1. /\ bhpc = "wake" /\ bhpc' = "idle"
            /\ short_bh' = short_bh /\ short_wq_count' = short_wq_count /\ told' = told
        BY <2>6, Zenon DEF BhWake
      <3>2. /\ bhpc # "idle" /\ bhpc' # "clear" /\ bhpc' \notin {"clear", "print"}
            /\ bhpc' \notin {"print", "test", "wake"} /\ bhpc \in {"print", "test", "wake"}
        BY <3>1
      <3>3. told' + short_wq_count' = handled'
        BY <1>b, <1>n, <2>2, <3>1, <3>2
      <3>. QED
        BY <1>b, <2>2, <3>1, <3>2, <3>3, Zenon
    <2>7. CASE ShortRead \/ UNCHANGED shortVars
      <3>1. UNCHANGED <<bhpc, short_bh, short_wq_count, savecount, told>>
        BY <2>7 DEF ShortRead, shortVars
      <3>2. UNCHANGED <<bhpc, short_bh, short_wq_count, savecount, told, handled>>
        BY <2>2, <3>1
      <3>. QED
        BY <1>b, <2>2, <3>2, Zenon
    <2>. QED
      BY <1>3, <2>3, <2>4, <2>5, <2>6, <2>7
  <1>4. ~Interrupt16
    BY <1>0 DEF Interrupt16
  <1>. QED
    BY <1>1, <1>2, <1>3, <1>4 DEF ShortNext

\* The invariant is inductive.
LEMMA ShortNextInv == ShortInv /\ [ShortNext]_shortVars => ShortInv'
  BY ShortTextStep, StampsStep, DirectStep, PendingStep, BatchStep DEF ShortInv

-----------------------------------------------------------------------------
(* shortprint                                                              *)

Places == 0..PageSize - 1
\* How far a place of the ring lies behind the tail.
Behind(i) == IF i >= shortp_out_tail THEN i - shortp_out_tail ELSE i - shortp_out_tail + PageSize

ShortpTypes ==
    /\ spcf \in ShortpConfigs
    /\ shortp_out_head \in Places /\ shortp_out_tail \in Places
    /\ shortp_out_buffer \in [Places -> Nat]
    /\ accepted \in Nat /\ accepted <= spcf.maxBytes /\ printed \in Nat /\ printed <= accepted
    /\ shortp_output_active \in BOOLEAN /\ shortp_timer \in BOOLEAN /\ shortp_work \in BOOLEAN
    /\ irq \in BOOLEAN /\ bug \in BOOLEAN
    /\ shortp_in_head \in 0..Records - 1 /\ shortp_in_tail \in 0..Records - 1
    /\ mutex \in ShortpProcs \cup {"none"}
    /\ wpc \in [ShortpProcs -> {"closed", "killed", "open", "space", "copy", "sleep", "start"}]
    /\ left \in [ShortpProcs -> Nat] /\ space \in [ShortpProcs -> Int] /\ mine \in [ShortpProcs -> Nat]
    /\ rpc \in {"user", "sleep", "copy"} /\ kpc \in {"idle", "wait", "record"}
    /\ tpc \in {"idle", "lock", "intr"} /\ module \in {"loaded", "flush", "gone"}
    /\ line \in {"ready", "busy", "ack"}

\* A writer inside shortp_write has the mutex, will not exceed what may be written, and
\* the space it found is still free when it copies: the worker can only have freed more.
WriterHolds ==
    \A p \in ShortpProcs :
       /\ wpc[p] \in {"space", "copy", "sleep", "start"} => mutex = p /\ accepted + left[p] <= spcf.maxBytes
       /\ wpc[p] = "copy" => 1 <= space[p] /\ space[p] <= left[p] /\ space[p] <= shortp_out_space

\* The places behind the tail, up to the head, hold the bytes that come next.
RingExact ==
    /\ Behind(shortp_out_head) = accepted - printed
    /\ \A i \in Places : Behind(i) < accepted - printed => shortp_out_buffer[i] = printed + 1 + Behind(i)

\* When no output is active, only a writer that is about to start it has bytes in the ring.
WrittenDrained ==
    /\ \A p \in ShortpProcs : mine[p] <= accepted
    /\ ~shortp_output_active => \A p \in ShortpProcs : mine[p] <= printed \/ wpc[p] = "start"
    /\ ReleaseDrained

\* In a calm machine the next step of the output is one thing: the printer at work, its
\* interrupt, the timer's handler that stands in for it, the work item that is queued, or
\* runs.  There is none, and no timer, without output.
OneStepAhead ==
    spcf.calm =>
      /\ tpc # "lock" /\ ~bug
      /\ ~shortp_output_active =>
           ~shortp_timer /\ ~irq /\ ~shortp_work /\ kpc # "wait" /\ line # "busy" /\ tpc = "idle"
      /\ line = "busy" => ~irq /\ ~shortp_work /\ kpc # "wait" /\ tpc = "idle"
      /\ irq => ~shortp_work /\ kpc # "wait" /\ tpc = "idle"
      /\ shortp_work => kpc # "wait" /\ tpc = "idle"
      /\ kpc = "wait" => tpc = "idle"

\* Where no signal cuts a close short, output is active only for an open file, and the
\* module is removed when there is none.
OpenForOutput ==
    ~spcf.signals =>
      /\ shortp_output_active => \E p \in ShortpProcs : wpc[p] # "closed"
      /\ \A p \in ShortpProcs : wpc[p] # "killed"
      /\ module # "loaded" => \A p \in ShortpProcs : wpc[p] = "closed"

TimerRuns ==
    shortp_output_active /\ module = "loaded" /\ ~bug =>
        shortp_timer \/ tpc # "idle" \/ shortp_work \/ kpc = "wait"

ShortpInv ==
    /\ ShortpTypes /\ WriterHolds /\ RingExact /\ WrittenDrained
    /\ OneStepAhead /\ OpenForOutput /\ TimerRuns /\ ReaderWoken

\* The empty ring and the idle printer satisfy the invariant.
LEMMA ShortpInitInv == ShortpInit => ShortpInv
  <1>. SUFFICES ASSUME ShortpInit PROVE ShortpInv
    OBVIOUS
  <1>. USE ShortpAssumption DEF ShortpInit, Places
  <1>1. ShortpTypes
    <2>1. /\ shortp_output_active \in BOOLEAN /\ shortp_timer \in BOOLEAN /\ shortp_work \in BOOLEAN
          /\ irq \in BOOLEAN /\ bug \in BOOLEAN
      BY Zenon
    <2>2. accepted <= spcf.maxBytes
      BY DEF ShortpInit
    <2>. QED
      BY <2>1, <2>2 DEF ShortpTypes
  <1>2. WriterHolds /\ RingExact
    BY DEF WriterHolds, RingExact, Behind
  <1>3. WrittenDrained
    BY DEF WrittenDrained, ReleaseDrained
  <1>4. OneStepAhead /\ OpenForOutput /\ TimerRuns /\ ReaderWoken
    BY DEF OneStepAhead, OpenForOutput, TimerRuns, ReaderWoken
  <1>. QED
    BY <1>1, <1>2, <1>3, <1>4 DEF ShortpInv

\* The remainder of a number below twice the divisor.
LEMMA ModOnce ==
    ASSUME NEW n \in Nat \ {0}, NEW x \in 0..2 * n - 1
    PROVE  x % n = IF x < n THEN x ELSE x - n
  OBVIOUS

\* The invariant in terms of distances from the tail is the one in terms of remainders.
LEMMA ShortpInvSafe ==
    ShortpInv => ShortpTypeOK /\ RingContents /\ ReleaseDrained /\ TimerDiscipline /\ ReaderWoken
  <1>. SUFFICES ASSUME ShortpInv PROVE ShortpTypeOK /\ RingContents /\ TimerDiscipline
    BY DEF ShortpInv, WrittenDrained
  <1>. USE ShortpAssumption
  <1>1. ShortpTypeOK
    <2>1. {shortp_output_active, shortp_timer, shortp_work, irq, bug} \subseteq BOOLEAN
      BY Zenon DEF ShortpInv, ShortpTypes
    <2>. QED
      BY <2>1 DEF ShortpTypeOK, ShortpInv, ShortpTypes, Places
  <1>2. RingContents
    <2>1. /\ shortp_out_head \in Places /\ shortp_out_tail \in Places /\ accepted \in Nat /\ printed \in Nat
          /\ Behind(shortp_out_head) = accepted - printed
      BY DEF ShortpInv, ShortpTypes, RingExact
    <2>2. (shortp_out_head - shortp_out_tail) % PageSize = accepted - printed
      BY <2>1 DEF Behind, Places
    <2>3. ASSUME NEW i \in 1..accepted - printed
          PROVE  shortp_out_buffer[(shortp_out_tail + i - 1) % PageSize] = printed + i
      <3>1. accepted - printed <= PageSize - 1
        BY <2>1 DEF Behind, Places
      <3>. DEFINE x == shortp_out_tail + i - 1
      <3>2. x \in 0..2 * PageSize - 1 /\ PageSize \in Nat \ {0}
        BY <2>1, <3>1 DEF Places
      <3>3. x % PageSize = IF x < PageSize THEN x ELSE x - PageSize
        BY <3>2, ModOnce
      <3>4. x % PageSize \in Places /\ Behind(x % PageSize) = i - 1
        BY <2>1, <3>1, <3>2, <3>3 DEF Places, Behind
      <3>5. shortp_out_buffer[x % PageSize] = printed + 1 + Behind(x % PageSize)
        BY <2>1, <3>4 DEF ShortpInv, RingExact
      <3>. QED
        BY <2>1, <3>4, <3>5
    <2>. QED
      BY <2>2, <2>3 DEF RingContents
  <1>3. TimerDiscipline
    <2>1. ASSUME spcf.calm, module = "gone", ~spcf.signals
          PROVE  ~shortp_timer /\ tpc = "idle"
      <3>1. \A p \in ShortpProcs : wpc[p] = "closed"
        BY <2>1 DEF ShortpInv, OpenForOutput
      <3>2. ~shortp_output_active
        BY <2>1, <3>1, Zenon DEF ShortpInv, OpenForOutput
      <3>. QED
        BY <2>1, <3>2, Zenon DEF ShortpInv, OneStepAhead
    <2>. QED
      BY <2>1, Zenon DEF ShortpInv, TimerDiscipline, TimerRuns, OneStepAhead
  <1>. QED
    BY <1>1, <1>2, <1>3

-----------------------------------------------------------------------------
\* A copy of k bytes at the head.
LEMMA CopyMoves ==
    ASSUME ShortpInv, NEW p \in ShortpProcs, ShortpCopy(p)
    PROVE  /\ space[p] \in Nat \ {0} /\ space[p] <= left[p] /\ mutex = p /\ wpc[p] = "copy"
           /\ accepted + left[p] <= spcf.maxBytes
           /\ shortp_out_head + space[p] <= PageSize
           /\ shortp_out_head' = (IF shortp_out_head + space[p] = PageSize THEN 0 ELSE shortp_out_head + space[p])
           /\ accepted' = accepted + space[p]
           /\ \A i \in Places : shortp_out_buffer'[i] =
                 IF shortp_out_head <= i /\ i < shortp_out_head + space[p]
                 THEN accepted + 1 + i - shortp_out_head ELSE shortp_out_buffer[i]
           /\ shortp_out_buffer' \in [Places -> Nat]
           /\ mine' = [mine EXCEPT ![p] = accepted'] /\ left' = [left EXCEPT ![p] = @ - space[p]]
           /\ wpc' = [wpc EXCEPT ![p] = "start"]
           /\ UNCHANGED <<shortp_out_tail, printed, shortp_output_active, shortp_timer, shortp_work, mutex, space,
                          shortp_in_head, shortp_in_tail, rpc, kpc, tpc, module, line, irq, bug, spcf>>
  <1>. USE ShortpAssumption
  <1>1. /\ wpc[p] = "copy" /\ accepted' = accepted + space[p]
        /\ shortp_out_buffer' =
             [i \in Places |->
                IF i \in shortp_out_head..shortp_out_head + space[p] - 1
                THEN accepted + 1 + i - shortp_out_head ELSE shortp_out_buffer[i]]
        /\ shortp_out_head' = (shortp_out_head + space[p]) % PageSize
        /\ mine' = [mine EXCEPT ![p] = accepted'] /\ left' = [left EXCEPT ![p] = @ - space[p]]
        /\ wpc' = [wpc EXCEPT ![p] = "start"]
        /\ UNCHANGED <<shortp_out_tail, printed, shortp_output_active, shortp_timer, shortp_work, mutex, space,
                       shortp_in_head, shortp_in_tail, rpc, kpc, tpc, module, line, irq, bug, spcf>>
    BY Zenon DEF ShortpCopy, WGoto, reader, printer, Places
  <1>2. /\ shortp_out_head \in Places /\ shortp_out_tail \in Places /\ space[p] \in Int /\ left[p] \in Nat
        /\ accepted \in Nat /\ shortp_out_buffer \in [Places -> Nat]
    BY DEF ShortpInv, ShortpTypes
  <1>3. 1 <= space[p] /\ space[p] <= left[p] /\ space[p] <= shortp_out_space
    BY <1>1 DEF ShortpInv, WriterHolds
  <1>4. mutex = p /\ accepted + left[p] <= spcf.maxBytes
    BY <1>1 DEF ShortpInv, WriterHolds
  <1>5. shortp_out_head + space[p] <= PageSize
    BY <1>2, <1>3 DEF shortp_out_space, Places
  <1>6. shortp_out_head' = IF shortp_out_head + space[p] = PageSize THEN 0 ELSE shortp_out_head + space[p]
    <2>. DEFINE x == shortp_out_head + space[p]
    <2>1. x \in 0..2 * PageSize - 1 /\ PageSize \in Nat \ {0} /\ x <= PageSize
      BY <1>2, <1>3, <1>5 DEF Places
    <2>2. shortp_out_head' = x % PageSize
      BY <1>1
    <2>. HIDE DEF x
    <2>3. x % PageSize = IF x < PageSize THEN x ELSE x - PageSize
      BY <2>1, ModOnce
    <2>4. shortp_out_head' = IF x = PageSize THEN 0 ELSE x
      BY <2>1, <2>2, <2>3
    <2>. QED
      BY <2>4 DEF x
  <1>7. \A i \in Places : shortp_out_buffer'[i] =
                 IF shortp_out_head <= i /\ i < shortp_out_head + space[p]
                 THEN accepted + 1 + i - shortp_out_head ELSE shortp_out_buffer[i]
    <2>. SUFFICES ASSUME NEW i \in Places
                  PROVE  shortp_out_buffer'[i] =
                           IF shortp_out_head <= i /\ i < shortp_out_head + space[p]
                           THEN accepted + 1 + i - shortp_out_head ELSE shortp_out_buffer[i]
      OBVIOUS
    <2>1. shortp_out_buffer'[i] = IF i \in shortp_out_head..shortp_out_head + space[p] - 1
                                  THEN accepted + 1 + i - shortp_out_head ELSE shortp_out_buffer[i]
      BY <1>1, Zenon
    <2>2. i \in shortp_out_head..shortp_out_head + space[p] - 1
             <=> shortp_out_head <= i /\ i < shortp_out_head + space[p]
      BY <1>2 DEF Places
    <2>. QED
      BY <2>1, <2>2, Zenon
  <1>8. shortp_out_buffer' \in [Places -> Nat]
    <2>1. \A i \in Places : shortp_out_buffer'[i] \in Nat
      <3>. SUFFICES ASSUME NEW i \in Places PROVE shortp_out_buffer'[i] \in Nat
        OBVIOUS
      <3>1. i \in Nat /\ shortp_out_head \in Nat /\ accepted \in Nat /\ shortp_out_buffer[i] \in Nat
        BY <1>2 DEF Places
      <3>2. shortp_out_head <= i => accepted + 1 + i - shortp_out_head \in Nat
        BY <3>1
      <3>. QED
        BY <1>7, <3>1, <3>2, Zenon
    <2>2. shortp_out_buffer' = [i \in Places |-> shortp_out_buffer'[i]]
      BY <1>1, Zenon
    <2>. QED
      BY <2>1, <2>2, Zenon
  <1>9. space[p] \in Nat \ {0}
    BY <1>2, <1>3
  <1>. QED
    BY <1>1, <1>3, <1>4, <1>5, <1>6, <1>7, <1>8, <1>9, Zenon

\* One turn of the work item: the output ends, or the byte at the tail is printed.
LEMMA WorkMoves ==
    ASSUME ShortpInv, ShortpDoWork
    PROVE  /\ kpc = "wait" /\ line # "busy" /\ kpc' = "record"
           /\ \/ /\ shortp_out_head = shortp_out_tail /\ accepted = printed /\ ~shortp_output_active' /\ ~shortp_timer'
                 /\ UNCHANGED <<shortp_out_tail, printed, line>>
              \/ /\ shortp_out_head # shortp_out_tail /\ printed < accepted
                 /\ shortp_output_active' = shortp_output_active /\ shortp_timer'
                 /\ shortp_out_tail' = (IF shortp_out_tail + 1 = PageSize THEN 0 ELSE shortp_out_tail + 1)
                 /\ printed' = printed + 1 /\ line' = "busy"
           /\ \A p \in ShortpProcs : wpc'[p] = wpc[p] \/ (wpc[p] = "sleep" /\ wpc'[p] = "space")
           /\ wpc' \in [ShortpProcs -> {"closed", "killed", "open", "space", "copy", "sleep", "start"}]
           /\ UNCHANGED <<shortp_out_head, shortp_out_buffer, accepted, shortp_work, mutex, left, space, mine,
                          shortp_in_head, shortp_in_tail, rpc, tpc, module, irq, bug, spcf>>
  <1>. USE ShortpAssumption
  <1>0. /\ shortp_out_head \in Places /\ shortp_out_tail \in Places /\ accepted \in Nat /\ printed \in Nat
        /\ printed <= accepted /\ shortp_output_active \in BOOLEAN
        /\ wpc \in [ShortpProcs -> {"closed", "killed", "open", "space", "copy", "sleep", "start"}]
        /\ Behind(shortp_out_head) = accepted - printed
        /\ \A i \in Places : Behind(i) < accepted - printed => shortp_out_buffer[i] = printed + 1 + Behind(i)
    BY DEF ShortpInv, ShortpTypes, RingExact
  <1>1. /\ kpc = "wait" /\ line # "busy" /\ kpc' = "record"
        /\ UNCHANGED <<shortp_out_head, shortp_out_buffer, accepted, shortp_work, mutex, left, space, mine,
                       shortp_in_head, shortp_in_tail, rpc, tpc, module, irq, bug, spcf>>
    BY Zenon DEF ShortpDoWork, reader
  <1>2. PICK w : wpc' = [p \in ShortpProcs |-> IF w /\ wpc[p] = "sleep" THEN "space" ELSE wpc[p]]
    BY Zenon DEF ShortpDoWork
  <1>3. /\ \A p \in ShortpProcs : wpc'[p] = wpc[p] \/ (wpc[p] = "sleep" /\ wpc'[p] = "space")
        /\ wpc' \in [ShortpProcs -> {"closed", "killed", "open", "space", "copy", "sleep", "start"}]
    BY <1>0, <1>2
  <1>4. CASE shortp_out_head = shortp_out_tail
    <2>1. ~shortp_output_active' /\ ~shortp_timer' /\ UNCHANGED <<shortp_out_tail, printed, line>>
      BY <1>4, Zenon DEF ShortpDoWork
    <2>2. accepted = printed
      BY <1>0, <1>4 DEF Behind, Places
    <2>. QED
      BY <1>1, <1>3, <1>4, <2>1, <2>2, Zenon
  <1>5. CASE shortp_out_head # shortp_out_tail
    <2>1. /\ shortp_output_active' = shortp_output_active /\ shortp_timer'
      BY <1>0, <1>5, Zenon DEF ShortpDoWork
    <2>2. /\ shortp_out_tail' = (shortp_out_tail + 1) % PageSize
          /\ printed' = shortp_out_buffer[shortp_out_tail] /\ line' = "busy"
      BY <1>5, Zenon DEF ShortpDoWork
    <2>3. shortp_out_tail' = IF shortp_out_tail + 1 = PageSize THEN 0 ELSE shortp_out_tail + 1
      <3>. DEFINE x == shortp_out_tail + 1
      <3>1. x \in 0..2 * PageSize - 1 /\ PageSize \in Nat \ {0} /\ x <= PageSize
        BY <1>0 DEF Places
      <3>2. shortp_out_tail' = x % PageSize
        BY <2>2
      <3>. HIDE DEF x
      <3>3. x % PageSize = IF x < PageSize THEN x ELSE x - PageSize
        BY <3>1, ModOnce
      <3>4. shortp_out_tail' = IF x = PageSize THEN 0 ELSE x
        BY <3>1, <3>2, <3>3
      <3>. QED
        BY <3>4 DEF x
    <2>4. printed < accepted /\ Behind(shortp_out_tail) = 0
      BY <1>0, <1>5 DEF Behind, Places
    <2>5. printed' = printed + 1
      BY <1>0, <2>2, <2>4
    <2>. QED
      BY <1>1, <1>3, <1>5, <2>1, <2>2, <2>3, <2>4, <2>5, Zenon
  <1>. QED
    BY <1>4, <1>5

\* The ring keeps its bytes in order.
LEMMA RingCopy ==
    ASSUME ShortpInv, NEW p \in ShortpProcs, ShortpCopy(p)
    PROVE  RingExact' /\ shortp_out_head' \in Places /\ printed' <= accepted'
  <1>. USE ShortpAssumption
  <1>0. /\ shortp_out_head \in Places /\ shortp_out_tail \in Places /\ accepted \in Nat /\ printed \in Nat
        /\ printed <= accepted /\ Behind(shortp_out_head) = accepted - printed
        /\ \A i \in Places : Behind(i) < accepted - printed => shortp_out_buffer[i] = printed + 1 + Behind(i)
    BY DEF ShortpInv, ShortpTypes, RingExact
  <1>1. space[p] <= shortp_out_space /\ space[p] \in Nat \ {0}
    BY CopyMoves DEF ShortpInv, WriterHolds
  <1>2. /\ shortp_out_head + space[p] <= PageSize /\ accepted' = accepted + space[p] /\ printed' = printed
        /\ shortp_out_head' = (IF shortp_out_head + space[p] = PageSize THEN 0 ELSE shortp_out_head + space[p])
        /\ shortp_out_tail' = shortp_out_tail
    BY CopyMoves
  <1>3. \A i \in Places : shortp_out_buffer'[i] =
                 IF shortp_out_head <= i /\ i < shortp_out_head + space[p]
                 THEN accepted + 1 + i - shortp_out_head ELSE shortp_out_buffer[i]
    BY CopyMoves
  <1>4. shortp_out_head' \in Places /\ printed' <= accepted'
    BY <1>0, <1>1, <1>2 DEF Places
  <1>5. Behind(shortp_out_head)' = accepted' - printed'
    BY <1>0, <1>1, <1>2, <1>4 DEF Places, Behind, shortp_out_space
  <1>6. ASSUME NEW i \in Places, Behind(i)' < accepted' - printed'
        PROVE  shortp_out_buffer'[i] = printed' + 1 + Behind(i)'
    <2>1. Behind(i)' = Behind(i)
      BY <1>2 DEF Behind
    <2>2. Behind(i) \in Nat
      BY <1>0 DEF Behind, Places
    <2>3. CASE Behind(i) < accepted - printed
      <3>1. ~(shortp_out_head <= i /\ i < shortp_out_head + space[p])
        BY <1>0, <1>1, <2>3 DEF Behind, Places, shortp_out_space
      <3>. QED
        BY <1>0, <1>2, <1>3, <2>1, <2>3, <3>1
    <2>4. CASE ~(Behind(i) < accepted - printed)
      <3>1. shortp_out_head <= i /\ i < shortp_out_head + space[p] /\ Behind(i) = accepted - printed + i - shortp_out_head
        BY <1>0, <1>1, <1>2, <1>6, <2>1, <2>4 DEF Behind, Places, shortp_out_space
      <3>2. shortp_out_buffer'[i] = accepted + 1 + i - shortp_out_head
        BY <1>3, <3>1
      <3>. QED
        BY <1>0, <1>2, <2>1, <3>1, <3>2 DEF Places
    <2>. QED
      BY <2>3, <2>4
  <1>. QED
    BY <1>4, <1>5, <1>6, Zenon DEF RingExact, Places

\* The work item takes the byte at the tail, and the ring stays exact.
LEMMA RingWork ==
    ASSUME ShortpInv, ShortpDoWork
    PROVE  /\ RingExact' /\ shortp_out_tail' \in Places /\ printed' \in Nat /\ printed <= printed'
           /\ printed' <= accepted' /\ shortp_out_space <= shortp_out_space'
  <1>. USE ShortpAssumption
  <1>0. /\ shortp_out_head \in Places /\ shortp_out_tail \in Places /\ accepted \in Nat /\ printed \in Nat
        /\ printed <= accepted /\ Behind(shortp_out_head) = accepted - printed
        /\ \A i \in Places : Behind(i) < accepted - printed => shortp_out_buffer[i] = printed + 1 + Behind(i)
    BY DEF ShortpInv, ShortpTypes, RingExact
  <1>1. UNCHANGED <<shortp_out_head, shortp_out_buffer, accepted>>
    BY WorkMoves
  <1>2. CASE UNCHANGED <<shortp_out_tail, printed>>
    <2>1. RingExact'
      BY <1>0, <1>1, <1>2 DEF RingExact, Behind
    <2>2. shortp_out_space' = shortp_out_space /\ shortp_out_space \in Int
      BY <1>0, <1>1, <1>2 DEF shortp_out_space, Places
    <2>. QED
      BY <1>0, <1>1, <1>2, <2>1, <2>2
  <1>3. CASE /\ shortp_out_head # shortp_out_tail /\ printed < accepted
             /\ shortp_out_tail' = (IF shortp_out_tail + 1 = PageSize THEN 0 ELSE shortp_out_tail + 1)
             /\ printed' = printed + 1
    <2>1. Behind(shortp_out_head)' = accepted' - printed'
      BY <1>0, <1>1, <1>3 DEF Behind, Places
    <2>2. ASSUME NEW i \in Places, Behind(i)' < accepted' - printed'
          PROVE  shortp_out_buffer'[i] = printed' + 1 + Behind(i)'
      <3>1. Behind(i) < accepted - printed /\ Behind(i)' = Behind(i) - 1 /\ Behind(i) \in Nat
        BY <1>0, <1>1, <1>3, <2>2 DEF Behind, Places
      <3>2. shortp_out_buffer'[i] = printed + 1 + Behind(i)
        BY <1>0, <1>1, <3>1
      <3>. QED
        BY <1>0, <1>3, <3>1, <3>2
    <2>3. shortp_out_tail' \in Places /\ printed' \in Nat /\ printed <= printed' /\ printed' <= accepted'
      BY <1>0, <1>1, <1>3 DEF Places
    <2>4. shortp_out_space <= shortp_out_space'
      BY <1>0, <1>1, <1>3 DEF shortp_out_space, Places
    <2>. QED
      BY <2>1, <2>2, <2>3, <2>4, Zenon DEF RingExact, Places
  <1>. QED
    BY <1>2, <1>3, WorkMoves, Zenon

-----------------------------------------------------------------------------
\* The steps of the files that move no byte, and of everybody else.
FileStep(p) == ShortpOpen(p) \/ ShortpWrite(p) \/ ShortpSpace(p) \/ ShortpGiveUp(p) \/ ShortpStart(p) \/ ShortpRelease(p)
OtherStep == ShortpWorkRun \/ ShortpRecord \/ ShortpInterrupt \/ ShortpTimeout \/ ShortpTimeoutLock
               \/ ShortpTimeoutInterrupt \/ PrinterDone \/ ShortpRead \/ ShortpCleanup \/ UNCHANGED shortpVars

\* The steps by what they do to the ring: fill it, drain it or leave it alone.
LEMMA ShortpSteps ==
    ASSUME [ShortpNext]_shortpVars
    PROVE  (\E p \in ShortpProcs : ShortpCopy(p) \/ FileStep(p)) \/ ShortpDoWork \/ OtherStep
  BY Zenon DEF ShortpNext, ShortpWriter, ShortpDriver, ShortpTimer, FileStep, OtherStep

\* What the steps of the files leave alone,
LEMMA FileQuiet ==
    ASSUME NEW p \in ShortpProcs, FileStep(p)
    PROVE  /\ UNCHANGED <<shortp_out_head, shortp_out_tail, shortp_out_buffer, accepted, printed, mine,
                          shortp_in_head, shortp_in_tail, rpc, kpc, tpc, module, line, irq, spcf>>
           /\ ~ShortpStart(p) => UNCHANGED <<shortp_output_active, shortp_timer, shortp_work, bug>>
  <1>1. CASE ShortpOpen(p)
    BY <1>1, Zenon DEF ShortpOpen, ring, reader, printer
  <1>2. CASE ShortpWrite(p)
    BY <1>2, Zenon DEF ShortpWrite, ring, reader, printer
  <1>3. CASE ShortpSpace(p)
    BY <1>3, Zenon DEF ShortpSpace, ring, reader, printer
  <1>4. CASE ShortpGiveUp(p)
    BY <1>4, Zenon DEF ShortpGiveUp, ring, reader, printer
  <1>5. CASE ShortpStart(p)
    BY <1>5, Zenon DEF ShortpStart, ring, reader, printer
  <1>6. CASE ShortpRelease(p)
    BY <1>6, Zenon DEF ShortpRelease, ring, reader, printer
  <1>. QED
    BY <1>1, <1>2, <1>3, <1>4, <1>5, <1>6 DEF FileStep

\* and what the others do.
LEMMA OtherQuiet ==
    ASSUME OtherStep
    PROVE  UNCHANGED <<shortp_out_head, shortp_out_tail, shortp_out_buffer, accepted, printed, mine,
                       shortp_output_active, mutex, wpc, left, space, spcf>>
  <1>1. CASE ShortpWorkRun
    BY <1>1, Zenon DEF ShortpWorkRun, ring, writers
  <1>2. CASE ShortpRecord
    BY <1>2, Zenon DEF ShortpRecord, ring, writers
  <1>3. CASE ShortpInterrupt
    BY <1>3, Zenon DEF ShortpInterrupt, ring, writers
  <1>4. CASE ShortpTimeout
    BY <1>4, Zenon DEF ShortpTimeout, ring, writers
  <1>5. CASE ShortpTimeoutLock
    BY <1>5, Zenon DEF ShortpTimeoutLock, ring, writers
  <1>5a. CASE ShortpTimeoutInterrupt
    BY <1>5a, Zenon DEF ShortpTimeoutInterrupt, ring, writers
  <1>6. CASE PrinterDone
    BY <1>6, Zenon DEF PrinterDone, ring, writers
  <1>7. CASE ShortpRead
    BY <1>7, Zenon DEF ShortpRead, ring, writers
  <1>8. CASE ShortpCleanup
    BY <1>8, Zenon DEF ShortpCleanup, ring, writers
  <1>9. CASE UNCHANGED shortpVars
    BY <1>9, Zenon DEF shortpVars, ring, writers
  <1>. QED
    BY <1>1, <1>2, <1>3, <1>4, <1>5, <1>5a, <1>6, <1>7, <1>8, <1>9 DEF OtherStep

\* The ring is exact after every step.
LEMMA RingStep ==
    ASSUME ShortpInv, [ShortpNext]_shortpVars
    PROVE  RingExact'
  <1>1. ASSUME UNCHANGED <<shortp_out_head, shortp_out_tail, shortp_out_buffer, accepted, printed>>
        PROVE  RingExact'
    BY <1>1, Zenon DEF ShortpInv, RingExact, Behind, Places
  <1>. QED
    BY <1>1, ShortpSteps, FileQuiet, OtherQuiet, RingCopy, RingWork, Zenon

\* The labels and numbers of a writer, step by step.
LEMMA WriterMoves ==
    ASSUME ShortpInv, NEW p \in ShortpProcs, FileStep(p)
    PROVE  /\ wpc' \in [ShortpProcs -> {"closed", "killed", "open", "space", "copy", "sleep", "start"}]
           /\ left' \in [ShortpProcs -> Nat] /\ space' \in [ShortpProcs -> Int]
           /\ mutex' \in ShortpProcs \cup {"none"}
           /\ WriterHolds'
  <1>. USE ShortpAssumption
  <1>t. /\ wpc \in [ShortpProcs -> {"closed", "killed", "open", "space", "copy", "sleep", "start"}]
        /\ left \in [ShortpProcs -> Nat] /\ space \in [ShortpProcs -> Int] /\ mutex \in ShortpProcs \cup {"none"}
        /\ accepted \in Nat /\ spcf \in ShortpConfigs
        /\ shortp_out_head \in Places /\ shortp_out_tail \in Places
    BY DEF ShortpInv, ShortpTypes
  <1>m. spcf.maxBytes \in Nat
    BY <1>t
  <1>s. shortp_out_space \in Int
    BY <1>t DEF shortp_out_space, Places
  <1>q. shortp_out_space' = shortp_out_space /\ accepted' = accepted /\ spcf' = spcf
    <2>1. UNCHANGED <<shortp_out_head, shortp_out_tail, accepted, spcf>>
      BY FileQuiet
    <2>. QED
      BY <2>1 DEF shortp_out_space
  <1>w. \A q \in ShortpProcs :
          /\ wpc[q] \in {"space", "copy", "sleep", "start"} => mutex = q /\ accepted + left[q] <= spcf.maxBytes
          /\ wpc[q] = "copy" => 1 <= space[q] /\ space[q] <= left[q] /\ space[q] <= shortp_out_space
    BY DEF ShortpInv, WriterHolds
  <1>1. CASE ShortpOpen(p) \/ ShortpRelease(p)
    <2>1. /\ wpc' = [wpc EXCEPT ![p] = "open"] \/ wpc' = [wpc EXCEPT ![p] = "closed"] \/ wpc' = [wpc EXCEPT ![p] = "killed"]
          /\ UNCHANGED <<mutex, left, space>>
      BY <1>1, Zenon DEF ShortpOpen, ShortpRelease, WGoto
    <2>. QED
      BY <1>t, <1>q, <1>w, <2>1 DEF WriterHolds
  <1>2. CASE ShortpWrite(p)
    <2>1. PICK n \in Counts : left' = [left EXCEPT ![p] = SetMin(n, spcf.maxBytes - accepted)]
      BY <1>2 DEF ShortpWrite
    <2>2. mutex = "none" /\ mutex' = p /\ wpc' = [wpc EXCEPT ![p] = "space"] /\ space' = space /\ accepted < spcf.maxBytes
      BY <1>2, Zenon DEF ShortpWrite, WGoto
    <2>3. SetMin(n, spcf.maxBytes - accepted) \in Nat /\ accepted + SetMin(n, spcf.maxBytes - accepted) <= spcf.maxBytes
      BY <1>t, <1>m, <2>2 DEF SetMin
    <2>4. left' \in [ShortpProcs -> Nat] /\ accepted + left'[p] <= spcf.maxBytes
      BY <1>t, <2>1, <2>3
    <2>5. ASSUME NEW q \in ShortpProcs, q # p
          PROVE  wpc'[q] \notin {"space", "copy", "sleep", "start"}
      BY <1>t, <1>w, <2>2, <2>5
    <2>6. wpc'[p] = "space" /\ wpc' \in [ShortpProcs -> {"closed", "killed", "open", "space", "copy", "sleep", "start"}]
      BY <1>t, <2>2
    <2>7. WriterHolds'
      BY <1>q, <2>2, <2>4, <2>5, <2>6 DEF WriterHolds
    <2>. QED
      BY <1>t, <2>2, <2>4, <2>6, <2>7
  <1>3. CASE ShortpSpace(p)
    <2>1. /\ wpc[p] = "space" /\ space' = [space EXCEPT ![p] = SetMin(shortp_out_space, left[p])]
          /\ mutex' = (IF left[p] = 0 THEN "none" ELSE mutex) /\ left' = left
          /\ wpc' = [wpc EXCEPT ![p] = IF left[p] = 0 THEN "open" ELSE IF shortp_out_space > 0 THEN "copy" ELSE "sleep"]
      BY <1>3, Zenon DEF ShortpSpace, WGoto
    <2>2. left[p] \in Nat /\ mutex = p /\ accepted + left[p] <= spcf.maxBytes
      BY <1>t, <1>w, <2>1
    <2>3. SetMin(shortp_out_space, left[p]) \in Int
      BY <1>s, <2>2 DEF SetMin
    <2>4. ASSUME NEW q \in ShortpProcs, q # p
          PROVE  wpc'[q] \notin {"space", "copy", "sleep", "start"}
      BY <1>t, <1>w, <2>1, <2>2, <2>4
    <2>5. /\ wpc'[p] \in {"space", "copy", "sleep", "start"} => mutex' = p
          /\ wpc'[p] = "copy" => shortp_out_space > 0 /\ left[p] # 0 /\ space'[p] = SetMin(shortp_out_space, left[p])
      BY <1>t, <2>1, <2>2
    <2>6. wpc'[p] = "copy" => 1 <= space'[p] /\ space'[p] <= left[p] /\ space'[p] <= shortp_out_space
      BY <1>s, <2>2, <2>5 DEF SetMin
    <2>7. WriterHolds'
      BY <1>q, <2>1, <2>2, <2>4, <2>5, <2>6 DEF WriterHolds
    <2>. QED
      BY <1>t, <2>1, <2>3, <2>7
  <1>4. CASE ShortpGiveUp(p)
    <2>1. /\ wpc[p] \in {"copy", "sleep"} /\ left' = [left EXCEPT ![p] = 0] /\ mutex' = "none"
          /\ wpc' = [wpc EXCEPT ![p] = "open"] /\ space' = space
      BY <1>4 DEF ShortpGiveUp, WGoto
    <2>2. mutex = p
      BY <1>w, <2>1
    <2>3. ASSUME NEW q \in ShortpProcs
          PROVE  wpc'[q] \notin {"space", "copy", "sleep", "start"}
      BY <1>t, <1>w, <2>1, <2>2
    <2>. QED
      BY <1>t, <2>1, <2>3 DEF WriterHolds
  <1>5. CASE ShortpStart(p)
    <2>1. wpc[p] = "start" /\ wpc' = [wpc EXCEPT ![p] = "space"] /\ UNCHANGED <<mutex, left, space>>
      BY <1>5, Zenon DEF ShortpStart, WGoto
    <2>. QED
      BY <1>t, <1>q, <1>w, <2>1 DEF WriterHolds
  <1>. QED
    BY <1>1, <1>2, <1>3, <1>4, <1>5 DEF FileStep

\* A writer that is copying owns the mutex and the space it saw is still there.
LEMMA WriterStep ==
    ASSUME ShortpInv, [ShortpNext]_shortpVars
    PROVE  WriterHolds'
  <1>. USE ShortpAssumption
  <1>w. \A q \in ShortpProcs :
          /\ wpc[q] \in {"space", "copy", "sleep", "start"} => mutex = q /\ accepted + left[q] <= spcf.maxBytes
          /\ wpc[q] = "copy" => 1 <= space[q] /\ space[q] <= left[q] /\ space[q] <= shortp_out_space
    BY DEF ShortpInv, WriterHolds
  <1>t. /\ wpc \in [ShortpProcs -> {"closed", "killed", "open", "space", "copy", "sleep", "start"}]
        /\ left \in [ShortpProcs -> Nat] /\ accepted \in Nat /\ space \in [ShortpProcs -> Int]
        /\ shortp_out_head \in Places /\ shortp_out_tail \in Places
    BY DEF ShortpInv, ShortpTypes
  <1>1. ASSUME NEW p \in ShortpProcs, ShortpCopy(p)
        PROVE  WriterHolds'
    <2>1. /\ wpc' = [wpc EXCEPT ![p] = "start"] /\ left' = [left EXCEPT ![p] = @ - space[p]]
          /\ mutex = p /\ mutex' = mutex /\ accepted' = accepted + space[p] /\ spcf' = spcf
          /\ accepted + left[p] <= spcf.maxBytes /\ space[p] \in Nat
      BY <1>1, CopyMoves, Zenon
    <2>2. ASSUME NEW q \in ShortpProcs, q # p
          PROVE  wpc'[q] \notin {"space", "copy", "sleep", "start"}
      BY <1>t, <1>w, <2>1, <2>2
    <2>3. wpc'[p] = "start" /\ left'[p] = left[p] - space[p] /\ left[p] \in Nat
      BY <1>t, <2>1
    <2>4. accepted' + left'[p] = accepted + left[p]
      BY <1>t, <2>1, <2>3
    <2>. QED
      BY <2>1, <2>2, <2>3, <2>4 DEF WriterHolds
  <1>2. ASSUME ShortpDoWork
        PROVE  WriterHolds'
    <2>1. /\ \A p \in ShortpProcs : wpc'[p] = wpc[p] \/ (wpc[p] = "sleep" /\ wpc'[p] = "space")
          /\ UNCHANGED <<accepted, mutex, left, space, spcf>>
      BY <1>2, WorkMoves, Zenon
    <2>2. shortp_out_space <= shortp_out_space'
      BY <1>2, RingWork
    <2>3. shortp_out_space \in Int /\ shortp_out_space' \in Int
      <3>1. shortp_out_head' \in Places /\ shortp_out_tail' \in Places
        BY <1>2, <1>t, RingWork, WorkMoves
      <3>. QED
        BY <1>t, <3>1 DEF shortp_out_space, Places
    <2>4. ASSUME NEW q \in ShortpProcs, wpc'[q] = "copy"
          PROVE  1 <= space'[q] /\ space'[q] <= left'[q] /\ space'[q] <= shortp_out_space'
      <3>1. wpc[q] = "copy" /\ space'[q] = space[q] /\ left'[q] = left[q] /\ space[q] \in Int
        BY <1>t, <2>1, <2>4
      <3>2. 1 <= space[q] /\ space[q] <= left[q] /\ space[q] <= shortp_out_space
        BY <1>w, <3>1, Zenon
      <3>. QED
        BY <2>2, <2>3, <3>1, <3>2
    <2>5. ASSUME NEW q \in ShortpProcs, wpc'[q] \in {"space", "copy", "sleep", "start"}
          PROVE  mutex' = q /\ accepted' + left'[q] <= spcf'.maxBytes
      BY <1>w, <2>1, <2>5
    <2>. QED
      BY <2>4, <2>5 DEF WriterHolds
  <1>3. ASSUME OtherStep
        PROVE  WriterHolds'
    BY <1>3, <1>w, OtherQuiet, Zenon DEF WriterHolds, shortp_out_space
  <1>. QED
    BY <1>1, <1>2, <1>3, ShortpSteps, WriterMoves, Zenon

\* What was written is printed when the output ends.
LEMMA DrainStep ==
    ASSUME ShortpInv, [ShortpNext]_shortpVars
    PROVE  WrittenDrained'
  <1>t. /\ wpc \in [ShortpProcs -> {"closed", "killed", "open", "space", "copy", "sleep", "start"}]
        /\ mine \in [ShortpProcs -> Nat] /\ accepted \in Nat /\ printed \in Nat /\ printed <= accepted
    BY DEF ShortpInv, ShortpTypes
  <1>d. /\ \A q \in ShortpProcs : mine[q] <= accepted
        /\ ~shortp_output_active => \A q \in ShortpProcs : mine[q] <= printed \/ wpc[q] = "start"
        /\ \A q \in ShortpProcs : wpc[q] = "closed" => mine[q] <= printed
    BY DEF ShortpInv, WrittenDrained, ReleaseDrained
  <1>1. ASSUME NEW p \in ShortpProcs, ShortpCopy(p)
        PROVE  WrittenDrained'
    <2>1. /\ mine' = [mine EXCEPT ![p] = accepted'] /\ accepted' = accepted + space[p] /\ space[p] \in Nat
          /\ wpc' = [wpc EXCEPT ![p] = "start"] /\ printed' = printed
      BY <1>1, CopyMoves, Zenon
    <2>2. shortp_output_active' = shortp_output_active
      BY <1>1, CopyMoves, Zenon
    <2>3. \A q \in ShortpProcs : mine'[q] <= accepted'
      BY <1>t, <1>d, <2>1
    <2>4. ~shortp_output_active => \A q \in ShortpProcs : mine'[q] <= printed' \/ wpc'[q] = "start"
      BY <1>t, <1>d, <2>1
    <2>5. \A q \in ShortpProcs : wpc'[q] = "closed" => mine'[q] <= printed'
      BY <1>t, <1>d, <2>1
    <2>. QED
      BY <2>2, <2>3, <2>4, <2>5, Zenon DEF WrittenDrained, ReleaseDrained
  <1>2. ASSUME ShortpDoWork
        PROVE  WrittenDrained'
    <2>1. /\ \A q \in ShortpProcs : wpc'[q] = wpc[q] \/ (wpc[q] = "sleep" /\ wpc'[q] = "space")
          /\ mine' = mine /\ accepted' = accepted
      BY <1>2, WorkMoves, Zenon
    <2>2. printed' \in Nat /\ printed <= printed'
      BY <1>2, RingWork
    <2>3. \A q \in ShortpProcs : mine[q] <= printed => mine'[q] <= printed'
      BY <1>t, <2>1, <2>2
    <2>4. \A q \in ShortpProcs : wpc'[q] = "closed" => mine'[q] <= printed'
      BY <1>d, <2>1, <2>3
    <2>5. ASSUME ~shortp_output_active'
          PROVE  \A q \in ShortpProcs : mine'[q] <= printed' \/ wpc'[q] = "start"
      <3>1. CASE shortp_output_active' = shortp_output_active
        <4>1. \A q \in ShortpProcs : mine[q] <= printed \/ wpc[q] = "start"
          BY <1>d, <2>5, <3>1, Zenon
        <4>. QED
          BY <2>1, <2>3, <4>1
      <3>2. CASE accepted = printed /\ printed' = printed
        BY <1>d, <2>1, <3>2
      <3>. QED
        BY <1>2, <3>1, <3>2, WorkMoves, Zenon
    <2>. QED
      BY <1>d, <2>1, <2>4, <2>5, Zenon DEF WrittenDrained, ReleaseDrained
  <1>3. ASSUME NEW p \in ShortpProcs, FileStep(p)
        PROVE  WrittenDrained'
    <2>1. UNCHANGED <<mine, accepted, printed>>
      BY <1>3, FileQuiet, Zenon
    <2>2. CASE ShortpStart(p)
      <3>1. wpc' = [wpc EXCEPT ![p] = "space"]
        BY <2>2, Zenon DEF ShortpStart, WGoto
      <3>2. shortp_output_active'
        BY <2>2, Zenon DEF ShortpStart
      <3>3. \A q \in ShortpProcs : wpc'[q] = "closed" => mine'[q] <= printed'
        BY <1>t, <1>d, <2>1, <3>1
      <3>. QED
        BY <1>d, <2>1, <3>2, <3>3, Zenon DEF WrittenDrained, ReleaseDrained
    <2>3. CASE ShortpRelease(p)
      <3>1. /\ wpc[p] = "open" /\ shortp_output_active' = shortp_output_active
            /\ \/ ~shortp_output_active /\ wpc' = [wpc EXCEPT ![p] = "closed"]
               \/ wpc' = [wpc EXCEPT ![p] = "killed"]
        BY <2>3, Zenon DEF ShortpRelease, WGoto
      <3>2. ~shortp_output_active => mine[p] <= printed
        BY <1>d, <3>1
      <3>3. \A q \in ShortpProcs : wpc'[q] = "closed" => mine'[q] <= printed'
        BY <1>t, <1>d, <2>1, <3>1, <3>2
      <3>4. \A q \in ShortpProcs : wpc[q] = "start" => wpc'[q] = "start"
        BY <1>t, <3>1
      <3>. QED
        BY <1>d, <2>1, <3>1, <3>3, <3>4, Zenon DEF WrittenDrained, ReleaseDrained
    <2>4. CASE ~ShortpStart(p) /\ ~ShortpRelease(p)
      <3>1. shortp_output_active' = shortp_output_active
        BY <1>3, <2>4, FileQuiet, Zenon
      <3>2. PICK l \in {"open", "space", "copy", "sleep"} : wpc[p] # "start" /\ wpc' = [wpc EXCEPT ![p] = l]
        BY <1>3, <2>4 DEF FileStep, ShortpOpen, ShortpWrite, ShortpSpace, ShortpGiveUp, WGoto
      <3>3. \A q \in ShortpProcs : /\ wpc'[q] = "closed" => wpc[q] = "closed"
                                   /\ wpc[q] = "start" => wpc'[q] = "start"
        BY <1>t, <3>2
      <3>. QED
        BY <1>d, <2>1, <3>1, <3>3, Zenon DEF WrittenDrained, ReleaseDrained
    <2>. QED
      BY <2>2, <2>3, <2>4
  <1>4. ASSUME OtherStep
        PROVE  WrittenDrained'
    BY <1>4, <1>d, OtherQuiet, Zenon DEF WrittenDrained, ReleaseDrained
  <1>. QED
    BY <1>1, <1>2, <1>3, <1>4, ShortpSteps, Zenon

\* Output only for open files.
LEMMA OpenStep ==
    ASSUME ShortpInv, [ShortpNext]_shortpVars
    PROVE  OpenForOutput'
  <1>c. spcf' = spcf
    <2>1. ASSUME NEW p \in ShortpProcs, ShortpCopy(p) PROVE spcf' = spcf
      BY <2>1, CopyMoves, Zenon
    <2>2. ASSUME ShortpDoWork PROVE spcf' = spcf
      BY <2>2, WorkMoves, Zenon
    <2>. QED
      BY <2>1, <2>2, ShortpSteps, FileQuiet, OtherQuiet, Zenon
  <1>. SUFFICES ASSUME ~spcf.signals
                PROVE  /\ shortp_output_active' => \E p \in ShortpProcs : wpc'[p] # "closed"
                       /\ \A p \in ShortpProcs : wpc'[p] # "killed"
                       /\ module' # "loaded" => \A p \in ShortpProcs : wpc'[p] = "closed"
    BY <1>c, Zenon DEF OpenForOutput
  <1>t. wpc \in [ShortpProcs -> {"closed", "killed", "open", "space", "copy", "sleep", "start"}]
    BY DEF ShortpInv, ShortpTypes
  <1>o. /\ shortp_output_active => \E p \in ShortpProcs : wpc[p] # "closed"
        /\ \A p \in ShortpProcs : wpc[p] # "killed"
        /\ module # "loaded" => \A p \in ShortpProcs : wpc[p] = "closed"
    BY Zenon DEF ShortpInv, OpenForOutput
  <1>1. ASSUME NEW p \in ShortpProcs, NEW l \in {"open", "space", "copy", "sleep", "start"},
               wpc' = [wpc EXCEPT ![p] = l], module' = module, module = "loaded" \/ wpc[p] # "closed"
        PROVE  /\ shortp_output_active' => \E q \in ShortpProcs : wpc'[q] # "closed"
               /\ \A q \in ShortpProcs : wpc'[q] # "killed"
               /\ module' # "loaded" => \A q \in ShortpProcs : wpc'[q] = "closed"
    <2>1. wpc'[p] # "closed" /\ \A q \in ShortpProcs : wpc'[q] # "killed"
      BY <1>t, <1>o, <1>1
    <2>2. module = "loaded"
      BY <1>o, <1>1
    <2>. QED
      BY <1>1, <2>1, <2>2
  <1>2. ASSUME NEW p \in ShortpProcs, ShortpCopy(p)
        PROVE  /\ shortp_output_active' => \E q \in ShortpProcs : wpc'[q] # "closed"
               /\ \A q \in ShortpProcs : wpc'[q] # "killed"
               /\ module' # "loaded" => \A q \in ShortpProcs : wpc'[q] = "closed"
    <2>1. wpc' = [wpc EXCEPT ![p] = "start"] /\ module' = module /\ wpc[p] # "closed"
      BY <1>2, CopyMoves
    <2>. QED
      BY <1>1, <2>1
  <1>3. ASSUME NEW p \in ShortpProcs, FileStep(p)
        PROVE  /\ shortp_output_active' => \E q \in ShortpProcs : wpc'[q] # "closed"
               /\ \A q \in ShortpProcs : wpc'[q] # "killed"
               /\ module' # "loaded" => \A q \in ShortpProcs : wpc'[q] = "closed"
    <2>1. module' = module
      BY <1>3, FileQuiet, Zenon
    <2>2. CASE ShortpRelease(p)
      <3>1. ~shortp_output_active' /\ wpc' = [wpc EXCEPT ![p] = "closed"]
        BY <2>2, Zenon DEF ShortpRelease, WGoto
      <3>2. \A q \in ShortpProcs : wpc'[q] = wpc[q] \/ wpc'[q] = "closed"
        BY <1>t, <3>1
      <3>3. \A q \in ShortpProcs : wpc'[q] # "killed"
        BY <1>o, <3>2
      <3>. QED
        BY <1>o, <2>1, <3>1, <3>2, <3>3, Zenon
    <2>3. CASE ~ShortpRelease(p)
      <3>1. PICK l \in {"open", "space", "copy", "sleep", "start"} :
               wpc' = [wpc EXCEPT ![p] = l] /\ (module = "loaded" \/ wpc[p] # "closed")
        BY <1>3, <2>3 DEF FileStep, ShortpOpen, ShortpWrite, ShortpSpace, ShortpGiveUp, ShortpStart, WGoto
      <3>. QED
        BY <1>1, <2>1, <3>1
    <2>. QED
      BY <2>2, <2>3
  <1>4. ASSUME ShortpDoWork
        PROVE  /\ shortp_output_active' => \E q \in ShortpProcs : wpc'[q] # "closed"
               /\ \A q \in ShortpProcs : wpc'[q] # "killed"
               /\ module' # "loaded" => \A q \in ShortpProcs : wpc'[q] = "closed"
    <2>1. \A q \in ShortpProcs : wpc'[q] = wpc[q] \/ (wpc[q] = "sleep" /\ wpc'[q] = "space")
      BY <1>4, WorkMoves, Zenon
    <2>2. \A q \in ShortpProcs : /\ wpc'[q] # "killed"
                                 /\ wpc'[q] = "closed" <=> wpc[q] = "closed"
      BY <1>o, <2>1
    <2>a. module' = module
      BY <1>4, WorkMoves, Zenon
    <2>b. ~shortp_output_active' \/ shortp_output_active' = shortp_output_active
      BY <1>4, WorkMoves, Zenon
    <2>c. CASE ~shortp_output_active'
      BY <1>o, <2>2, <2>a, <2>c, Zenon
    <2>d. CASE shortp_output_active' = shortp_output_active
      BY <1>o, <2>2, <2>a, <2>d, Zenon
    <2>. QED
      BY <2>b, <2>c, <2>d
  <1>5. ASSUME OtherStep
        PROVE  /\ shortp_output_active' => \E q \in ShortpProcs : wpc'[q] # "closed"
               /\ \A q \in ShortpProcs : wpc'[q] # "killed"
               /\ module' # "loaded" => \A q \in ShortpProcs : wpc'[q] = "closed"
    <2>1. wpc' = wpc /\ shortp_output_active' = shortp_output_active
      BY <1>5, OtherQuiet, Zenon
    <2>2. CASE module' = module
      BY <1>o, <2>1, <2>2, Zenon
    <2>3. CASE module' # module
      <3>1. ShortpCleanup
        BY <1>5, <2>3 DEF OtherStep, ShortpWorkRun, ShortpRecord, ShortpInterrupt, ShortpTimeout, ShortpTimeoutLock,
                          ShortpTimeoutInterrupt, PrinterDone, ShortpRead, shortpVars
      <3>2. module # "loaded" \/ \A q \in ShortpProcs : wpc[q] \in {"closed", "killed"}
        BY <3>1 DEF ShortpCleanup
      <3>3. \A q \in ShortpProcs : wpc[q] = "closed"
        BY <1>o, <3>2
      <3>. QED
        BY <1>o, <2>1, <3>3, Zenon
    <2>. QED
      BY <2>2, <2>3
  <1>. QED
    BY <1>2, <1>3, <1>4, <1>5, ShortpSteps, Zenon

\* The next step of the output stays one thing.
LEMMA AheadStep ==
    ASSUME ShortpInv, [ShortpNext]_shortpVars
    PROVE  OneStepAhead'
  <1>c. spcf' = spcf
    <2>1. ASSUME NEW p \in ShortpProcs, ShortpCopy(p) PROVE spcf' = spcf
      BY <2>1, CopyMoves, Zenon
    <2>2. ASSUME ShortpDoWork PROVE spcf' = spcf
      BY <2>2, WorkMoves, Zenon
    <2>. QED
      BY <2>1, <2>2, ShortpSteps, FileQuiet, OtherQuiet, Zenon
  <1>. DEFINE Ahead ==
         /\ tpc # "lock" /\ ~bug
         /\ ~shortp_output_active =>
              ~shortp_timer /\ ~irq /\ ~shortp_work /\ kpc # "wait" /\ line # "busy" /\ tpc = "idle"
         /\ line = "busy" => ~irq /\ ~shortp_work /\ kpc # "wait" /\ tpc = "idle"
         /\ irq => ~shortp_work /\ kpc # "wait" /\ tpc = "idle"
         /\ shortp_work => kpc # "wait" /\ tpc = "idle"
         /\ kpc = "wait" => tpc = "idle"
  <1>. SUFFICES ASSUME spcf.calm PROVE Ahead'
    BY <1>c, Zenon DEF OneStepAhead
  <1>a. Ahead
    BY Zenon DEF ShortpInv, OneStepAhead
  <1>q. ASSUME UNCHANGED <<tpc, bug, shortp_output_active, shortp_timer, irq, shortp_work, kpc, line>>
        PROVE  Ahead'
    BY <1>a, <1>q, Zenon
  <1>1. ASSUME NEW p \in ShortpProcs, ShortpCopy(p)
        PROVE  Ahead'
    <2>1. UNCHANGED <<tpc, bug, shortp_output_active, shortp_timer, irq, shortp_work, kpc, line>>
      BY <1>1, CopyMoves, Zenon
    <2>. QED
      BY <1>q, <2>1, Zenon
  <1>2. ASSUME NEW p \in ShortpProcs, FileStep(p)
        PROVE  Ahead'
    <2>1. UNCHANGED <<tpc, irq, kpc, line>>
      BY <1>2, FileQuiet, Zenon
    <2>2. CASE ~ShortpStart(p)
      BY <1>2, <1>q, <2>1, <2>2, FileQuiet, Zenon
    <2>3. CASE ShortpStart(p)
      <3>1. shortp_output_active'
        BY <2>3, Zenon DEF ShortpStart
      <3>2. CASE shortp_output_active
        <4>1. UNCHANGED <<shortp_work, bug>>
          BY <2>3, <3>2, Zenon DEF ShortpStart
        <4>. QED
          BY <1>a, <2>1, <3>1, <4>1, Zenon
      <3>3. CASE ~shortp_output_active
        <4>1. bug' = shortp_timer
          BY <2>3, <3>3, Zenon DEF ShortpStart
        <4>. QED
          BY <1>a, <2>1, <3>1, <3>3, <4>1, Zenon
      <3>. QED
        BY <3>2, <3>3
    <2>. QED
      BY <2>2, <2>3
  <1>3. ASSUME ShortpDoWork
        PROVE  Ahead'
    <2>1. kpc = "wait" /\ kpc' = "record" /\ line # "busy" /\ UNCHANGED <<shortp_work, tpc, irq, bug>>
      BY <1>3, WorkMoves, Zenon
    <2>2. ~irq /\ ~shortp_work /\ shortp_output_active /\ kpc' # "wait"
      <3>1. kpc' # "wait"
        BY <2>1
      <3>. QED
        BY <1>a, <2>1, <3>1, Zenon
    <2>3. CASE ~shortp_timer' /\ line' = line
      BY <1>a, <2>1, <2>2, <2>3, Zenon
    <2>4. CASE shortp_output_active' = shortp_output_active
      BY <1>a, <2>1, <2>2, <2>4, Zenon
    <2>. QED
      BY <1>3, <2>3, <2>4, WorkMoves, Zenon
  <1>4. ASSUME OtherStep
        PROVE  Ahead'
    <2>0. shortp_output_active' = shortp_output_active
      BY <1>4, OtherQuiet, Zenon
    <2>1. CASE ShortpWorkRun
      <3>1. /\ shortp_work /\ ~shortp_work' /\ UNCHANGED <<shortp_timer, tpc, line, irq, bug>>
        BY <2>1, Zenon DEF ShortpWorkRun, printer
      <3>. QED
        BY <1>a, <2>0, <3>1, Zenon
    <2>2. CASE ShortpRecord
      <3>1. kpc' = "idle" /\ UNCHANGED <<shortp_timer, shortp_work, tpc, line, irq, bug>>
        BY <2>2, Zenon DEF ShortpRecord, printer
      <3>2. kpc' # "wait"
        BY <3>1
      <3>. QED
        BY <1>a, <2>0, <3>1, <3>2, Zenon
    <2>3. CASE ShortpInterrupt
      <3>1. irq /\ ~irq' /\ UNCHANGED <<shortp_timer, tpc, kpc, line, bug>>
        BY <2>3, Zenon DEF ShortpInterrupt
      <3>. QED
        BY <1>a, <2>0, <3>1, Zenon
    <2>4. CASE ShortpTimeout
      <3>1. /\ ~irq /\ ~shortp_work /\ kpc = "idle" /\ UNCHANGED <<kpc, line, irq>>
        BY <2>4, Zenon DEF ShortpTimeout, printer
      <3>2. kpc # "wait"
        BY <3>1
      <3>3. CASE ~shortp_output_active
        <4>1. ~shortp_timer' /\ tpc' = "idle" /\ UNCHANGED <<shortp_work, bug>>
          BY <2>4, <3>3, Zenon DEF ShortpTimeout
        <4>2. tpc' # "lock"
          BY <4>1
        <4>. QED
          BY <1>a, <2>0, <3>1, <3>3, <4>1, <4>2, Zenon
      <3>4. CASE shortp_output_active
        <4>1. TimeoutLocked(FALSE) /\ UNCHANGED shortp_work
          BY <2>4, <3>4, Zenon DEF ShortpTimeout
        <4>2. CASE bug' = FALSE /\ tpc' = "idle"
          <5>1. tpc' # "lock"
            BY <4>2
          <5>. QED
            BY <1>a, <2>0, <3>1, <3>4, <4>1, <4>2, <5>1, Zenon
        <4>3. CASE line = "ready" /\ tpc' = "intr" /\ UNCHANGED bug
          <5>1. line # "busy" /\ tpc' # "lock"
            BY <4>3
          <5>. QED
            BY <1>a, <2>0, <3>1, <3>2, <3>4, <4>1, <4>3, <5>1, Zenon
        <4>. QED
          BY <4>1, <4>2, <4>3, Zenon DEF TimeoutLocked
      <3>. QED
        BY <3>3, <3>4
    <2>5. CASE ShortpTimeoutLock
      <3>1. tpc = "lock"
        BY <2>5, Zenon DEF ShortpTimeoutLock
      <3>. QED
        BY <1>a, <3>1
    <2>5a. CASE ShortpTimeoutInterrupt
      <3>1. /\ tpc = "intr" /\ tpc' = "idle" /\ shortp_work' = (shortp_work \/ shortp_output_active)
            /\ UNCHANGED <<shortp_timer, kpc, line, irq, bug>>
        BY <2>5a, Zenon DEF ShortpTimeoutInterrupt, shortp_interrupt, printer
      <3>2. tpc # "idle" /\ tpc' # "lock"
        BY <3>1
      <3>3. shortp_output_active /\ ~irq /\ ~shortp_work /\ kpc # "wait" /\ line # "busy"
        BY <1>a, <3>2, Zenon
      <3>. QED
        BY <1>a, <2>0, <3>1, <3>2, <3>3, Zenon
    <2>6. CASE PrinterDone
      <3>1. UNCHANGED <<shortp_timer, shortp_work, tpc, kpc, bug>>
        BY <2>6, Zenon DEF PrinterDone
      <3>2. /\ \/ line = "busy" /\ line' = "ack"
               \/ line = "ack" /\ line' = "ready" /\ irq' = irq
        BY <2>6, Zenon DEF PrinterDone
      <3>3. line' # "busy"
        BY <3>2
      <3>4. CASE line = "busy"
        <4>1. shortp_output_active /\ ~shortp_work /\ kpc # "wait" /\ tpc = "idle"
          BY <1>a, <3>4, Zenon
        <4>. QED
          BY <1>a, <2>0, <3>1, <3>3, <4>1, Zenon
      <3>5. CASE irq' = irq
        BY <1>a, <2>0, <3>1, <3>3, <3>5, Zenon
      <3>. QED
        BY <3>2, <3>4, <3>5
    <2>7. CASE ShortpRead
      BY <1>q, <2>0, <2>7, Zenon DEF ShortpRead, printer
    <2>8. CASE ShortpCleanup
      <3>1. UNCHANGED <<shortp_work, tpc, kpc, line, irq, bug>>
        BY <2>8, Zenon DEF ShortpCleanup, printer
      <3>2. shortp_timer' = (shortp_timer /\ ~shortp_output_active) \/ shortp_timer' = shortp_timer
        BY <2>8, Zenon DEF ShortpCleanup
      <3>3. ~shortp_timer => ~shortp_timer'
        BY <3>2, Zenon
      <3>. QED
        BY <1>a, <2>0, <3>1, <3>3, Zenon
    <2>9. CASE UNCHANGED shortpVars
      BY <1>q, <2>9, Zenon DEF shortpVars, printer
    <2>. QED
      BY <1>4, <2>1, <2>2, <2>3, <2>4, <2>5, <2>5a, <2>6, <2>7, <2>8, <2>9 DEF OtherStep
  <1>. QED
    BY <1>1, <1>2, <1>3, <1>4, ShortpSteps, Zenon

\* The timer stands by while the output is active.
LEMMA TimerStep ==
    ASSUME ShortpInv, [ShortpNext]_shortpVars
    PROVE  TimerRuns'
  <1>. SUFFICES ASSUME shortp_output_active', module' = "loaded", ~bug'
                PROVE  shortp_timer' \/ tpc' # "idle" \/ shortp_work' \/ kpc' = "wait"
    BY Zenon DEF TimerRuns
  <1>t. shortp_output_active /\ module = "loaded" /\ ~bug => shortp_timer \/ tpc # "idle" \/ shortp_work \/ kpc = "wait"
    BY Zenon DEF ShortpInv, TimerRuns
  <1>q. ASSUME UNCHANGED <<tpc, bug, shortp_output_active, shortp_timer, shortp_work, kpc, module>>
        PROVE  shortp_timer' \/ tpc' # "idle" \/ shortp_work' \/ kpc' = "wait"
    BY <1>q, <1>t, Zenon
  <1>1. ASSUME NEW p \in ShortpProcs, ShortpCopy(p)
        PROVE  shortp_timer' \/ tpc' # "idle" \/ shortp_work' \/ kpc' = "wait"
    <2>1. UNCHANGED <<tpc, bug, shortp_output_active, shortp_timer, shortp_work, kpc, module>>
      BY <1>1, CopyMoves, Zenon
    <2>. QED
      BY <1>q, <2>1, Zenon
  <1>2. ASSUME NEW p \in ShortpProcs, FileStep(p)
        PROVE  shortp_timer' \/ tpc' # "idle" \/ shortp_work' \/ kpc' = "wait"
    <2>1. UNCHANGED <<tpc, kpc, module>>
      BY <1>2, FileQuiet, Zenon
    <2>2. CASE ~ShortpStart(p)
      BY <1>2, <1>q, <2>1, <2>2, FileQuiet, Zenon
    <2>3. CASE ShortpStart(p) /\ shortp_output_active
      <3>1. UNCHANGED <<shortp_timer, shortp_work, bug>>
        BY <2>3, Zenon DEF ShortpStart
      <3>. QED
        BY <1>t, <2>1, <2>3, <3>1, Zenon
    <2>4. CASE ShortpStart(p) /\ ~shortp_output_active
      BY <2>4, Zenon DEF ShortpStart
    <2>. QED
      BY <2>2, <2>3, <2>4
  <1>3. ASSUME ShortpDoWork
        PROVE  shortp_timer' \/ tpc' # "idle" \/ shortp_work' \/ kpc' = "wait"
    BY <1>3, WorkMoves, Zenon
  <1>4. ASSUME OtherStep
        PROVE  shortp_timer' \/ tpc' # "idle" \/ shortp_work' \/ kpc' = "wait"
    <2>0. shortp_output_active' = shortp_output_active
      BY <1>4, OtherQuiet, Zenon
    <2>a. shortp_output_active
      BY <2>0
    <2>1. CASE ShortpWorkRun
      BY <2>1, Zenon DEF ShortpWorkRun
    <2>2. CASE ShortpRecord
      <3>1. kpc = "record" /\ UNCHANGED <<shortp_timer, shortp_work, tpc, bug, module>>
        BY <2>2, Zenon DEF ShortpRecord
      <3>2. kpc # "wait"
        BY <3>1
      <3>. QED
        BY <1>t, <2>0, <3>1, <3>2, Zenon
    <2>3. CASE ShortpInterrupt
      <3>1. shortp_work' = (shortp_work \/ shortp_output_active)
        BY <2>3, Zenon DEF ShortpInterrupt, shortp_interrupt
      <3>. QED
        BY <2>0, <3>1, Zenon
    <2>4. CASE ShortpTimeout
      <3>1. CASE spcf.calm
        <4>1. TimeoutLocked(FALSE)
          BY <2>a, <2>4, <3>1, Zenon DEF ShortpTimeout
        <4>2. shortp_timer' \/ tpc' = "intr"
          BY <4>1, Zenon DEF TimeoutLocked
        <4>. QED
          BY <4>2
      <3>2. CASE ~spcf.calm
        <4>1. tpc' = "lock"
          BY <2>a, <2>4, <3>2, Zenon DEF ShortpTimeout
        <4>. QED
          BY <4>1
      <3>. QED
        BY <3>1, <3>2
    <2>5. CASE ShortpTimeoutLock
      <3>1. TimeoutLocked(shortp_timer)
        BY <2>5, Zenon DEF ShortpTimeoutLock
      <3>2. shortp_timer' \/ tpc' = "intr"
        BY <3>1, Zenon DEF TimeoutLocked
      <3>. QED
        BY <3>2
    <2>5a. CASE ShortpTimeoutInterrupt
      <3>1. shortp_work' = (shortp_work \/ shortp_output_active)
        BY <2>5a, Zenon DEF ShortpTimeoutInterrupt, shortp_interrupt
      <3>. QED
        BY <2>a, <3>1, Zenon
    <2>6. CASE PrinterDone
      BY <1>q, <2>0, <2>6, Zenon DEF PrinterDone
    <2>7. CASE ShortpRead
      BY <1>q, <2>0, <2>7, Zenon DEF ShortpRead
    <2>8. CASE ShortpCleanup
      <3>1. module' \in {"flush", "gone"}
        BY <2>8 DEF ShortpCleanup
      <3>. QED
        BY <3>1
    <2>9. CASE UNCHANGED shortpVars
      BY <1>q, <2>9, Zenon DEF shortpVars
    <2>. QED
      BY <1>4, <2>1, <2>2, <2>3, <2>4, <2>5, <2>5a, <2>6, <2>7, <2>8, <2>9 DEF OtherStep
  <1>. QED
    BY <1>1, <1>2, <1>3, <1>4, ShortpSteps, Zenon

\* The reader, and its ring.
LEMMA ReaderStep ==
    ASSUME ShortpInv, [ShortpNext]_shortpVars
    PROVE  /\ ReaderWoken' /\ rpc' \in {"user", "sleep", "copy"}
           /\ shortp_in_head' \in 0..Records - 1 /\ shortp_in_tail' \in 0..Records - 1
  <1>. USE ShortpAssumption
  <1>0. /\ rpc \in {"user", "sleep", "copy"} /\ shortp_in_head \in 0..Records - 1 /\ shortp_in_tail \in 0..Records - 1
        /\ rpc = "sleep" => shortp_in_head = shortp_in_tail
    BY DEF ShortpInv, ShortpTypes, ReaderWoken
  <1>q. CASE UNCHANGED <<rpc, shortp_in_head, shortp_in_tail>>
    BY <1>0, <1>q DEF ReaderWoken
  <1>1. CASE ShortpRecord
    <2>1. /\ shortp_in_head' = (shortp_in_head + 1) % Records /\ shortp_in_tail' = shortp_in_tail
          /\ rpc' = IF rpc = "sleep" THEN "user" ELSE rpc
      BY <1>1 DEF ShortpRecord
    <2>2. shortp_in_head' \in 0..Records - 1
      BY <1>0, <2>1
    <2>. QED
      BY <1>0, <2>1, <2>2 DEF ReaderWoken
  <1>2. CASE ShortpRead
    <2>1. shortp_in_head' = shortp_in_head
      BY <1>2 DEF ShortpRead
    <2>2. CASE shortp_in_tail' = shortp_in_tail
      BY <1>0, <1>2, <2>1, <2>2 DEF ShortpRead, ReaderWoken
    <2>3. CASE shortp_in_tail' # shortp_in_tail
      <3>1. rpc' = "user" /\ \E k \in Int : shortp_in_tail' = (shortp_in_tail + k) % Records
        BY <1>0, <1>2, <2>3 DEF ShortpRead
      <3>2. shortp_in_tail' \in 0..Records - 1
        BY <1>0, <3>1
      <3>. QED
        BY <1>0, <2>1, <3>1, <3>2 DEF ReaderWoken
    <2>. QED
      BY <2>2, <2>3
  <1>3. ASSUME NEW p \in ShortpProcs, ShortpCopy(p)
        PROVE  UNCHANGED <<rpc, shortp_in_head, shortp_in_tail>>
    BY <1>3, CopyMoves, Zenon
  <1>4. ASSUME NEW p \in ShortpProcs, FileStep(p)
        PROVE  UNCHANGED <<rpc, shortp_in_head, shortp_in_tail>>
    BY <1>4, FileQuiet, Zenon
  <1>5. ASSUME ShortpDoWork
        PROVE  UNCHANGED <<rpc, shortp_in_head, shortp_in_tail>>
    BY <1>5, WorkMoves, Zenon
  <1>6. ASSUME OtherStep, ~ShortpRecord, ~ShortpRead
        PROVE  UNCHANGED <<rpc, shortp_in_head, shortp_in_tail>>
    BY <1>6, Zenon DEF OtherStep, ShortpWorkRun, ShortpInterrupt, ShortpTimeout, ShortpTimeoutLock,
                ShortpTimeoutInterrupt, PrinterDone, ShortpCleanup, shortpVars, reader
  <1>. QED
    BY <1>q, <1>1, <1>2, <1>3, <1>4, <1>5, <1>6, ShortpSteps, Zenon

\* The types of the rest.
LEMMA ShortpTypesStep ==
    ASSUME ShortpInv, [ShortpNext]_shortpVars
    PROVE  ShortpTypes'
  <1>. USE ShortpAssumption
  <1>t. ShortpTypes
    BY DEF ShortpInv
  <1>1. /\ spcf' \in ShortpConfigs /\ shortp_out_head' \in Places /\ shortp_out_tail' \in Places
        /\ shortp_out_buffer' \in [Places -> Nat]
        /\ accepted' \in Nat /\ accepted' <= spcf'.maxBytes /\ printed' \in Nat /\ printed' <= accepted'
        /\ mine' \in [ShortpProcs -> Nat]
    <2>q. ASSUME UNCHANGED <<spcf, shortp_out_head, shortp_out_tail, shortp_out_buffer, accepted, printed, mine>>
          PROVE  /\ spcf' \in ShortpConfigs /\ shortp_out_head' \in Places /\ shortp_out_tail' \in Places
                 /\ shortp_out_buffer' \in [Places -> Nat]
                 /\ accepted' \in Nat /\ accepted' <= spcf'.maxBytes /\ printed' \in Nat /\ printed' <= accepted'
                 /\ mine' \in [ShortpProcs -> Nat]
      BY <1>t, <2>q, Zenon DEF ShortpTypes
    <2>1. ASSUME NEW p \in ShortpProcs, ShortpCopy(p)
          PROVE  /\ spcf' \in ShortpConfigs /\ shortp_out_head' \in Places /\ shortp_out_tail' \in Places
                 /\ shortp_out_buffer' \in [Places -> Nat]
                 /\ accepted' \in Nat /\ accepted' <= spcf'.maxBytes /\ printed' \in Nat /\ printed' <= accepted'
                 /\ mine' \in [ShortpProcs -> Nat]
      <3>1. /\ shortp_out_head' \in Places /\ printed' <= accepted'
        BY <2>1, RingCopy, Zenon
      <3>2. /\ UNCHANGED <<spcf, shortp_out_tail, printed>> /\ accepted' = accepted + space[p]
            /\ space[p] \in Nat \ {0} /\ space[p] <= left[p] /\ accepted + left[p] <= spcf.maxBytes
            /\ mine' = [mine EXCEPT ![p] = accepted'] /\ shortp_out_buffer' \in [Places -> Nat]
        BY <2>1, CopyMoves, Zenon
      <3>3. left[p] \in Nat /\ accepted \in Nat /\ spcf.maxBytes \in Nat
        BY <1>t DEF ShortpTypes
      <3>4. accepted' \in Nat /\ accepted' <= spcf.maxBytes
        BY <3>2, <3>3
      <3>5. mine' \in [ShortpProcs -> Nat]
        BY <1>t, <3>2, <3>4 DEF ShortpTypes
      <3>. QED
        BY <1>t, <3>1, <3>2, <3>4, <3>5, Zenon DEF ShortpTypes
    <2>2. ASSUME ShortpDoWork
          PROVE  /\ spcf' \in ShortpConfigs /\ shortp_out_head' \in Places /\ shortp_out_tail' \in Places
                 /\ shortp_out_buffer' \in [Places -> Nat]
                 /\ accepted' \in Nat /\ accepted' <= spcf'.maxBytes /\ printed' \in Nat /\ printed' <= accepted'
                 /\ mine' \in [ShortpProcs -> Nat]
      <3>1. UNCHANGED <<spcf, shortp_out_head, shortp_out_buffer, accepted, mine>>
        BY <2>2, WorkMoves, Zenon
      <3>2. shortp_out_tail' \in Places /\ printed' \in Nat /\ printed' <= accepted'
        BY <2>2, RingWork, Zenon
      <3>. QED
        BY <1>t, <3>1, <3>2, Zenon DEF ShortpTypes
    <2>. QED
      BY <2>q, <2>1, <2>2, ShortpSteps, FileQuiet, OtherQuiet, Zenon
  <1>2. /\ wpc' \in [ShortpProcs -> {"closed", "killed", "open", "space", "copy", "sleep", "start"}]
        /\ left' \in [ShortpProcs -> Nat] /\ space' \in [ShortpProcs -> Int] /\ mutex' \in ShortpProcs \cup {"none"}
    <2>1. ASSUME NEW p \in ShortpProcs, ShortpCopy(p)
          PROVE  /\ wpc' \in [ShortpProcs -> {"closed", "killed", "open", "space", "copy", "sleep", "start"}]
                 /\ left' \in [ShortpProcs -> Nat] /\ UNCHANGED <<space, mutex>>
      <3>1. /\ wpc' = [wpc EXCEPT ![p] = "start"] /\ left' = [left EXCEPT ![p] = @ - space[p]]
            /\ UNCHANGED <<space, mutex>> /\ space[p] \in Nat \ {0} /\ space[p] <= left[p]
        BY <2>1, CopyMoves, Zenon
      <3>2. left[p] - space[p] \in Nat
        BY <1>t, <3>1 DEF ShortpTypes
      <3>. QED
        BY <1>t, <3>1, <3>2 DEF ShortpTypes
    <2>2. ASSUME ShortpDoWork
          PROVE  /\ wpc' \in [ShortpProcs -> {"closed", "killed", "open", "space", "copy", "sleep", "start"}]
                 /\ UNCHANGED <<left, space, mutex>>
      BY <2>2, WorkMoves, Zenon
    <2>. QED
      BY <1>t, <2>1, <2>2, ShortpSteps, WriterMoves, OtherQuiet, Zenon DEF ShortpTypes
  <1>3. /\ shortp_output_active' \in BOOLEAN /\ shortp_timer' \in BOOLEAN /\ shortp_work' \in BOOLEAN
        /\ irq' \in BOOLEAN /\ bug' \in BOOLEAN
    <2>0. /\ shortp_output_active \in BOOLEAN /\ shortp_timer \in BOOLEAN /\ shortp_work \in BOOLEAN
          /\ irq \in BOOLEAN /\ bug \in BOOLEAN
      BY <1>t, Zenon DEF ShortpTypes
    <2>1. ASSUME NEW p \in ShortpProcs, ShortpCopy(p)
          PROVE  UNCHANGED <<shortp_output_active, shortp_timer, shortp_work, irq, bug>>
      BY <2>1, CopyMoves, Zenon
    <2>2. ASSUME NEW p \in ShortpProcs, FileStep(p), ~ShortpStart(p)
          PROVE  UNCHANGED <<shortp_output_active, shortp_timer, shortp_work, irq, bug>>
      BY <2>2, FileQuiet, Zenon
    <2>3. ASSUME NEW p \in ShortpProcs, ShortpStart(p)
          PROVE  /\ shortp_output_active' \in BOOLEAN /\ shortp_timer' \in BOOLEAN /\ shortp_work' \in BOOLEAN
                 /\ irq' \in BOOLEAN /\ bug' \in BOOLEAN
      BY <2>0, <2>3, Zenon DEF ShortpStart, printer
    <2>4. ASSUME ShortpDoWork
          PROVE  /\ shortp_output_active' \in BOOLEAN /\ shortp_timer' \in BOOLEAN
                 /\ UNCHANGED <<shortp_work, irq, bug>>
      <3>1. UNCHANGED <<shortp_work, irq, bug>>
        BY <2>4, Zenon DEF ShortpDoWork
      <3>2. shortp_output_active' \in BOOLEAN /\ shortp_timer' \in BOOLEAN
        BY <2>4, Zenon DEF ShortpDoWork
      <3>. QED
        BY <3>1, <3>2
    <2>5. ASSUME OtherStep
          PROVE  /\ shortp_output_active' \in BOOLEAN /\ shortp_timer' \in BOOLEAN /\ shortp_work' \in BOOLEAN
                 /\ irq' \in BOOLEAN /\ bug' \in BOOLEAN
      <3>0. shortp_output_active' = shortp_output_active
        BY <2>5, OtherQuiet, Zenon
      <3>1. CASE ShortpWorkRun
        BY <2>0, <3>0, <3>1, Zenon DEF ShortpWorkRun, printer
      <3>2. CASE ShortpRecord
        BY <2>0, <3>0, <3>2, Zenon DEF ShortpRecord, printer
      <3>3. CASE ShortpInterrupt
        BY <2>0, <3>0, <3>3, Zenon DEF ShortpInterrupt, shortp_interrupt
      <3>a. ASSUME NEW x \in BOOLEAN, TimeoutLocked(x)
            PROVE  shortp_timer' \in BOOLEAN /\ bug' \in BOOLEAN
        BY <2>0, <3>a, Zenon DEF TimeoutLocked
      <3>4. CASE ShortpTimeout
        <4>1. irq' = irq /\ shortp_work' = shortp_work
          BY <3>4, Zenon DEF ShortpTimeout, printer
        <4>2. TimeoutLocked(FALSE) \/ (shortp_timer' = FALSE /\ UNCHANGED bug)
          BY <3>4, Zenon DEF ShortpTimeout
        <4>. QED
          BY <2>0, <3>0, <3>a, <4>1, <4>2, Zenon
      <3>5. CASE ShortpTimeoutLock
        <4>1. irq' = irq /\ shortp_work' = shortp_work /\ TimeoutLocked(shortp_timer)
          BY <3>5, Zenon DEF ShortpTimeoutLock, printer
        <4>. QED
          BY <2>0, <3>0, <3>a, <4>1, Zenon
      <3>5a. CASE ShortpTimeoutInterrupt
        BY <2>0, <3>0, <3>5a, Zenon DEF ShortpTimeoutInterrupt, shortp_interrupt, printer
      <3>6. CASE PrinterDone
        BY <2>0, <3>0, <3>6, Zenon DEF PrinterDone
      <3>7. CASE ShortpRead
        BY <2>0, <3>0, <3>7, Zenon DEF ShortpRead, printer
      <3>8. CASE ShortpCleanup
        BY <2>0, <3>0, <3>8, Zenon DEF ShortpCleanup, printer
      <3>9. CASE UNCHANGED shortpVars
        BY <2>0, <3>0, <3>9, Zenon DEF shortpVars, printer
      <3>. QED
        BY <2>5, <3>1, <3>2, <3>3, <3>4, <3>5, <3>5a, <3>6, <3>7, <3>8, <3>9 DEF OtherStep
    <2>. QED
      BY <2>0, <2>1, <2>2, <2>3, <2>4, <2>5, ShortpSteps, Zenon
  <1>4. /\ kpc' \in {"idle", "wait", "record"} /\ tpc' \in {"idle", "lock", "intr"} /\ module' \in {"loaded", "flush", "gone"}
        /\ line' \in {"ready", "busy", "ack"}
    <2>0. /\ kpc \in {"idle", "wait", "record"} /\ tpc \in {"idle", "lock", "intr"} /\ module \in {"loaded", "flush", "gone"}
          /\ line \in {"ready", "busy", "ack"}
      BY <1>t DEF ShortpTypes
    <2>1. ASSUME NEW p \in ShortpProcs, ShortpCopy(p)
          PROVE  UNCHANGED <<kpc, tpc, module, line>>
      BY <2>1, CopyMoves, Zenon
    <2>2. ASSUME NEW p \in ShortpProcs, FileStep(p)
          PROVE  UNCHANGED <<kpc, tpc, module, line>>
      BY <2>2, FileQuiet, Zenon
    <2>3. ASSUME ShortpDoWork
          PROVE  kpc' = "record" /\ UNCHANGED <<tpc, module>> /\ (line' = line \/ line' = "busy")
      BY <2>3, WorkMoves, Zenon
    <2>4. ASSUME OtherStep
          PROVE  /\ kpc' = kpc \/ kpc' = "wait" \/ kpc' = "idle"
                 /\ tpc' = tpc \/ tpc' = "lock" \/ tpc' = "intr" \/ tpc' = "idle"
                 /\ module' = module \/ module' = "flush" \/ module' = "gone"
                 /\ line' = line \/ line' = "ack" \/ line' = "ready"
      <3>1. CASE ShortpWorkRun \/ ShortpRecord
        BY <3>1 DEF ShortpWorkRun, ShortpRecord, printer
      <3>2. CASE ShortpInterrupt \/ ShortpTimeoutInterrupt
        BY <3>2 DEF ShortpInterrupt, ShortpTimeoutInterrupt, printer
      <3>2a. CASE ShortpTimeout \/ ShortpTimeoutLock
        BY <3>2a DEF ShortpTimeout, ShortpTimeoutLock, TimeoutLocked, printer
      <3>3. CASE PrinterDone \/ ShortpRead \/ ShortpCleanup \/ UNCHANGED shortpVars
        BY <3>3 DEF PrinterDone, ShortpRead, ShortpCleanup, shortpVars, printer
      <3>. QED
        BY <2>4, <3>1, <3>2, <3>2a, <3>3 DEF OtherStep
    <2>5. CASE UNCHANGED <<kpc, tpc, module, line>>
      BY <2>0, <2>5
    <2>6. CASE ShortpDoWork
      BY <2>0, <2>3, <2>6
    <2>7. CASE OtherStep
      BY <2>0, <2>4, <2>7
    <2>. QED
      BY <2>1, <2>2, <2>5, <2>6, <2>7, ShortpSteps, Zenon
  <1>. QED
    BY <1>1, <1>2, <1>3, <1>4, ReaderStep, Zenon DEF ShortpTypes, Places

\* The invariant is inductive.
LEMMA ShortpNextInv == ShortpInv /\ [ShortpNext]_shortpVars => ShortpInv'
  BY ShortpTypesStep, WriterStep, RingStep, DrainStep, AheadStep, OpenStep, TimerStep, ReaderStep DEF ShortpInv
=============================================================================
