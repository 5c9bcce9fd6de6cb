--------------------------- MODULE DriversProofs ----------------------------
(***************************************************************************)
(* Proofs about ldt, for any processes and fifo size, and about the machine *)
(* that has one of the drivers loaded.                                     *)
(***************************************************************************)
EXTENDS Drivers, DriverLifeProofs, ShortProofs, SequenceTheorems, TLAPS

-----------------------------------------------------------------------------
(* ldt                                                                     *)

LdtTypes ==
    /\ out_fifo \in Seq(Nat) /\ in_fifo \in Seq(Nat)
    /\ Len(out_fifo) <= FIFO_SIZE /\ Len(in_fifo) <= FIFO_SIZE
    /\ ldt_irq \in BOOLEAN /\ ldt_tasklet \in BOOLEAN
    /\ uart_detected \in BOOLEAN /\ loopback \in BOOLEAN
    /\ thr \in Nat /\ rbr \in Nat /\ data_out \in Nat /\ got \in Nat /\ wrote \in 0..LdtMax
    /\ read \in Nat /\ lost \in Nat
    /\ lpc \in [LdtProcs -> {"user", "test", "sleep", "lock", "copy", "schedule"}]
    /\ tasklet_pc \in {"idle", "out", "send", "in"}
    /\ write_lock \in LdtWriters \cup {"none"} /\ read_lock \in LdtReaders \cup {"none"}

\* A byte is in the tasklet's hand while it is sent, and then the transmit register is
\* free; without a UART its registers stay empty.
Registers ==
    /\ tasklet_pc = "send" <=> data_out # 0
    /\ tasklet_pc = "send" /\ uart_detected => thr = 0
    /\ ~uart_detected => thr = 0 /\ rbr = 0

\* The order of the pipeline, part by part.
PartsInOrder ==
    /\ \A i \in 1..Len(in_fifo) :
          got < in_fifo[i] /\ \A j \in 1..Len(in_fifo) : i < j => in_fifo[i] < in_fifo[j]
    /\ rbr # 0 => got < rbr /\ \A i \in 1..Len(in_fifo) : in_fifo[i] < rbr
    /\ thr # 0 => got < thr /\ rbr < thr /\ \A i \in 1..Len(in_fifo) : in_fifo[i] < thr
    /\ data_out # 0 => /\ got < data_out /\ rbr < data_out /\ thr < data_out
                       /\ \A i \in 1..Len(in_fifo) : in_fifo[i] < data_out
    /\ \A j \in 1..Len(out_fifo) :
          /\ got < out_fifo[j] /\ rbr < out_fifo[j] /\ thr < out_fifo[j] /\ data_out < out_fifo[j]
          /\ \A i \in 1..Len(in_fifo) : in_fifo[i] < out_fifo[j]
          /\ \A i \in 1..Len(out_fifo) : i < j => out_fifo[i] < out_fifo[j]

\* None of its bytes is of the future.
PartsWritten ==
    /\ got <= wrote /\ rbr <= wrote /\ thr <= wrote /\ data_out <= wrote
    /\ \A i \in 1..Len(in_fifo) : in_fifo[i] <= wrote
    /\ \A i \in 1..Len(out_fifo) : out_fifo[i] <= wrote

\* Every byte is accounted for.
One(b) == IF b = 0 THEN 0 ELSE 1
PartsCounted == wrote = read + lost + Len(in_fifo) + One(rbr) + One(thr) + One(data_out) + Len(out_fifo)

LdtInv == LdtTypes /\ Registers /\ PartsInOrder /\ PartsWritten /\ PartsCounted /\ LdtNoLostWakeup

\* The empty fifos satisfy the invariant.
LEMMA LdtInitInv == LdtInit => LdtInv
  <1>. SUFFICES ASSUME LdtInit PROVE LdtInv
    OBVIOUS
  <1>. USE LdtAssumption DEF LdtInit
  <1>1. LdtTypes
    <2>1. lpc \in [LdtProcs -> {"user", "test", "sleep", "lock", "copy", "schedule"}]
      OBVIOUS
    <2>2. ldt_irq \in BOOLEAN /\ ldt_tasklet \in BOOLEAN /\ uart_detected \in BOOLEAN /\ loopback \in BOOLEAN
      BY Zenon
    <2>. QED
      BY <2>1, <2>2 DEF LdtTypes
  <1>2. Registers /\ PartsInOrder /\ PartsWritten /\ PartsCounted
    BY DEF Registers, PartsInOrder, PartsWritten, PartsCounted, One
  <1>3. LdtNoLostWakeup
    BY DEF LdtNoLostWakeup, LdtProcs
  <1>. QED
    BY <1>1, <1>2, <1>3 DEF LdtInv

-----------------------------------------------------------------------------
\* Sequences of numbers that grow, and their concatenation.
Grows(s) == \A i, j \in 1..Len(s) : i < j => s[i] < s[j]

Below(s, n) == \A i \in 1..Len(s) : s[i] < n

\* Two increasing sequences, one below the other, make an increasing one.
LEMMA GrowsConcat ==
    ASSUME NEW s \in Seq(Nat), NEW t \in Seq(Nat), Grows(s), Grows(t),
           \A j \in 1..Len(t) : Below(s, t[j])
    PROVE  /\ s \o t \in Seq(Nat) /\ Len(s \o t) = Len(s) + Len(t) /\ Grows(s \o t)
           /\ \A n \in Nat : Below(s, n) /\ Below(t, n) => Below(s \o t, n)
  <1>0. Len(s) \in Nat /\ Len(t) \in Nat
    OBVIOUS
  <1>1. /\ s \o t \in Seq(Nat) /\ Len(s \o t) = Len(s) + Len(t)
        /\ \A k \in 1..Len(s) + Len(t) :
              (s \o t)[k] = IF k <= Len(s) THEN s[k] ELSE t[k - Len(s)]
    BY ConcatProperties, Zenon
  <1>2. \A i \in 1..Len(s) : s[i] \in Nat
    OBVIOUS
  <1>3. \A i \in 1..Len(t) : t[i] \in Nat
    OBVIOUS
  <1>4. ASSUME NEW i \in 1..Len(s \o t), NEW j \in 1..Len(s \o t), i < j
        PROVE  (s \o t)[i] < (s \o t)[j]
    <2>0. i \in 1..Len(s) + Len(t) /\ j \in 1..Len(s) + Len(t)
      BY <1>1
    <2>1. CASE j <= Len(s)
      <3>1. i \in 1..Len(s) /\ j \in 1..Len(s) /\ (s \o t)[i] = s[i] /\ (s \o t)[j] = s[j]
        BY <1>0, <1>1, <1>4, <2>0, <2>1
      <3>. QED
        BY <1>4, <3>1, Zenon DEF Grows
    <2>2. CASE i > Len(s)
      <3>1. /\ i - Len(s) \in 1..Len(t) /\ j - Len(s) \in 1..Len(t) /\ i - Len(s) < j - Len(s)
            /\ (s \o t)[i] = t[i - Len(s)] /\ (s \o t)[j] = t[j - Len(s)]
        BY <1>0, <1>1, <1>4, <2>0, <2>2
      <3>. QED
        BY <3>1, Zenon DEF Grows
    <2>3. CASE i <= Len(s) /\ ~(j <= Len(s))
      <3>1. /\ i \in 1..Len(s) /\ j - Len(s) \in 1..Len(t)
            /\ (s \o t)[i] = s[i] /\ (s \o t)[j] = t[j - Len(s)]
        BY <1>0, <1>1, <1>4, <2>0, <2>3
      <3>. QED
        BY <3>1, Zenon DEF Below
    <2>. QED
      BY <1>0, <2>0, <2>1, <2>2, <2>3
  <1>5. ASSUME NEW n \in Nat, Below(s, n), Below(t, n), NEW k \in 1..Len(s \o t)
        PROVE  (s \o t)[k] < n
    BY <1>0, <1>1, <1>5 DEF Below
  <1>. QED
    BY <1>1, <1>4, <1>5 DEF Grows, Below

\* The parts in order make the pipeline in order.
LEMMA LdtInvSafe == LdtInv => LdtTypeOK /\ LdtInOrder /\ LdtNoLostWakeup
  <1>. SUFFICES ASSUME LdtInv PROVE LdtTypeOK /\ LdtInOrder
    BY DEF LdtInv
  <1>0. LdtTypes /\ PartsInOrder /\ PartsWritten /\ PartsCounted
    BY DEF LdtInv
  <1>1. LdtTypeOK
    <2>1. {ldt_irq, ldt_tasklet, uart_detected, loopback} \subseteq BOOLEAN
      BY <1>0, Zenon DEF LdtTypes
    <2>2. /\ Len(out_fifo) \in 0..FIFO_SIZE /\ Len(in_fifo) \in 0..FIFO_SIZE
      BY <1>0, LdtAssumption DEF LdtTypes
    <2>3. {thr, rbr, data_out, wrote, got} \subseteq 0..LdtMax
      BY <1>0, LdtAssumption DEF LdtTypes, PartsWritten
    <2>. QED
      BY <1>0, <2>1, <2>2, <2>3 DEF LdtTypeOK, LdtTypes
  <1>2. LdtInOrder
    <2>. DEFINE reg(b) == IF b = 0 THEN <<>> ELSE <<b>>
    <2>1. \A b \in Nat : /\ reg(b) \in Seq(Nat) /\ Len(reg(b)) = One(b) /\ Grows(reg(b))
                         /\ \A i \in 1..Len(reg(b)) : b # 0 /\ reg(b)[i] = b
      BY DEF One, Grows
    <2>. HIDE DEF reg
    <2>2. /\ <<got>> \in Seq(Nat) /\ Len(<<got>>) = 1 /\ Grows(<<got>>)
          /\ \A n \in Nat : got < n => Below(<<got>>, n)
      BY <1>0 DEF LdtTypes, Grows, Below
    <2>3. Grows(in_fifo) /\ Grows(out_fifo)
      BY <1>0 DEF PartsInOrder, Grows
    <2>4. \A b, n \in Nat : b < n => Below(reg(b), n)
      BY <2>1 DEF Below
    <2>5. /\ in_fifo \in Seq(Nat) /\ out_fifo \in Seq(Nat)
          /\ rbr \in Nat /\ thr \in Nat /\ data_out \in Nat
      BY <1>0 DEF LdtTypes
    <2>6. /\ \A i \in 1..Len(in_fifo) : in_fifo[i] \in Nat
          /\ \A i \in 1..Len(out_fifo) : out_fifo[i] \in Nat
      BY <2>5
    <2>. DEFINE p1 == <<got>> \o in_fifo
                p2 == p1 \o reg(rbr)
                p3 == p2 \o reg(thr)
                p4 == p3 \o reg(data_out)
                p5 == p4 \o out_fifo
    <2>7. /\ p1 \in Seq(Nat) /\ Grows(p1) /\ Len(p1) = 1 + Len(in_fifo)
          /\ \A n \in Nat : got < n /\ Below(in_fifo, n) => Below(p1, n)
      <3>1. \A j \in 1..Len(in_fifo) : Below(<<got>>, in_fifo[j])
        BY <1>0, <2>2, <2>6 DEF PartsInOrder
      <3>. QED
        BY <2>2, <2>3, <2>5, <3>1, GrowsConcat, Zenon
    <2>. HIDE DEF p1
    <2>8. /\ p2 \in Seq(Nat) /\ Grows(p2) /\ Len(p2) = 1 + Len(in_fifo) + One(rbr)
          /\ \A n \in Nat : got < n /\ Below(in_fifo, n) /\ rbr < n => Below(p2, n)
      <3>1. \A j \in 1..Len(reg(rbr)) : Below(p1, reg(rbr)[j])
        BY <1>0, <2>1, <2>5, <2>7 DEF PartsInOrder, Below
      <3>2. Len(p2) = Len(p1) + Len(reg(rbr))
        BY <2>1, <2>5, <2>7, <3>1, GrowsConcat, Zenon
      <3>3. Len(p2) = 1 + Len(in_fifo) + One(rbr)
        BY <2>1, <2>5, <2>7, <3>2
      <3>. QED
        BY <2>1, <2>4, <2>5, <2>7, <3>1, <3>3, GrowsConcat, Zenon
    <2>. HIDE DEF p2
    <2>9. /\ p3 \in Seq(Nat) /\ Grows(p3) /\ Len(p3) = 1 + Len(in_fifo) + One(rbr) + One(thr)
          /\ \A n \in Nat : got < n /\ Below(in_fifo, n) /\ rbr < n /\ thr < n => Below(p3, n)
      <3>1. \A j \in 1..Len(reg(thr)) : Below(p2, reg(thr)[j])
        BY <1>0, <2>1, <2>5, <2>8 DEF PartsInOrder, Below
      <3>2. Len(p3) = Len(p2) + Len(reg(thr))
        BY <2>1, <2>5, <2>8, <3>1, GrowsConcat, Zenon
      <3>3. Len(p3) = 1 + Len(in_fifo) + One(rbr) + One(thr)
        BY <2>1, <2>5, <2>8, <3>2
      <3>. QED
        BY <2>1, <2>4, <2>5, <2>8, <3>1, <3>3, GrowsConcat, Zenon
    <2>. HIDE DEF p3
    <2>10. /\ p4 \in Seq(Nat) /\ Grows(p4)
           /\ Len(p4) = 1 + Len(in_fifo) + One(rbr) + One(thr) + One(data_out)
           /\ \A n \in Nat : got < n /\ Below(in_fifo, n) /\ rbr < n /\ thr < n /\ data_out < n => Below(p4, n)
      <3>1. \A j \in 1..Len(reg(data_out)) : Below(p3, reg(data_out)[j])
        BY <1>0, <2>1, <2>5, <2>9 DEF PartsInOrder, Below
      <3>2. Len(p4) = Len(p3) + Len(reg(data_out))
        BY <2>1, <2>5, <2>9, <3>1, GrowsConcat, Zenon
      <3>3. Len(p4) = 1 + Len(in_fifo) + One(rbr) + One(thr) + One(data_out)
        BY <2>1, <2>5, <2>9, <3>2
      <3>. QED
        BY <2>1, <2>4, <2>5, <2>9, <3>1, <3>3, GrowsConcat, Zenon
    <2>. HIDE DEF p4
    <2>11. /\ p5 \in Seq(Nat) /\ Grows(p5)
           /\ Len(p5) = 1 + Len(in_fifo) + One(rbr) + One(thr) + One(data_out) + Len(out_fifo)
      <3>1. \A j \in 1..Len(out_fifo) : Below(p4, out_fifo[j])
        BY <1>0, <2>5, <2>6, <2>10 DEF PartsInOrder, Below
      <3>2. Len(p5) = Len(p4) + Len(out_fifo)
        BY <2>3, <2>5, <2>10, <3>1, GrowsConcat, Zenon
      <3>3. Len(p5) = 1 + Len(in_fifo) + One(rbr) + One(thr) + One(data_out) + Len(out_fifo)
        BY <2>10, <3>2
      <3>. QED
        BY <2>3, <2>5, <2>10, <3>1, <3>3, GrowsConcat, Zenon
    <2>12. Pipeline = p5
      BY Zenon DEF Pipeline, p1, p2, p3, p4, reg
    <2>. HIDE DEF p5
    <2>13. \A i \in 1..Len(p5) - 1 : p5[i] < p5[i + 1]
      BY <2>11 DEF Grows
    <2>14. wrote = read + lost + Len(p5) - 1
      <3>1. One(rbr) \in Nat /\ One(thr) \in Nat /\ One(data_out) \in Nat
        BY DEF One
      <3>2. wrote = read + lost + Len(in_fifo) + One(rbr) + One(thr) + One(data_out) + Len(out_fifo)
        BY <1>0, Zenon DEF PartsCounted
      <3>3. read \in Nat /\ lost \in Nat /\ Len(in_fifo) \in Nat /\ Len(out_fifo) \in Nat
        BY <1>0, <2>5 DEF LdtTypes
      <3>4. Len(p5) = 1 + Len(in_fifo) + One(rbr) + One(thr) + One(data_out) + Len(out_fifo)
        BY <2>11
      <3>. QED
        <4>1. Len(p5) - 1 = Len(in_fifo) + One(rbr) + One(thr) + One(data_out) + Len(out_fifo)
          BY ONLY <3>1, <3>3, <3>4
        <4>. DEFINE parts == Len(in_fifo) + One(rbr) + One(thr) + One(data_out) + Len(out_fifo)
        <4>2. wrote = read + lost + parts
          BY ONLY <3>1, <3>2, <3>3
        <4>. QED
          BY <4>1, <4>2, Zenon
    <2>. QED
      BY <2>12, <2>13, <2>14, Zenon DEF LdtInOrder
  <1>. QED
    BY <1>1, <1>2

-----------------------------------------------------------------------------
\* What the fifos are after the first bytes are taken, or bytes are added.
LEMMA Taken ==
    ASSUME NEW s \in Seq(Nat), NEW n \in 0..Len(s)
    PROVE  LET r == SubSeq(s, n + 1, Len(s)) IN
           r \in Seq(Nat) /\ Len(r) = Len(s) - n /\ \A i \in 1..Len(s) - n : r[i] = s[i + n]
  <1>1. \A i \in n + 1..Len(s) : s[i] \in Nat
    OBVIOUS
  <1>. DEFINE r == SubSeq(s, n + 1, Len(s))
  <1>2. /\ r \in Seq(Nat)
        /\ Len(r) = IF n + 1 <= Len(s) THEN Len(s) - (n + 1) + 1 ELSE 0
        /\ \A i \in 1..Len(s) - (n + 1) + 1 : r[i] = s[n + 1 + i - 1]
    BY <1>1, SubSeqProperties
  <1>. HIDE DEF r
  <1>3. r \in Seq(Nat) /\ Len(r) = Len(s) - n /\ \A i \in 1..Len(s) - n : r[i] = s[i + n]
    BY <1>2
  <1>. QED
    BY <1>3 DEF r

\* What a write appends to out_fifo: the next n numbers.
LEMMA Added ==
    ASSUME NEW s \in Seq(Nat), NEW w \in Nat, NEW n \in Nat
    PROVE  LET r == s \o [i \in 1..n |-> w + i] IN
           /\ r \in Seq(Nat) /\ Len(r) = Len(s) + n
           /\ \A i \in 1..Len(s) : r[i] = s[i]
           /\ \A i \in Len(s) + 1..Len(s) + n : r[i] = w + (i - Len(s))
  <1>. DEFINE t == [i \in 1..n |-> w + i]
              r == s \o t
  <1>1. t \in Seq(Nat) /\ Len(t) = n /\ \A i \in 1..n : t[i] = w + i
    OBVIOUS
  <1>. HIDE DEF t
  <1>2. /\ r \in Seq(Nat) /\ Len(r) = Len(s) + Len(t)
        /\ \A i \in 1..Len(s) + Len(t) : r[i] = IF i <= Len(s) THEN s[i] ELSE t[i - Len(s)]
    BY <1>1, ConcatProperties, Zenon
  <1>. HIDE DEF r
  <1>3. /\ r \in Seq(Nat) /\ Len(r) = Len(s) + n
        /\ \A i \in 1..Len(s) : r[i] = s[i]
        /\ \A i \in Len(s) + 1..Len(s) + n : r[i] = w + (i - Len(s))
    BY <1>1, <1>2
  <1>. QED
    BY <1>3, Zenon DEF r, t

\* What waking does to the labels.
LEMMA WokenLabels ==
    ASSUME LdtTypes, NEW S \in SUBSET LdtProcs, lpc' = Woken(S)
    PROVE  /\ lpc' \in [LdtProcs -> {"user", "test", "sleep", "lock", "copy", "schedule"}]
           /\ \A p \in LdtProcs : lpc'[p] = "sleep" => lpc[p] = "sleep" /\ p \notin S
  BY DEF LdtTypes, Woken

\* Steps that move no byte.
LEMMA BytesQuiet ==
    ASSUME LdtInv, UNCHANGED <<out_fifo, in_fifo, thr, rbr, data_out, got, wrote, read, lost, uart_detected>>,
           tasklet_pc' = tasklet_pc \/ (tasklet_pc # "send" /\ tasklet_pc' # "send")
    PROVE  Registers' /\ PartsInOrder' /\ PartsWritten' /\ PartsCounted'
  <1>1. Registers'
    BY DEF LdtInv, Registers
  <1>2. PartsInOrder' /\ PartsWritten' /\ PartsCounted'
    BY Zenon DEF LdtInv, PartsInOrder, PartsWritten, PartsCounted, One
  <1>. QED
    BY <1>1, <1>2

\* A process tests its condition, or gives up.
LEMMA LdtTestInv ==
    ASSUME LdtInv, NEW p \in LdtProcs, LdtTest(p)
    PROVE  LdtInv'
  <1>. USE LdtAssumption
  <1>1. /\ UNCHANGED <<out_fifo, in_fifo, uart_detected, loopback, thr, rbr, ldt_irq, ldt_tasklet, tasklet_pc,
                       data_out, write_lock, read_lock, wrote, got, read, lost>>
        /\ \/ lpc' = [lpc EXCEPT ![p] = "sleep"] /\ p \in LdtWriters /\ Len(out_fifo) = FIFO_SIZE
           \/ lpc' = [lpc EXCEPT ![p] = "sleep"] /\ p \in LdtReaders /\ in_fifo = <<>>
           \/ lpc' = [lpc EXCEPT ![p] = "lock"] \/ lpc' = [lpc EXCEPT ![p] = "user"]
    BY Zenon DEF LdtTest, LdtCall, LGoto, fifos, uart, locks, counts
  <1>2. LdtTypes'
    BY <1>1 DEF LdtInv, LdtTypes
  <1>3. LdtNoLostWakeup'
    BY <1>1 DEF LdtInv, LdtTypes, LdtNoLostWakeup, LdtProcs
  <1>. QED
    BY <1>1, <1>2, <1>3, BytesQuiet DEF LdtInv

\* Taking and leaving the locks moves no byte.
LEMMA LdtLockInv ==
    ASSUME LdtInv, NEW p \in LdtProcs, LdtLock(p) \/ LdtWriteSchedule(p)
    PROVE  LdtInv'
  <1>. USE LdtAssumption
  <1>1. /\ UNCHANGED <<out_fifo, in_fifo, uart_detected, loopback, thr, rbr, ldt_irq, tasklet_pc,
                       data_out, wrote, got, read, lost>>
        /\ lpc' = [lpc EXCEPT ![p] = "copy"] \/ lpc' = [lpc EXCEPT ![p] = "user"]
        /\ write_lock' = write_lock \/ (p \in LdtWriters /\ write_lock' = p)
        /\ read_lock' = read_lock \/ (p \in LdtReaders /\ read_lock' = p)
    BY Zenon DEF LdtLock, LdtWriteSchedule, LGoto, fifos, uart, locks, counts
  <1>2. LdtTypes'
    <2>1. ldt_tasklet' \in BOOLEAN
      BY Zenon DEF LdtLock, LdtWriteSchedule, LdtInv, LdtTypes
    <2>. QED
      BY <1>1, <2>1 DEF LdtInv, LdtTypes
  <1>3. LdtNoLostWakeup'
    BY <1>1 DEF LdtInv, LdtTypes, LdtNoLostWakeup, LdtProcs
  <1>. QED
    BY <1>1, <1>2, <1>3, BytesQuiet DEF LdtInv

\* kfifo_from_user appends to out_fifo what was written last.
LEMMA LdtWriteCopyInv ==
    ASSUME LdtInv, NEW p \in LdtProcs, LdtWriteCopy(p)
    PROVE  LdtInv'
  <1>. USE LdtAssumption
  <1>1. /\ UNCHANGED <<in_fifo, uart_detected, loopback, thr, rbr, ldt_irq, ldt_tasklet, tasklet_pc,
                       data_out, read_lock, got, read, lost>>
        /\ lpc' = [lpc EXCEPT ![p] = "schedule"] /\ write_lock' = "none"
    BY Zenon DEF LdtWriteCopy, LGoto, uart
  <1>2. PICK n \in 0..Lesser(LdtMax - wrote, FIFO_SIZE - Len(out_fifo)) :
           out_fifo' = out_fifo \o [i \in 1..n |-> wrote + i] /\ wrote' = wrote + n
    BY DEF LdtWriteCopy
  <1>0. out_fifo \in Seq(Nat) /\ in_fifo \in Seq(Nat)
    BY DEF LdtInv, LdtTypes
  <1>3. /\ wrote \in 0..LdtMax /\ Len(out_fifo) <= FIFO_SIZE /\ Len(out_fifo) \in Nat /\ Len(in_fifo) \in Nat
        /\ got \in Nat /\ rbr \in Nat /\ thr \in Nat /\ data_out \in Nat /\ read \in Nat /\ lost \in Nat
    BY DEF LdtInv, LdtTypes
  <1>4. n \in Nat /\ wrote + n <= LdtMax /\ Len(out_fifo) + n <= FIFO_SIZE /\ wrote \in Nat
    BY <1>2, <1>3 DEF Lesser
  <1>a. /\ out_fifo' \in Seq(Nat) /\ Len(out_fifo') = Len(out_fifo) + n
        /\ \A i \in 1..Len(out_fifo) : out_fifo'[i] = out_fifo[i]
        /\ \A i \in Len(out_fifo) + 1..Len(out_fifo) + n : out_fifo'[i] = wrote + (i - Len(out_fifo))
    <2>1. out_fifo \in Seq(Nat) /\ wrote \in Nat /\ n \in Nat
      BY <1>0, <1>4
    <2>2. out_fifo' = out_fifo \o [i \in 1..n |-> wrote + i]
      BY <1>2
    <2>. QED
      BY ONLY <2>1, <2>2, Added, Zenon
  <1>5. /\ Len(out_fifo') = Len(out_fifo) + n
        /\ \A i \in 1..Len(out_fifo) : out_fifo'[i] = out_fifo[i]
        /\ \A i \in Len(out_fifo) + 1..Len(out_fifo) + n : out_fifo'[i] = wrote + (i - Len(out_fifo))
    BY <1>a, Zenon
  <1>6. LdtTypes'
    <2>1. /\ Len(out_fifo') <= FIFO_SIZE /\ wrote' \in 0..LdtMax
          /\ lpc' \in [LdtProcs -> {"user", "test", "sleep", "lock", "copy", "schedule"}]
      BY <1>1, <1>2, <1>3, <1>4, <1>5 DEF LdtInv, LdtTypes
    <2>2. write_lock' \in LdtWriters \cup {"none"}
      BY <1>1
    <2>. QED
      BY <1>1, <1>a, <2>1, <2>2, Zenon DEF LdtInv, LdtTypes
  <1>7. Registers'
    BY <1>1 DEF LdtInv, Registers
  <1>8. PartsWritten'
    <2>1. \A i \in 1..Len(in_fifo) : in_fifo[i] \in Nat /\ in_fifo[i] <= wrote
      BY <1>0 DEF LdtInv, PartsWritten
    <2>2. \A i \in 1..Len(out_fifo) : out_fifo[i] \in Nat /\ out_fifo[i] <= wrote
      BY <1>0 DEF LdtInv, PartsWritten
    <2>3. \A i \in 1..Len(in_fifo') : in_fifo'[i] <= wrote'
      BY <1>1, <1>2, <1>4, <2>1
    <2>4. ASSUME NEW i \in 1..Len(out_fifo')
          PROVE  out_fifo'[i] <= wrote'
      <3>1. CASE i <= Len(out_fifo)
        <4>1. i \in 1..Len(out_fifo)
          BY <1>3, <1>5, <3>1
        <4>2. out_fifo'[i] = out_fifo[i]
          BY <1>5, <4>1
        <4>. QED
          BY <1>2, <1>4, <2>2, <4>1, <4>2
      <3>2. CASE i > Len(out_fifo)
        <4>1. i \in Len(out_fifo) + 1..Len(out_fifo) + n
          BY <1>3, <1>4, <1>5, <3>2
        <4>2. out_fifo'[i] = wrote + (i - Len(out_fifo))
          BY <1>5, <4>1
        <4>. QED
          BY <1>2, <1>3, <1>4, <4>1, <4>2
      <3>. QED
        BY <1>3, <3>1, <3>2
    <2>5. got <= wrote' /\ rbr <= wrote' /\ thr <= wrote' /\ data_out <= wrote'
      BY <1>2, <1>3, <1>4 DEF LdtInv, PartsWritten
    <2>. QED
      BY <1>1, <2>3, <2>4, <2>5 DEF PartsWritten
  <1>9. PartsCounted'
    BY <1>1, <1>2, <1>3, <1>4, <1>5 DEF LdtInv, PartsCounted, One
  <1>10. PartsInOrder'
    <2>1. \A i \in 1..Len(in_fifo) : in_fifo[i] \in Nat
      BY <1>0
    <2>2. \A i \in 1..Len(out_fifo) : out_fifo[i] \in Nat
      BY <1>0
    <2>3. ASSUME NEW j \in 1..Len(out_fifo')
          PROVE  /\ got < out_fifo'[j] /\ rbr < out_fifo'[j] /\ thr < out_fifo'[j] /\ data_out < out_fifo'[j]
                 /\ \A i \in 1..Len(in_fifo) : in_fifo[i] < out_fifo'[j]
                 /\ \A i \in 1..Len(out_fifo') : i < j => out_fifo'[i] < out_fifo'[j]
      <3>1. CASE j <= Len(out_fifo)
        <4>1. j \in 1..Len(out_fifo) /\ out_fifo'[j] = out_fifo[j]
          BY <1>3, <1>5, <3>1
        <4>2. \A i \in 1..Len(out_fifo') : i < j => i \in 1..Len(out_fifo) /\ out_fifo'[i] = out_fifo[i]
          BY <1>3, <1>5, <3>1
        <4>. QED
          BY <4>1, <4>2, Zenon DEF LdtInv, PartsInOrder
      <3>2. CASE j > Len(out_fifo)
        <4>1. out_fifo'[j] = wrote + (j - Len(out_fifo)) /\ out_fifo'[j] > wrote
          <5>1. j \in Len(out_fifo) + 1..Len(out_fifo) + n
            BY <1>3, <1>4, <1>5, <3>2
          <5>2. out_fifo'[j] = wrote + (j - Len(out_fifo))
            BY <1>5, <5>1
          <5>. QED
            BY <1>3, <1>4, <3>2, <5>1, <5>2
        <4>2. ASSUME NEW i \in 1..Len(out_fifo'), i < j
              PROVE  out_fifo'[i] < out_fifo'[j]
          <5>1. CASE i <= Len(out_fifo)
            <6>1. i \in 1..Len(out_fifo) /\ out_fifo'[i] = out_fifo[i]
              BY <1>3, <1>5, <5>1
            <6>2. out_fifo[i] <= wrote /\ out_fifo[i] \in Nat
              BY <2>2, <6>1 DEF LdtInv, PartsWritten
            <6>3. wrote \in Nat /\ wrote + (j - Len(out_fifo)) \in Int
              BY <1>3, <1>4
            <6>. QED
              BY <4>1, <6>1, <6>2, <6>3
          <5>2. CASE i > Len(out_fifo)
            <6>1. i \in Len(out_fifo) + 1..Len(out_fifo) + n
              BY <1>3, <1>4, <1>5, <5>2
            <6>2. out_fifo'[i] = wrote + (i - Len(out_fifo))
              BY <1>5, <6>1
            <6>. QED
              BY <1>3, <1>4, <4>1, <4>2, <6>1, <6>2
          <5>. QED
            BY <1>3, <5>1, <5>2
        <4>. QED
          BY <1>3, <2>1, <4>1, <4>2, SMTT(30) DEF LdtInv, PartsWritten
      <3>. QED
        BY <1>3, <1>4, <1>5, <3>1, <3>2
    <2>. QED
      BY <1>1, <2>3, Zenon DEF LdtInv, PartsInOrder
  <1>11. LdtNoLostWakeup'
    <2>1. \A q \in LdtProcs : lpc'[q] = "sleep" => lpc[q] = "sleep"
      BY <1>1 DEF LdtInv, LdtTypes
    <2>2. Len(out_fifo) = FIFO_SIZE => Len(out_fifo') = FIFO_SIZE
      BY <1>3, <1>4, <1>5
    <2>. QED
      BY <1>1, <2>1, <2>2, Zenon DEF LdtInv, LdtNoLostWakeup, LdtProcs
  <1>. QED
    BY <1>6, <1>7, <1>8, <1>9, <1>10, <1>11 DEF LdtInv

\* kfifo_to_user takes the oldest bytes.
LEMMA LdtReadCopyInv ==
    ASSUME LdtInv, NEW p \in LdtProcs, LdtReadCopy(p)
    PROVE  LdtInv'
  <1>. USE LdtAssumption
  <1>1. /\ UNCHANGED <<out_fifo, uart_detected, loopback, thr, rbr, ldt_irq, ldt_tasklet, tasklet_pc,
                       data_out, write_lock, wrote, lost>>
        /\ lpc' = [lpc EXCEPT ![p] = "user"] /\ read_lock' = "none"
    BY Zenon DEF LdtReadCopy, LGoto, uart
  <1>2. PICK n \in 0..Len(in_fifo) :
           /\ in_fifo' = SubSeq(in_fifo, n + 1, Len(in_fifo))
           /\ got' = IF n = 0 THEN got ELSE in_fifo[n]
           /\ read' = read + n
    BY DEF LdtReadCopy
  <1>0. out_fifo \in Seq(Nat) /\ in_fifo \in Seq(Nat)
    BY DEF LdtInv, LdtTypes
  <1>a. /\ in_fifo' \in Seq(Nat) /\ Len(in_fifo') = Len(in_fifo) - n
        /\ \A i \in 1..Len(in_fifo) - n : in_fifo'[i] = in_fifo[i + n]
    BY ONLY <1>0, <1>2, Taken, Zenon
  <1>b. /\ \A i \in 1..Len(in_fifo) : in_fifo[i] \in Nat
        /\ \A i \in 1..Len(out_fifo) : out_fifo[i] \in Nat
    BY <1>0
  <1>3. /\ Len(in_fifo) \in Nat /\ Len(in_fifo) <= FIFO_SIZE /\ Len(out_fifo) \in Nat /\ n \in Nat
        /\ got \in Nat /\ rbr \in Nat /\ thr \in Nat /\ data_out \in Nat /\ read \in Nat /\ lost \in Nat
        /\ wrote \in Nat
    BY <1>2 DEF LdtInv, LdtTypes
  <1>4. /\ Len(in_fifo') = Len(in_fifo) - n
        /\ \A i \in 1..Len(in_fifo') : i + n \in 1..Len(in_fifo) /\ in_fifo'[i] = in_fifo[i + n]
    BY <1>3, <1>a
  <1>5. n # 0 => n \in 1..Len(in_fifo) /\ got' = in_fifo[n] /\ in_fifo[n] \in Nat
    BY <1>2, <1>b
  <1>6. LdtTypes'
    <2>1. got' \in Nat /\ read' \in Nat /\ Len(in_fifo') <= FIFO_SIZE
      BY <1>2, <1>3, <1>4, <1>5
    <2>2. lpc' \in [LdtProcs -> {"user", "test", "sleep", "lock", "copy", "schedule"}]
      BY <1>1 DEF LdtInv, LdtTypes
    <2>3. read_lock' \in LdtReaders \cup {"none"}
      BY <1>1
    <2>. QED
      BY <1>1, <1>a, <2>1, <2>2, <2>3, Zenon DEF LdtInv, LdtTypes
  <1>7. Registers'
    BY <1>1 DEF LdtInv, Registers
  <1>8. PartsWritten'
    BY <1>1, <1>2, <1>4, <1>5 DEF LdtInv, PartsWritten
  <1>9. PartsCounted'
    <2>1. One(rbr) \in Nat /\ One(thr) \in Nat /\ One(data_out) \in Nat
      BY DEF One
    <2>2. wrote = read + lost + Len(in_fifo) + One(rbr) + One(thr) + One(data_out) + Len(out_fifo)
      BY DEF LdtInv, PartsCounted
    <2>3. wrote = (read + n) + lost + (Len(in_fifo) - n) + One(rbr) + One(thr) + One(data_out) + Len(out_fifo)
      BY <1>3, <2>1, <2>2
    <2>. QED
      BY <1>1, <1>2, <1>4, <2>3, Zenon DEF PartsCounted, One
  <1>10. PartsInOrder'
    <2>1. \A b \in Nat : got < b /\ (\A i \in 1..Len(in_fifo) : in_fifo[i] < b)
                         => got' < b /\ \A i \in 1..Len(in_fifo') : in_fifo'[i] < b
      BY <1>2, <1>4, <1>5
    <2>2. ASSUME NEW i \in 1..Len(in_fifo')
          PROVE  got' < in_fifo'[i] /\ \A j \in 1..Len(in_fifo') : i < j => in_fifo'[i] < in_fifo'[j]
      <3>1. n # 0 => n < i + n
        BY <1>3, <1>4
      <3>2. got' < in_fifo'[i]
        BY <1>2, <1>4, <1>5, <3>1 DEF LdtInv, PartsInOrder
      <3>3. ASSUME NEW j \in 1..Len(in_fifo'), i < j
            PROVE  in_fifo'[i] < in_fifo'[j]
        <4>1. i + n < j + n
          BY <1>3, <1>4, <3>3
        <4>. QED
          BY <1>4, <4>1 DEF LdtInv, PartsInOrder
      <3>. QED
        BY <3>2, <3>3
    <2>3. \A j \in 1..Len(out_fifo) : got' < out_fifo[j] /\ \A i \in 1..Len(in_fifo') : in_fifo'[i] < out_fifo[j]
      BY <1>b, <2>1 DEF LdtInv, PartsInOrder
    <2>4. /\ rbr # 0 => got' < rbr /\ \A i \in 1..Len(in_fifo') : in_fifo'[i] < rbr
          /\ thr # 0 => got' < thr /\ \A i \in 1..Len(in_fifo') : in_fifo'[i] < thr
          /\ data_out # 0 => got' < data_out /\ \A i \in 1..Len(in_fifo') : in_fifo'[i] < data_out
      BY <1>3, <2>1 DEF LdtInv, PartsInOrder
    <2>. QED
      BY <1>1, <2>2, <2>3, <2>4, Zenon DEF LdtInv, PartsInOrder
  <1>11. LdtNoLostWakeup'
    <2>1. \A q \in LdtProcs : lpc'[q] = "sleep" => lpc[q] = "sleep"
      BY <1>1 DEF LdtInv, LdtTypes
    <2>2. in_fifo = <<>> => in_fifo' = <<>>
      BY <1>0, <1>3, <1>4, <1>a
    <2>. QED
      BY <1>1, <2>1, <2>2, Zenon DEF LdtInv, LdtNoLostWakeup, LdtProcs
  <1>. QED
    BY <1>6, <1>7, <1>8, <1>9, <1>10, <1>11 DEF LdtInv

-----------------------------------------------------------------------------
\* The interrupt, the timer and the start of the tasklet move no byte.
LEMMA LdtScheduleInv ==
    ASSUME LdtInv, TaskletRun \/ LdtIsr \/ LdtTimer \/ UNCHANGED ldtVars
    PROVE  LdtInv'
  <1>1. /\ UNCHANGED <<out_fifo, in_fifo, uart_detected, loopback, thr, rbr, data_out, lpc, write_lock,
                       read_lock, wrote, got, read, lost>>
        /\ \/ tasklet_pc' = tasklet_pc
           \/ tasklet_pc = "idle" /\ tasklet_pc' = "out"
    BY DEF TaskletRun, LdtIsr, LdtTimer, ldtVars, fifos, uart, locks, counts
  <1>2. ldt_tasklet' \in BOOLEAN /\ ldt_irq' \in BOOLEAN
    <2>1. ldt_tasklet \in BOOLEAN /\ ldt_irq \in BOOLEAN
      BY Zenon DEF LdtInv, LdtTypes
    <2>2. CASE TaskletRun
      BY <2>1, <2>2, Zenon DEF TaskletRun, uart
    <2>3. CASE LdtIsr
      BY <2>1, <2>3, Zenon DEF LdtIsr
    <2>4. CASE LdtTimer
      BY <2>1, <2>4, Zenon DEF LdtTimer, uart
    <2>5. CASE UNCHANGED ldtVars
      BY <2>1, <2>5, Zenon DEF ldtVars, uart
    <2>. QED
      BY <2>2, <2>3, <2>4, <2>5
  <1>3. LdtTypes'
    <2>1. tasklet_pc' \in {"idle", "out", "send", "in"}
      BY <1>1 DEF LdtInv, LdtTypes
    <2>. QED
      BY <1>1, <1>2, <2>1, Zenon DEF LdtInv, LdtTypes
  <1>4. LdtNoLostWakeup'
    BY <1>1, Zenon DEF LdtInv, LdtNoLostWakeup
  <1>5. tasklet_pc' = tasklet_pc \/ (tasklet_pc # "send" /\ tasklet_pc' # "send")
    BY <1>1
  <1>. QED
    BY <1>1, <1>3, <1>4, <1>5, BytesQuiet DEF LdtInv

\* A byte is taken from out_fifo.
LEMMA TaskletOutInv ==
    ASSUME LdtInv, TaskletOut
    PROVE  LdtInv'
  <1>. USE LdtAssumption
  <1>0. /\ tasklet_pc = "out"
        /\ UNCHANGED <<in_fifo, uart_detected, loopback, thr, rbr, ldt_irq, ldt_tasklet, write_lock, read_lock,
                       wrote, got, read, lost>>
    BY Zenon DEF TaskletOut, uart, locks, counts
  <1>1. CASE ~(out_fifo # <<>> /\ (uart_detected => thr = 0))
    <2>1. tasklet_pc' = "in" /\ UNCHANGED <<out_fifo, data_out, lpc>>
      BY <1>1, Zenon DEF TaskletOut
    <2>2. LdtTypes'
      <3>1. tasklet_pc' \in {"idle", "out", "send", "in"}
        BY <2>1
      <3>. QED
        BY <1>0, <2>1, <3>1, Zenon DEF LdtInv, LdtTypes
    <2>3. LdtNoLostWakeup'
      BY <1>0, <2>1, Zenon DEF LdtInv, LdtNoLostWakeup
    <2>4. tasklet_pc # "send" /\ tasklet_pc' # "send"
      BY <1>0, <2>1
    <2>. QED
      BY <1>0, <2>1, <2>2, <2>3, <2>4, BytesQuiet DEF LdtInv
  <1>2. CASE out_fifo # <<>> /\ (uart_detected => thr = 0)
    <2>1. /\ data_out' = Head(out_fifo) /\ out_fifo' = Tail(out_fifo)
          /\ lpc' = Woken(LdtWriters) /\ tasklet_pc' = "send"
      BY <1>2, Zenon DEF TaskletOut
    <2>2. out_fifo \in Seq(Nat) /\ in_fifo \in Seq(Nat)
      BY DEF LdtInv, LdtTypes
    <2>3. /\ out_fifo' \in Seq(Nat) /\ Len(out_fifo') = Len(out_fifo) - 1
          /\ data_out' \in Nat /\ \A i \in 1..Len(out_fifo') : out_fifo'[i] = out_fifo[i + 1]
      BY ONLY <1>2, <2>1, <2>2, HeadTailProperties, Zenon
    <2>4. data_out' = out_fifo[1] /\ Len(out_fifo) \in Nat \ {0} /\ Len(in_fifo) \in Nat
      BY <1>2, <2>1, <2>2
    <2>5. data_out = 0
      BY <1>0 DEF LdtInv, Registers
    <2>6. /\ 1 \in 1..Len(out_fifo)
          /\ \A i \in 1..Len(out_fifo') : i + 1 \in 1..Len(out_fifo) /\ 1 < i + 1 /\ out_fifo'[i] = out_fifo[i + 1]
      BY <2>3, <2>4
    <2>7. got \in Nat /\ got < data_out' /\ data_out' # 0
      BY <2>3, <2>4, <2>6 DEF LdtInv, LdtTypes, PartsInOrder
    <2>8. LdtTypes'
      <3>1. /\ Len(out_fifo') <= FIFO_SIZE /\ tasklet_pc' \in {"idle", "out", "send", "in"}
        BY <2>1, <2>3, <2>4 DEF LdtInv, LdtTypes
      <3>2. lpc' \in [LdtProcs -> {"user", "test", "sleep", "lock", "copy", "schedule"}]
        BY <2>1, WokenLabels DEF LdtInv, LdtProcs
      <3>. QED
        BY <1>0, <2>3, <3>1, <3>2, Zenon DEF LdtInv, LdtTypes
    <2>9. Registers'
      BY <1>0, <1>2, <2>1, <2>7 DEF LdtInv, Registers
    <2>10. PartsWritten'
      BY <1>0, <2>4, <2>6 DEF LdtInv, PartsWritten
    <2>11. PartsCounted'
      <3>1. /\ wrote \in Nat /\ read \in Nat /\ lost \in Nat /\ One(rbr) \in Nat /\ One(thr) \in Nat
            /\ One(data_out) = 0 /\ One(data_out') = 1
        BY <2>5, <2>7 DEF One, LdtInv, LdtTypes
      <3>2. wrote = read + lost + Len(in_fifo) + One(rbr) + One(thr) + One(data_out) + Len(out_fifo)
        BY DEF LdtInv, PartsCounted
      <3>3. wrote = read + lost + Len(in_fifo) + One(rbr) + One(thr) + One(data_out') + Len(out_fifo')
        BY <2>3, <2>4, <3>1, <3>2
      <3>. QED
        BY <1>0, <3>3 DEF PartsCounted, One
    <2>12. PartsInOrder'
      <3>1. ASSUME NEW j \in 1..Len(out_fifo')
            PROVE  /\ got < out_fifo'[j] /\ rbr < out_fifo'[j] /\ thr < out_fifo'[j] /\ data_out' < out_fifo'[j]
                   /\ \A i \in 1..Len(in_fifo) : in_fifo[i] < out_fifo'[j]
        BY <2>4, <2>6 DEF LdtInv, PartsInOrder
      <3>2. ASSUME NEW j \in 1..Len(out_fifo'), NEW i \in 1..Len(out_fifo'), i < j
            PROVE  out_fifo'[i] < out_fifo'[j]
        <4>1. i + 1 < j + 1
          BY <2>3, <2>4, <3>2
        <4>. QED
          BY <2>6, <4>1 DEF LdtInv, PartsInOrder
      <3>3. /\ got < data_out' /\ rbr < data_out' /\ thr < data_out'
            /\ \A i \in 1..Len(in_fifo) : in_fifo[i] < data_out'
        BY <2>4, <2>6 DEF LdtInv, PartsInOrder
      <3>. QED
        BY <1>0, <3>1, <3>2, <3>3, Zenon DEF LdtInv, PartsInOrder
    <2>13. LdtNoLostWakeup'
      <3>1. \A q \in LdtProcs : lpc'[q] = "sleep" => lpc[q] = "sleep" /\ q \notin LdtWriters
        BY <2>1, WokenLabels DEF LdtInv, LdtProcs
      <3>. QED
        BY <1>0, <3>1, Zenon DEF LdtInv, LdtNoLostWakeup, LdtProcs
    <2>. QED
      BY <2>8, <2>9, <2>10, <2>11, <2>12, <2>13 DEF LdtInv
  <1>. QED
    BY <1>1, <1>2

\* What ldt_received does.
LEMMA Received ==
    ASSUME LdtTypes, NEW b \in Nat, ldt_received(b)
    PROVE  /\ \/ /\ Len(in_fifo) < FIFO_SIZE /\ in_fifo' \in Seq(Nat) /\ Len(in_fifo') = Len(in_fifo) + 1
                 /\ lost' = lost
                 /\ \A i \in 1..Len(in_fifo) : in_fifo'[i] = in_fifo[i]
                 /\ in_fifo'[Len(in_fifo) + 1] = b
              \/ in_fifo' = in_fifo /\ lost' = lost + 1
           /\ lpc' \in [LdtProcs -> {"user", "test", "sleep", "lock", "copy", "schedule"}]
           /\ \A q \in LdtProcs : lpc'[q] = "sleep" => lpc[q] = "sleep" /\ q \notin LdtReaders
  <1>1. CASE Len(in_fifo) < FIFO_SIZE
    <2>1. in_fifo' = Append(in_fifo, b) /\ lost' = lost /\ in_fifo \in Seq(Nat)
      BY <1>1 DEF ldt_received, LdtTypes
    <2>2. /\ in_fifo' \in Seq(Nat) /\ Len(in_fifo') = Len(in_fifo) + 1
          /\ \A i \in 1..Len(in_fifo) : in_fifo'[i] = in_fifo[i]
          /\ in_fifo'[Len(in_fifo) + 1] = b
      BY ONLY <2>1, b \in Nat, AppendProperties, ZenonT(40)
    <2>3. lpc' = Woken(LdtReaders)
      BY DEF ldt_received
    <2>. QED
      BY <1>1, <2>1, <2>2, <2>3, WokenLabels, Zenon DEF LdtProcs
  <1>2. CASE ~(Len(in_fifo) < FIFO_SIZE)
    <2>1. in_fifo' = in_fifo /\ lost' = lost + 1 /\ lpc' = Woken(LdtReaders)
      BY <1>2 DEF ldt_received
    <2>. QED
      BY <2>1, WokenLabels, Zenon DEF LdtProcs
  <1>. QED
    BY <1>1, <1>2

\* A byte that comes next after in_fifo is received there, or lost.
LEMMA ReceivedInOrder ==
    ASSUME LdtInv, NEW b \in Nat, b # 0, b <= wrote, ldt_received(b), got < b,
           \A i \in 1..Len(in_fifo) : in_fifo[i] < b
    PROVE  /\ in_fifo' \in Seq(Nat) /\ Len(in_fifo') <= FIFO_SIZE /\ lost' \in Nat
           /\ \A i \in 1..Len(in_fifo') : in_fifo'[i] <= wrote
           /\ \A i \in 1..Len(in_fifo') :
                 got < in_fifo'[i] /\ \A j \in 1..Len(in_fifo') : i < j => in_fifo'[i] < in_fifo'[j]
           /\ \A c \in Nat : b < c /\ (\A i \in 1..Len(in_fifo) : in_fifo[i] < c)
                             => \A i \in 1..Len(in_fifo') : in_fifo'[i] < c
           /\ lost' + Len(in_fifo') = lost + Len(in_fifo) + 1
           /\ lpc' \in [LdtProcs -> {"user", "test", "sleep", "lock", "copy", "schedule"}]
           /\ \A q \in LdtProcs : lpc'[q] = "sleep" => lpc[q] = "sleep" /\ q \notin LdtReaders
  <1>. USE LdtAssumption
  <1>0. /\ in_fifo \in Seq(Nat) /\ lost \in Nat /\ Len(in_fifo) <= FIFO_SIZE /\ wrote \in Nat /\ got \in Nat
        /\ LdtTypes /\ Len(in_fifo) \in Nat
    BY DEF LdtInv, LdtTypes
  <1>1. /\ \A i \in 1..Len(in_fifo) : in_fifo[i] \in Nat /\ in_fifo[i] <= wrote
        /\ \A i \in 1..Len(in_fifo) :
              got < in_fifo[i] /\ \A j \in 1..Len(in_fifo) : i < j => in_fifo[i] < in_fifo[j]
    BY <1>0 DEF LdtInv, PartsWritten, PartsInOrder
  <1>2. CASE in_fifo' = in_fifo /\ lost' = lost + 1
    <2>1. lost' \in Nat /\ lost' + Len(in_fifo') = lost + Len(in_fifo) + 1
      BY <1>0, <1>2
    <2>. QED
      BY <1>0, <1>1, <1>2, <2>1, Received, Zenon
  <1>3. CASE /\ Len(in_fifo) < FIFO_SIZE /\ in_fifo' \in Seq(Nat) /\ Len(in_fifo') = Len(in_fifo) + 1
             /\ lost' = lost
             /\ \A i \in 1..Len(in_fifo) : in_fifo'[i] = in_fifo[i]
             /\ in_fifo'[Len(in_fifo) + 1] = b
    <2>1. \A i \in 1..Len(in_fifo') : \/ i \in 1..Len(in_fifo) /\ in_fifo'[i] = in_fifo[i]
                                      \/ i = Len(in_fifo) + 1 /\ in_fifo'[i] = b
      BY <1>0, <1>3
    <2>2. ASSUME NEW i \in 1..Len(in_fifo')
          PROVE  in_fifo'[i] <= wrote /\ got < in_fifo'[i]
      BY <1>1, <2>1
    <2>3. ASSUME NEW i \in 1..Len(in_fifo'), NEW j \in 1..Len(in_fifo'), i < j
          PROVE  in_fifo'[i] < in_fifo'[j]
      <3>1. i \in 1..Len(in_fifo)
        BY <1>0, <1>3, <2>3
      <3>2. in_fifo'[i] = in_fifo[i]
        BY <1>3, <3>1
      <3>. QED
        BY <1>1, <2>1, <2>3, <3>1, <3>2
    <2>4. ASSUME NEW c \in Nat, b < c, \A i \in 1..Len(in_fifo) : in_fifo[i] < c
          PROVE  \A i \in 1..Len(in_fifo') : in_fifo'[i] < c
      BY <2>1, <2>4
    <2>5. Len(in_fifo') <= FIFO_SIZE /\ lost' \in Nat /\ lost' + Len(in_fifo') = lost + Len(in_fifo) + 1
      BY <1>0, <1>3
    <2>6. /\ lpc' \in [LdtProcs -> {"user", "test", "sleep", "lock", "copy", "schedule"}]
          /\ \A q \in LdtProcs : lpc'[q] = "sleep" => lpc[q] = "sleep" /\ q \notin LdtReaders
      BY <1>0, Received, Zenon
    <2>. QED
      BY <1>3, <2>2, <2>3, <2>4, <2>5, <2>6, Zenon
  <1>. QED
    BY <1>0, <1>2, <1>3, Received, Zenon

\* The numbers of the invariant, for the steps that move a byte between registers.
LEMMA LdtNumbers ==
    ASSUME LdtInv
    PROVE  /\ in_fifo \in Seq(Nat) /\ out_fifo \in Seq(Nat) /\ Len(in_fifo) \in Nat /\ Len(out_fifo) \in Nat
           /\ got \in Nat /\ rbr \in Nat /\ thr \in Nat /\ data_out \in Nat /\ wrote \in Nat
           /\ read \in Nat /\ lost \in Nat /\ FIFO_SIZE \in Nat
           /\ One(rbr) \in Nat /\ One(thr) \in Nat /\ One(data_out) \in Nat
           /\ \A i \in 1..Len(in_fifo) : in_fifo[i] \in Nat
           /\ \A j \in 1..Len(out_fifo) : out_fifo[j] \in Nat /\ 0 < out_fifo[j]
           /\ wrote = read + lost + Len(in_fifo) + One(rbr) + One(thr) + One(data_out) + Len(out_fifo)
  <1>. USE LdtAssumption
  <1>1. /\ in_fifo \in Seq(Nat) /\ out_fifo \in Seq(Nat) /\ Len(in_fifo) \in Nat /\ Len(out_fifo) \in Nat
        /\ got \in Nat /\ rbr \in Nat /\ thr \in Nat /\ data_out \in Nat /\ wrote \in Nat
        /\ read \in Nat /\ lost \in Nat /\ FIFO_SIZE \in Nat
        /\ \A i \in 1..Len(in_fifo) : in_fifo[i] \in Nat
        /\ \A j \in 1..Len(out_fifo) : out_fifo[j] \in Nat
    BY DEF LdtInv, LdtTypes
  <1>2. \A j \in 1..Len(out_fifo) : got < out_fifo[j]
    BY Zenon DEF LdtInv, PartsInOrder
  <1>3. One(rbr) \in Nat /\ One(thr) \in Nat /\ One(data_out) \in Nat
    BY DEF One
  <1>4. wrote = read + lost + Len(in_fifo) + One(rbr) + One(thr) + One(data_out) + Len(out_fifo)
    BY Zenon DEF LdtInv, PartsCounted
  <1>5. \A j \in 1..Len(out_fifo) : 0 < out_fifo[j]
    BY <1>1, <1>2
  <1>. QED
    BY <1>1, <1>3, <1>4, <1>5, Zenon

\* The balance of the bytes, as numbers only.
LEMMA LdtCounts ==
    ASSUME LdtInv
    PROVE  /\ Len(in_fifo) \in Nat /\ Len(out_fifo) \in Nat /\ read \in Nat /\ lost \in Nat
           /\ One(rbr) \in Nat /\ One(thr) \in Nat /\ One(data_out) \in Nat
           /\ wrote = read + lost + Len(in_fifo) + One(rbr) + One(thr) + One(data_out) + Len(out_fifo)
  BY LdtNumbers, Zenon

\* The tasklet moves the head of out_fifo towards the UART.
LEMMA TaskletSendInv ==
    ASSUME LdtInv, TaskletSend
    PROVE  LdtInv'
  <1>0. /\ tasklet_pc = "send" /\ tasklet_pc' = "out" /\ data_out' = 0
        /\ UNCHANGED <<out_fifo, uart_detected, loopback, rbr, ldt_irq, ldt_tasklet, write_lock, read_lock,
                       wrote, got, read>>
    BY Zenon DEF TaskletSend, locks
  <1>1. data_out # 0 /\ tasklet_pc' \in {"idle", "out", "send", "in"} /\ 0 \in Nat /\ data_out' \in Nat
    BY <1>0 DEF LdtInv, Registers
  <1>2. /\ got < data_out /\ rbr < data_out /\ thr < data_out
        /\ \A i \in 1..Len(in_fifo) : in_fifo[i] < data_out
        /\ data_out <= wrote
    BY <1>1, Zenon DEF LdtInv, PartsInOrder, PartsWritten
  <1>3. CASE uart_detected /\ thr' = data_out /\ UNCHANGED <<in_fifo, lost, lpc>>
    <2>1. thr = 0 /\ thr' \in Nat
      BY <1>0, <1>3, LdtNumbers DEF LdtInv, Registers
    <2>2. LdtTypes'
      BY <1>0, <1>1, <1>3, <2>1, Zenon DEF LdtInv, LdtTypes
    <2>3. Registers'
      BY <1>0, <1>3 DEF LdtInv, Registers
    <2>4. PartsInOrder'
      <3>1. rbr < thr' /\ thr' # 0
        BY <1>1, <1>2, <1>3
      <3>. QED
        BY <1>0, <1>2, <1>3, <3>1, LdtNumbers, Zenon DEF LdtInv, PartsInOrder
    <2>5. PartsWritten'
      BY <1>0, <1>2, <1>3, LdtNumbers DEF LdtInv, PartsWritten
    <2>6. PartsCounted'
      <3>1. One(thr) = 0 /\ One(thr') = 1 /\ One(data_out) = 1 /\ One(data_out') = 0
        BY <1>0, <1>1, <1>3, <2>1 DEF One
      <3>2. wrote = read + lost + Len(in_fifo) + One(rbr) + One(thr') + One(data_out') + Len(out_fifo)
        BY <3>1, LdtCounts
      <3>. QED
        BY <1>0, <1>3, <3>2, Zenon DEF PartsCounted, One
    <2>7. LdtNoLostWakeup'
      BY <1>0, <1>3, Zenon DEF LdtInv, LdtNoLostWakeup
    <2>. QED
      BY <2>2, <2>3, <2>4, <2>5, <2>6, <2>7 DEF LdtInv
  <1>4. CASE ~uart_detected /\ loopback /\ ldt_received(data_out) /\ UNCHANGED thr
    <2>1. thr = 0 /\ rbr = 0 /\ data_out \in Nat
      BY <1>4, LdtNumbers, Zenon DEF LdtInv, Registers
    <2>2. /\ in_fifo' \in Seq(Nat) /\ Len(in_fifo') <= FIFO_SIZE /\ lost' \in Nat
          /\ \A i \in 1..Len(in_fifo') : in_fifo'[i] <= wrote
          /\ \A i \in 1..Len(in_fifo') :
                got < in_fifo'[i] /\ \A j \in 1..Len(in_fifo') : i < j => in_fifo'[i] < in_fifo'[j]
          /\ \A c \in Nat : data_out < c /\ (\A i \in 1..Len(in_fifo) : in_fifo[i] < c)
                            => \A i \in 1..Len(in_fifo') : in_fifo'[i] < c
          /\ lost' + Len(in_fifo') = lost + Len(in_fifo) + 1
          /\ lpc' \in [LdtProcs -> {"user", "test", "sleep", "lock", "copy", "schedule"}]
          /\ \A q \in LdtProcs : lpc'[q] = "sleep" => lpc[q] = "sleep" /\ q \notin LdtReaders
      BY <1>1, <1>2, <1>4, <2>1, ReceivedInOrder, Zenon
    <2>3. LdtTypes'
      BY <1>0, <1>1, <1>4, <2>2, Zenon DEF LdtInv, LdtTypes
    <2>4. Registers'
      BY <1>0, <1>4 DEF LdtInv, Registers
    <2>5. PartsInOrder'
      <3>1. \A j \in 1..Len(out_fifo) : \A i \in 1..Len(in_fifo') : in_fifo'[i] < out_fifo[j]
        BY <2>2, LdtNumbers, Zenon DEF LdtInv, PartsInOrder
      <3>. QED
        BY <1>0, <1>4, <2>1, <2>2, <3>1, LdtNumbers, Zenon DEF LdtInv, PartsInOrder
    <2>6. PartsWritten'
      BY <1>0, <1>4, <2>2, LdtNumbers DEF LdtInv, PartsWritten
    <2>7. PartsCounted'
      <3>1. One(data_out) = 1 /\ One(data_out') = 0
        BY <1>0, <1>1 DEF One
      <3>2. Len(in_fifo') \in Nat
        BY <2>2
      <3>3. wrote = read + lost' + Len(in_fifo') + One(rbr) + One(thr) + One(data_out') + Len(out_fifo)
        <4>1. lost' \in Nat /\ lost' + Len(in_fifo') = lost + Len(in_fifo) + 1
          BY <2>2, Zenon
        <4>. QED
          <5>. DEFINE i == Len(in_fifo)  a == One(rbr)  b == One(thr)  d == One(data_out)
                      o == Len(out_fifo)  j == Len(in_fifo')
          <5>1. /\ read \in Nat /\ lost \in Nat /\ i \in Nat /\ a \in Nat /\ b \in Nat /\ d \in Nat /\ o \in Nat
                /\ lost' \in Nat /\ j \in Nat /\ lost' + j = lost + i + 1
                /\ wrote = read + lost + i + a + b + d + o /\ d = 1 /\ One(data_out') = 0
            BY <3>1, <3>2, <4>1, LdtCounts, Zenon
          <5>. HIDE DEF i, a, b, d, o, j
          <5>2. wrote = read + lost' + j + a + b + 0 + o
            <6>1. read + lost + i + a + b + d + o = read + (lost + i + 1) + a + b + o
              BY ONLY <5>1
            <6>2. read + lost' + j + a + b + 0 + o = read + (lost' + j) + a + b + o
              BY ONLY <5>1
            <6>. QED
              BY ONLY <5>1, <6>1, <6>2
          <5>. QED
            BY <5>1, <5>2, Zenon DEF i, a, b, d, o, j
      <3>. QED
        BY <1>0, <1>4, <3>3, Zenon DEF PartsCounted, One
    <2>8. LdtNoLostWakeup'
      BY <1>0, <2>2, Zenon DEF LdtInv, LdtNoLostWakeup, LdtProcs
    <2>. QED
      BY <2>3, <2>4, <2>5, <2>6, <2>7, <2>8 DEF LdtInv
  <1>5. CASE ~uart_detected /\ ~loopback /\ lost' = lost + 1 /\ UNCHANGED <<in_fifo, lpc, thr>>
    <2>1. lost' \in Nat
      BY <1>5, LdtCounts
    <2>2. LdtTypes'
      BY <1>0, <1>1, <1>5, <2>1, Zenon DEF LdtInv, LdtTypes
    <2>3. Registers'
      BY <1>0, <1>5 DEF LdtInv, Registers
    <2>4. PartsInOrder'
      BY <1>0, <1>5, LdtNumbers, Zenon DEF LdtInv, PartsInOrder
    <2>5. PartsWritten'
      BY <1>0, <1>5, LdtNumbers DEF LdtInv, PartsWritten
    <2>6. PartsCounted'
      <3>1. One(data_out) = 1 /\ One(data_out') = 0
        BY <1>0, <1>1 DEF One
      <3>2. wrote = read + lost' + Len(in_fifo) + One(rbr) + One(thr) + One(data_out') + Len(out_fifo)
        BY <1>5, <3>1, LdtCounts, SMTT(30)
      <3>. QED
        BY <1>0, <1>5, <3>2, Zenon DEF PartsCounted, One
    <2>7. LdtNoLostWakeup'
      BY <1>0, <1>5, Zenon DEF LdtInv, LdtNoLostWakeup
    <2>. QED
      BY <2>2, <2>3, <2>4, <2>5, <2>6, <2>7 DEF LdtInv
  <1>. QED
    BY <1>3, <1>4, <1>5, Zenon DEF TaskletSend

\* The tasklet moves what the UART received into in_fifo, or counts it as lost.
LEMMA TaskletInInv ==
    ASSUME LdtInv, TaskletIn
    PROVE  LdtInv'
  <1>0. /\ tasklet_pc = "in"
        /\ UNCHANGED <<out_fifo, uart_detected, loopback, thr, ldt_irq, ldt_tasklet, data_out, write_lock,
                       read_lock, wrote, got, read>>
    BY Zenon DEF TaskletIn, locks
  <1>1. CASE rbr = 0
    <2>1. tasklet_pc' = "idle" /\ UNCHANGED <<rbr, in_fifo, lost, lpc>>
      BY <1>1, Zenon DEF TaskletIn
    <2>2. tasklet_pc # "send" /\ tasklet_pc' # "send" /\ tasklet_pc' \in {"idle", "out", "send", "in"}
      BY <1>0, <2>1
    <2>3. LdtTypes'
      BY <1>0, <2>1, <2>2, Zenon DEF LdtInv, LdtTypes
    <2>4. LdtNoLostWakeup'
      BY <1>0, <2>1, Zenon DEF LdtInv, LdtNoLostWakeup
    <2>. QED
      BY <1>0, <2>1, <2>2, <2>3, <2>4, BytesQuiet DEF LdtInv
  <1>2. CASE rbr # 0
    <2>0. ldt_received(rbr) /\ rbr' = 0 /\ UNCHANGED tasklet_pc
      BY <1>2, Zenon DEF TaskletIn
    <2>1. got < rbr /\ (\A i \in 1..Len(in_fifo) : in_fifo[i] < rbr) /\ rbr <= wrote /\ rbr \in Nat
      BY <1>2, LdtNumbers, Zenon DEF LdtInv, PartsInOrder, PartsWritten
    <2>2. /\ in_fifo' \in Seq(Nat) /\ Len(in_fifo') <= FIFO_SIZE /\ lost' \in Nat
          /\ \A i \in 1..Len(in_fifo') : in_fifo'[i] <= wrote
          /\ \A i \in 1..Len(in_fifo') :
                got < in_fifo'[i] /\ \A j \in 1..Len(in_fifo') : i < j => in_fifo'[i] < in_fifo'[j]
          /\ \A c \in Nat : rbr < c /\ (\A i \in 1..Len(in_fifo) : in_fifo[i] < c)
                            => \A i \in 1..Len(in_fifo') : in_fifo'[i] < c
          /\ lost' + Len(in_fifo') = lost + Len(in_fifo) + 1
          /\ lpc' \in [LdtProcs -> {"user", "test", "sleep", "lock", "copy", "schedule"}]
          /\ \A q \in LdtProcs : lpc'[q] = "sleep" => lpc[q] = "sleep" /\ q \notin LdtReaders
      BY <1>2, <2>0, <2>1, ReceivedInOrder, Zenon
    <2>3. LdtTypes'
      <3>1. rbr' \in Nat
        BY <2>0
      <3>. QED
        BY <1>0, <2>0, <2>2, <3>1, Zenon DEF LdtInv, LdtTypes
    <2>4. Registers'
      BY <1>0, <2>0 DEF LdtInv, Registers
    <2>5. PartsInOrder'
      <3>1. /\ \A j \in 1..Len(out_fifo) : \A i \in 1..Len(in_fifo') : in_fifo'[i] < out_fifo[j]
            /\ thr # 0 => \A i \in 1..Len(in_fifo') : in_fifo'[i] < thr
            /\ data_out # 0 => \A i \in 1..Len(in_fifo') : in_fifo'[i] < data_out
        BY <2>2, LdtNumbers, Zenon DEF LdtInv, PartsInOrder
      <3>2. (thr # 0 => 0 < thr) /\ (data_out # 0 => 0 < data_out)
        BY LdtNumbers, SMTT(30)
      <3>. QED
        BY <1>0, <2>0, <2>2, <3>1, <3>2, LdtNumbers, Zenon DEF LdtInv, PartsInOrder
    <2>6. PartsWritten'
      BY <1>0, <2>0, <2>2, LdtNumbers DEF LdtInv, PartsWritten
    <2>7. PartsCounted'
      <3>1. One(rbr) = 1 /\ One(rbr') = 0
        BY <1>2, <2>0 DEF One
      <3>2. Len(in_fifo') \in Nat
        BY <2>2
      <3>3. wrote = read + lost' + Len(in_fifo') + One(rbr') + One(thr) + One(data_out) + Len(out_fifo)
        <4>1. lost' \in Nat /\ lost' + Len(in_fifo') = lost + Len(in_fifo) + 1
          BY <2>2, Zenon
        <4>. QED
          <5>. DEFINE i == Len(in_fifo)  a == One(rbr)  b == One(thr)  d == One(data_out)
                      o == Len(out_fifo)  j == Len(in_fifo')
          <5>1. /\ read \in Nat /\ lost \in Nat /\ i \in Nat /\ a \in Nat /\ b \in Nat /\ d \in Nat /\ o \in Nat
                /\ lost' \in Nat /\ j \in Nat /\ lost' + j = lost + i + 1
                /\ wrote = read + lost + i + a + b + d + o /\ a = 1 /\ One(rbr') = 0
            BY <3>1, <3>2, <4>1, LdtCounts, Zenon
          <5>. HIDE DEF i, a, b, d, o, j
          <5>2. wrote = read + lost' + j + 0 + b + d + o
            <6>1. read + lost + i + a + b + d + o = read + (lost + i + 1) + b + d + o
              BY ONLY <5>1
            <6>2. read + lost' + j + 0 + b + d + o = read + (lost' + j) + b + d + o
              BY ONLY <5>1
            <6>. QED
              BY ONLY <5>1, <6>1, <6>2
          <5>. QED
            BY <5>1, <5>2, Zenon DEF i, a, b, d, o, j
      <3>. QED
        BY <1>0, <3>3, Zenon DEF PartsCounted, One
    <2>8. LdtNoLostWakeup'
      BY <1>0, <2>2, Zenon DEF LdtInv, LdtNoLostWakeup, LdtProcs
    <2>. QED
      BY <2>3, <2>4, <2>5, <2>6, <2>7, <2>8 DEF LdtInv
  <1>. QED
    BY <1>1, <1>2

\* The UART moves its byte on, over one that was not taken in time.
LEMMA UartShiftInv ==
    ASSUME LdtInv, UartShift
    PROVE  LdtInv'
  <1>0. /\ thr # 0 /\ rbr' = thr /\ thr' = 0 /\ lost' = (IF rbr = 0 THEN lost ELSE lost + 1)
        /\ UNCHANGED <<out_fifo, in_fifo, uart_detected, loopback, ldt_tasklet, tasklet_pc, data_out, lpc,
                       write_lock, read_lock, wrote, got, read>>
    BY Zenon DEF UartShift, fifos, locks
  <1>1. /\ got < thr /\ rbr < thr /\ thr <= wrote
        /\ \A i \in 1..Len(in_fifo) : in_fifo[i] < thr
    BY <1>0, Zenon DEF LdtInv, PartsInOrder, PartsWritten
  <1>2. lost' \in Nat /\ 0 \in Nat
    BY <1>0, LdtCounts
  <1>3. LdtTypes'
    <2>1. ldt_irq' \in BOOLEAN
      BY Zenon DEF UartShift
    <2>2. rbr' \in Nat /\ thr' \in Nat
      BY <1>0, <1>2, LdtNumbers, Zenon
    <2>. QED
      BY <1>0, <1>2, <2>1, <2>2, Zenon DEF LdtInv, LdtTypes
  <1>4. Registers'
    BY <1>0 DEF LdtInv, Registers
  <1>5. PartsInOrder'
    <2>1. data_out # 0 => 0 < data_out
      BY LdtNumbers
    <2>. QED
      BY <1>0, <1>1, <2>1, LdtNumbers, Zenon DEF LdtInv, PartsInOrder
  <1>6. PartsWritten'
    BY <1>0, <1>1, LdtNumbers DEF LdtInv, PartsWritten
  <1>7. PartsCounted'
    <2>1. One(thr) = 1 /\ One(thr') = 0 /\ One(rbr') = 1 /\ lost' = lost + One(rbr)
      BY <1>0, LdtCounts DEF One
    <2>2. wrote = read + lost' + Len(in_fifo) + One(rbr') + One(thr') + One(data_out) + Len(out_fifo)
      BY <2>1, LdtCounts
    <2>. QED
      BY <1>0, <2>2, Zenon DEF PartsCounted, One
  <1>8. LdtNoLostWakeup'
    BY <1>0, Zenon DEF LdtInv, LdtNoLostWakeup
  <1>. QED
    BY <1>3, <1>4, <1>5, <1>6, <1>7, <1>8 DEF LdtInv

\* The invariant is inductive.
LEMMA LdtNextInv == LdtInv /\ [LdtNext]_ldtVars => LdtInv'
  BY LdtTestInv, LdtLockInv, LdtWriteCopyInv, LdtReadCopyInv, LdtScheduleInv, TaskletOutInv, TaskletSendInv,
     TaskletInInv, UartShiftInv
  DEF LdtNext, LdtFile, Tasklet

-----------------------------------------------------------------------------
(* The composition.  A step of the machine is a step of the driver that is *)
(* loaded, and leaves the others alone: each driver's invariant is kept by *)
(* its own lemma.                                                          *)

DriversInv ==
    /\ ShortInv /\ ShortpInv /\ LdtInv /\ SbullInv /\ SkelInv /\ PrivInv /\ SetupInv

\* To each driver, a step of the machine is one of its own steps or none.
LEMMA DriverSteps ==
    ASSUME [DriversNext]_driversVars
    PROVE  /\ [ShortNext]_shortVars /\ [ShortpNext]_shortpVars /\ [LdtNext]_ldtVars
           /\ [SbullNext]_sbullVars /\ [SkelNext]_skelVars /\ [PrivNext]_privVars
           /\ [SetupNext]_setupVars
  <1>1. CASE UNCHANGED driversVars
    BY <1>1 DEF driversVars
  <1>2. CASE DriversNext
    BY <1>2 DEF DriversNext
  <1>. QED
    BY <1>1, <1>2

\* Whichever driver is loaded, all of them start as they do alone.
LEMMA DriversInitInv == DriversInit => DriversInv
  BY ShortInitInv, ShortpInitInv, LdtInitInv, SbullInitInv, SkelInitInv, PrivInitInv,
     SetupInitInv DEF DriversInit, DriversInv

\* The invariants of the drivers make one of the machine.
LEMMA DriversNextInv == DriversInv /\ [DriversNext]_driversVars => DriversInv'
  BY DriverSteps, ShortNextInv, ShortpNextInv, LdtNextInv, SbullNextInv, SkelStep,
     PrivNextInv, SetupNextInv DEF DriversInv

\* What all the theorems about the machine follow from.
LEMMA DriversAlways == DriversSpec => []DriversInv
  BY DriversInitInv, DriversNextInv, PTL DEF DriversSpec

\* The variables of every driver keep their types, on every path.
THEOREM DriversTypes == DriversSpec => []DriversTypeOK
  <1>1. DriversInv => DriversTypeOK
    BY ShortpInvSafe, LdtInvSafe, ShortInvSafe, PrivInvSafe DEF DriversInv, SbullInv, SkelInv, DriversTypeOK
  <1>. QED
    BY <1>1, DriversAlways, PTL

\* No process of shortprint, short or ldt sleeps on what is already there, although
\* interrupt handlers, work items and timers change it without the processes' locks.
THEOREM DriversNoLostWakeup == DriversSpec => []NoLostWakeup
  <1>1. DriversInv => NoLostWakeup
    BY ShortpInvSafe, LdtInvSafe DEF DriversInv, ShortInv, NoLostWakeup
  <1>. QED
    BY <1>1, DriversAlways, PTL

\* Between the two pointers of short's ring lie the lines that were written and not
\* read, until the handler laps the reader.
THEOREM ShortRingSound == DriversSpec => []ShortRing
  <1>1. DriversInv => ShortRing
    BY DEF DriversInv, ShortInv
  <1>. QED
    BY <1>1, DriversAlways, PTL

\* When the bottom half of short has nothing to do, every stamp has been printed unless
\* one was overwritten or printed again; without overlap the counts add up as well.
THEOREM ShortAllReported == DriversSpec => []ShortReported
  <1>1. DriversInv => ShortReported
    BY ShortInvSafe DEF DriversInv
  <1>. QED
    BY <1>1, DriversAlways, PTL

\* The ring of shortprint holds exactly the bytes that were accepted and not printed
\* yet, in order, with several writers, a work item, a timer and interrupts moving it.
THEOREM ShortpRingContents == DriversSpec => []RingContents
  <1>1. DriversInv => RingContents
    BY ShortpInvSafe DEF DriversInv
  <1>. QED
    BY <1>1, DriversAlways, PTL

\* A close of shortprint that no signal cut short returns when the printer has got
\* everything its process wrote.
THEOREM ShortpReleaseDrained == DriversSpec => []ReleaseDrained
  <1>1. DriversInv => ReleaseDrained
    BY ShortpInvSafe DEF DriversInv
  <1>. QED
    BY <1>1, DriversAlways, PTL

\* While the output of shortprint is active its time-out is armed, running or about to
\* be armed; as long as it does not race the interrupt, add_timer meets no pending timer
\* and none outlives the module.
THEOREM ShortpTimerDiscipline == DriversSpec => []TimerDiscipline
  <1>1. DriversInv => TimerDiscipline
    BY ShortpInvSafe DEF DriversInv
  <1>. QED
    BY <1>1, DriversAlways, PTL

\* The bytes of ldt stay in order on their way through both fifos and the UART, and
\* those that a full fifo drops are counted.
THEOREM LdtBytesInOrder == DriversSpec => []LdtInOrder
  <1>1. DriversInv => LdtInOrder
    BY LdtInvSafe DEF DriversInv
  <1>. QED
    BY <1>1, DriversAlways, PTL

\* A terminal always gets the cloned device it was given first, and never sees what
\* another terminal wrote.
THEOREM PrivOwnDevices == DriversSpec => []PrivOwnDevice
  <1>1. DriversInv => PrivOwnDevice
    BY PrivInvSafe DEF DriversInv
  <1>. QED
    BY <1>1, DriversAlways, PTL

\* After a failed setup or a cleanup nothing of the scull module is left, and only the
\* access devices may have been released without having been set up.
THEOREM SetupUndone == DriversSpec => []SetupExact
  <1>1. DriversInv => SetupExact
    BY SetupInvSafe DEF DriversInv
  <1>. QED
    BY <1>1, DriversAlways, PTL
=============================================================================
