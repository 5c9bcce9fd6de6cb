----------------------------- MODULE SnullProofs ----------------------------
(***************************************************************************)
(* Proofs about Snull, for any pool, any lockup and any number of packets: *)
(* buffers are conserved on every kernel; on a uniprocessor (with NAPI, as *)
(* long as no interface is brought down) the pool never runs empty under a *)
(* transmission, every buffer comes home and every skb is freed once.      *)
(***************************************************************************)
EXTENDS Snull, FiniteSetTheorems, SequenceTheorems, TLAPS

\* The transmit context and the poll of an interface.
T(d) == <<"tx", d>>
P(d) == <<"poll", d>>

TxPC ==
    {"idle", "get", "oops", "enqueue", "rx_test", "rx_load", "rx_store", "rx_int", "tx_load",
     "tx_store", "lockup", "tx_int", "timeout_int", "timeout_wake", "push", "wake"}
PollPC == {"idle", "poll_first", "poll_more", "poll_test", "poll_ints", "deliver", "push", "wake"}

\* Types.
SnullTypes ==
    /\ ppool \in [Devs -> Seq(Pkts)] /\ rx_queue \in [Devs -> Seq(Pkts)]
    /\ bottom \in [Pkts -> BOOLEAN]
    /\ status \in [Devs -> SUBSET {"RX", "TX"}]
    /\ rx_int_enabled \in [Devs -> BOOLEAN] /\ stopped \in [Devs -> BOOLEAN]
    /\ sched \in [Devs -> BOOLEAN] /\ up \in [Devs -> BOOLEAN]
    /\ skb \in [Devs -> {"none", "held", "freed", "wrong"}]
    /\ pc \in [Ctxs -> TxPC \cup PollPC]
    /\ \A d \in Devs : pc[T(d)] \in TxPC /\ pc[P(d)] \in PollPC
    /\ hand \in [Ctxs -> Pkts \cup {NoPkt}]
    /\ reg \in [Ctxs -> SUBSET {"RX", "TX"}]
    /\ ret \in [Ctxs -> {"idle", "tx_load", "timeout_wake", "poll_more"}]
    /\ \A d \in Devs : ret[T(d)] # "poll_more" /\ ret[P(d)] \in {"idle", "poll_more"}

\* A context has a buffer exactly between taking it and letting go of it, and its own
\* while it transmits.
Handling ==
    \A c \in Ctxs :
      /\ hand[c] # NoPkt <=> pc[c] \in {"enqueue", "deliver", "push", "wake"}
      /\ pc[c] = "enqueue" => hand[c][1] = c[2]

\* The contexts that have a buffer of d out of its pool and of the twin's queue.
Holding(d) == {c \in Ctxs : hand[c] # NoPkt /\ pc[c] # "wake" /\ hand[c][1] = d}

\* The buffers of d are those of the lists a and b and in the hands of H, each once.
Balanced(d, a, b, H, h) ==
    /\ Range(a) \cup Range(b) \cup {h[c] : c \in H} = {d} \X (1..PoolSize)
    /\ Len(a) + Len(b) + Cardinality(H) = PoolSize

Buffers == \A d \in Devs : Balanced(d, ppool[d], rx_queue[Twin(d)], Holding(d), hand)

SnullInv == SnullTypes /\ Handling /\ Buffers

\* On every kernel: a poll that has not completed is on the poll list, and an interface
\* that was never brought down is up.
PollUp ==
    /\ downs \in [Devs -> Nat]
    /\ \A d \in Devs : pc[P(d)] \notin {"idle", "poll_ints"} => sched[d]
    /\ \A d \in Devs : downs[d] = 0 => up[d]

\* A queue that is not stopped has a buffer for the next transmission: also when a
\* context is about to wake it.
PoolReady ==
    /\ \A d \in Devs : ~stopped[d] \/ pc[T(d)] \in {"get", "timeout_int", "timeout_wake"} =>
                         ppool[d] # <<>>
    /\ \A c \in Ctxs : pc[c] = "wake" => ppool[hand[c][1]] # <<>>

\* The timeout finds nothing to receive.
TimeoutQuiet ==
    \A d \in Devs :
      /\ pc[T(d)] = "timeout_int" => status[d] = {"TX"}
      /\ pc[T(d)] \in {"push", "wake"} => ret[T(d)] # "timeout_wake"

\* A queued packet is about to be announced, or its interface is going to be polled.
Announced ==
    \A d \in Devs :
      /\ rx_queue[Twin(d)] # <<>> =>
           sched[Twin(d)] \/ pc[T(d)] \in {"rx_test", "rx_load", "rx_store", "rx_int"}
      /\ pc[T(d)] = "rx_int" => "RX" \in status[Twin(d)]

\* Receive interrupts are off only while a poll is under way.
IntsOff == \A d \in Devs : ~rx_int_enabled[d] => sched[d] \/ pc[P(d)] = "poll_ints"

\* Without NAPI there is no poll, and a packet is received before the next is sent.
NoPoll ==
    ~cf.use_napi =>
      \A d \in Devs : ~sched[d] /\ rx_int_enabled[d] /\ pc[P(d)] = "idle" /\ Len(rx_queue[d]) <= 1

Uni == ~Oops /\ PoolReady /\ TimeoutQuiet /\ Announced /\ IntsOff /\ NoPoll

UniInv == Steady => Uni

\* The contexts that are between the beginning of a transmission and its interrupt.
Sending(d) ==
    \/ pc[T(d)] \in {"get", "enqueue", "rx_test", "rx_load", "rx_store", "rx_int", "tx_load", "tx_store",
                     "lockup", "tx_int"}
    \/ pc[T(d)] \in {"push", "wake"} /\ ret[T(d)] = "tx_load"

\* Without simulated lockups: a queue is stopped only while its pool is empty, or when
\* the buffer that will wake it is back;
StoppedEmpty ==
    \A d \in Devs : stopped[d] /\ up[d] =>
      ppool[d] = <<>> \/ \E c \in Ctxs : pc[c] = "wake" /\ hand[c][1] = d /\ bottom[hand[c]]

\* so the watchdog has nothing to do; the skb is held exactly during the transmission, and
\* the transmit bit is set exactly while its interrupt is due.
SkbHeld ==
    \A d \in Devs :
      /\ pc[T(d)] \notin {"timeout_int", "timeout_wake"}
      /\ skb[d] # "wrong" /\ (skb[d] = "held" <=> Sending(d))
      /\ "TX" \in status[d] <=> pc[T(d)] \in {"lockup", "tx_int"}
      /\ pc[T(d)] = "rx_store" => reg[T(d)] = status[Twin(d)]
      /\ pc[T(d)] = "tx_store" => reg[T(d)] = status[d]

Skb == StoppedEmpty /\ SkbHeld

SkbInv == Steady /\ cf.lockup = 0 => Skb

-----------------------------------------------------------------------------
(* The contexts and the interfaces.                                        *)

\* An interface and its twin are the two there are.
LEMMA Interfaces ==
    /\ \A d \in Devs : Twin(d) \in Devs /\ Twin(Twin(d)) = d /\ Twin(d) # d
    /\ \A d, e \in Devs : e = d \/ e = Twin(d)
  BY DEF Devs, Twin

\* Each interface has a transmit context and a poll, and there are no others.
LEMMA Contexts ==
    /\ \A d \in Devs : T(d) \in Ctxs /\ P(d) \in Ctxs /\ T(d)[2] = d /\ P(d)[2] = d
    /\ \A d, e \in Devs : T(d) # P(e) /\ (T(d) = T(e) => d = e) /\ (P(d) = P(e) => d = e)
    /\ \A c \in Ctxs : \E d \in Devs : c = T(d) \/ c = P(d)
  BY DEF Ctxs, T, P

\* There are finitely many contexts.
LEMMA CtxsFinite == IsFiniteSet(Ctxs)
  <1>1. Ctxs = (({} \cup {T(0)}) \cup {T(1)}) \cup {P(0)} \cup {P(1)}
    BY DEF Ctxs, Devs, T, P
  <1>2. IsFiniteSet({})
    BY FS_EmptySet
  <1>3. IsFiniteSet({} \cup {T(0)})
    BY <1>2, FS_AddElement
  <1>4. IsFiniteSet(({} \cup {T(0)}) \cup {T(1)})
    BY <1>3, FS_AddElement
  <1>5. IsFiniteSet((({} \cup {T(0)}) \cup {T(1)}) \cup {P(0)})
    BY <1>4, FS_AddElement
  <1>. QED
    BY <1>1, <1>5, FS_AddElement

\* A buffer belongs to one interface; no buffer is the absent one.
LEMMA Packets ==
    /\ NoPkt \notin Pkts
    /\ \A x \in Pkts : x[1] \in Devs
    /\ \A d \in Devs : {d} \X (1..PoolSize) \subseteq Pkts
    /\ \A d \in Devs : \A x \in {d} \X (1..PoolSize) : x[1] = d
  BY DEF NoPkt, Pkts

-----------------------------------------------------------------------------
(* Buffers that move from a list to a hand or back.                        *)

\* Few contexts hold a buffer at a time.
LEMMA HoldingFinite ==
    ASSUME NEW d
    PROVE  IsFiniteSet(Holding(d)) /\ Cardinality(Holding(d)) \in Nat
  <1>1. Holding(d) \subseteq Ctxs
    BY DEF Holding
  <1>. QED
    BY <1>1, CtxsFinite, FS_Subset, FS_CardinalityType

\* The two lists play the same part.
LEMMA SwapBalanced ==
    ASSUME NEW d, NEW a \in Seq(Pkts), NEW b \in Seq(Pkts), NEW H, Cardinality(H) \in Nat, NEW h,
           Balanced(d, a, b, H, h)
    PROVE  Balanced(d, b, a, H, h)
  <1>1. Len(a) \in Nat /\ Len(b) \in Nat
    OBVIOUS
  <1>. DEFINE x == Range(a)
              y == Range(b)
              z == {h[c] : c \in H}
              l == Len(a)
              m == Len(b)
              n == Cardinality(H)
  <1>2. x \cup y \cup z = {d} \X (1..PoolSize) /\ l + m + n = PoolSize
    BY DEF Balanced
  <1>3. l \in Nat /\ m \in Nat /\ n \in Nat
    BY <1>1
  <1>. HIDE DEF x, y, z, l, m, n
  <1>4. y \cup x \cup z = {d} \X (1..PoolSize) /\ m + l + n = PoolSize
    BY <1>2, <1>3
  <1>. QED
    BY <1>4 DEF Balanced, x, y, z, l, m, n

\* Taking the head of a list.
LEMMA HeadTail ==
    ASSUME NEW a \in Seq(Pkts), a # <<>>
    PROVE  /\ Range(a) = {Head(a)} \cup Range(Tail(a)) /\ Len(Tail(a)) = Len(a) - 1
           /\ Head(a) \in Pkts /\ Tail(a) \in Seq(Pkts) /\ Len(a) \in Nat
  <1>1. Len(a) \in Nat /\ Len(a) >= 1 /\ DOMAIN a = 1..Len(a) /\ Head(a) = a[1]
    OBVIOUS
  <1>2. /\ Tail(a) \in Seq(Pkts) /\ Len(Tail(a)) = Len(a) - 1 /\ DOMAIN Tail(a) = 1..Len(a) - 1
        /\ \A i \in 1..Len(a) - 1 : Tail(a)[i] = a[i + 1]
    BY <1>1
  <1>3. ASSUME NEW x \in Range(a) PROVE x = Head(a) \/ x \in Range(Tail(a))
    <2>1. PICK i \in 1..Len(a) : x = a[i]
      BY <1>1 DEF Range
    <2>2. CASE i = 1
      BY <1>1, <2>1, <2>2
    <2>3. CASE i # 1
      <3>. DEFINE j == i - 1
      <3>1. j \in 1..Len(a) - 1 /\ j + 1 = i
        BY <1>1, <2>3
      <3>. HIDE DEF j
      <3>2. Tail(a)[j] = x
        BY <1>2, <2>1, <3>1
      <3>. QED
        BY <1>2, <3>1, <3>2 DEF Range
    <2>. QED
      BY <2>2, <2>3
  <1>4. ASSUME NEW x \in Range(Tail(a)) PROVE x \in Range(a)
    <2>1. PICK i \in 1..Len(a) - 1 : x = Tail(a)[i]
      BY <1>2 DEF Range
    <2>. DEFINE j == i + 1
    <2>2. j \in 1..Len(a) /\ x = a[j]
      BY <1>1, <1>2, <2>1
    <2>. HIDE DEF j
    <2>. QED
      BY <1>1, <2>2 DEF Range
  <1>5. Head(a) \in Range(a)
    BY <1>1 DEF Range
  <1>6. Head(a) \in Pkts
    BY <1>1
  <1>. QED
    BY <1>1, <1>2, <1>3, <1>4, <1>5, <1>6

\* c takes the head of a list.
LEMMA TakeBalanced ==
    ASSUME NEW d, NEW a \in Seq(Pkts), a # <<>>, NEW b \in Seq(Pkts), NEW H, IsFiniteSet(H),
           NEW h, Balanced(d, a, b, H, h), NEW c, c \notin H, NEW k, k[c] = Head(a),
           \A o \in H : k[o] = h[o]
    PROVE  Balanced(d, Tail(a), b, H \cup {c}, k)
  <1>1. /\ Range(a) = {Head(a)} \cup Range(Tail(a)) /\ Len(Tail(a)) = Len(a) - 1
        /\ Len(a) \in Nat /\ Len(b) \in Nat
    BY HeadTail
  <1>2. Cardinality(H \cup {c}) = Cardinality(H) + 1 /\ Cardinality(H) \in Nat
    BY FS_AddElement, FS_CardinalityType
  <1>3. {k[o] : o \in H \cup {c}} = {h[o] : o \in H} \cup {Head(a)}
    OBVIOUS
  <1>4. Range(a) \cup Range(b) \cup {h[o] : o \in H} = {d} \X (1..PoolSize)
    BY DEF Balanced
  <1>5. Range(Tail(a)) \cup Range(b) \cup {k[o] : o \in H \cup {c}} = {d} \X (1..PoolSize)
    BY <1>1, <1>3, <1>4, Zenon
  <1>6. Len(Tail(a)) + Len(b) + Cardinality(H \cup {c}) = PoolSize
    BY <1>1, <1>2 DEF Balanced
  <1>. QED
    BY <1>5, <1>6 DEF Balanced

\* Putting a buffer in front of a list.
LEMMA Pushed ==
    ASSUME NEW a \in Seq(Pkts), NEW x \in Pkts
    PROVE  /\ <<x>> \o a \in Seq(Pkts) /\ Len(<<x>> \o a) = Len(a) + 1 /\ Len(a) \in Nat
           /\ Range(<<x>> \o a) = {x} \cup Range(a) /\ <<x>> \o a # <<>>
  <1>. DEFINE e == <<x>> \o a
  <1>1. /\ e \in Seq(Pkts) /\ Len(e) = Len(a) + 1 /\ Len(a) \in Nat /\ e[1] = x
        /\ \A i \in 1..Len(a) : e[i + 1] = a[i]
    OBVIOUS
  <1>2. DOMAIN e = 1..Len(a) + 1 /\ DOMAIN a = 1..Len(a)
    BY <1>1
  <1>. HIDE DEF e
  <1>3. e # <<>>
    BY <1>1
  <1>4. ASSUME NEW y \in Range(e) PROVE y = x \/ y \in Range(a)
    <2>1. PICK i \in 1..Len(a) + 1 : y = e[i]
      BY <1>2 DEF Range
    <2>2. CASE i = 1
      BY <1>1, <2>1, <2>2
    <2>3. CASE i # 1
      <3>. DEFINE j == i - 1
      <3>1. j \in 1..Len(a) /\ j + 1 = i
        BY <1>1, <2>3
      <3>. HIDE DEF j
      <3>. QED
        BY <1>1, <1>2, <2>1, <3>1 DEF Range
    <2>. QED
      BY <2>2, <2>3
  <1>5. ASSUME NEW y \in Range(a) PROVE y \in Range(e)
    <2>1. PICK i \in 1..Len(a) : y = a[i]
      BY <1>2 DEF Range
    <2>. DEFINE j == i + 1
    <2>2. j \in 1..Len(a) + 1 /\ e[j] = y
      BY <1>1, <2>1
    <2>. HIDE DEF j
    <2>. QED
      BY <1>2, <2>2 DEF Range
  <1>6. x \in Range(e)
    BY <1>1, <1>2 DEF Range
  <1>. QED
    BY <1>1, <1>3, <1>4, <1>5, <1>6 DEF e

\* c puts its buffer in front of a list.
LEMMA PutBalanced ==
    ASSUME NEW d, NEW a \in Seq(Pkts), NEW b \in Seq(Pkts), NEW H, IsFiniteSet(H),
           NEW h, Balanced(d, a, b, H, h), NEW c \in H, h[c] \in Pkts, NEW k,
           \A o \in H : o # c => k[o] = h[o]
    PROVE  Balanced(d, <<h[c]>> \o a, b, H \ {c}, k)
  <1>. DEFINE e == <<h[c]>> \o a
  <1>1. Range(e) = {h[c]} \cup Range(a) /\ Len(e) = Len(a) + 1 /\ Len(a) \in Nat /\ Len(b) \in Nat
    BY Pushed
  <1>. HIDE DEF e
  <1>2. Cardinality(H \ {c}) = Cardinality(H) - 1 /\ Cardinality(H) \in Nat
    BY FS_RemoveElement, FS_CardinalityType
  <1>3. {h[o] : o \in H} = {k[o] : o \in H \ {c}} \cup {h[c]}
    OBVIOUS
  <1>4. Range(a) \cup Range(b) \cup {h[o] : o \in H} = {d} \X (1..PoolSize)
    BY DEF Balanced
  <1>5. Range(e) \cup Range(b) \cup {k[o] : o \in H \ {c}} = {d} \X (1..PoolSize)
    BY <1>1, <1>3, <1>4, Zenon
  <1>6. Len(e) + Len(b) + Cardinality(H \ {c}) = PoolSize
    BY <1>1, <1>2 DEF Balanced
  <1>. QED
    BY <1>5, <1>6 DEF Balanced, e

\* Nothing moves.
LEMMA SameBalanced ==
    ASSUME NEW d, NEW a, NEW b, NEW H, NEW h, Balanced(d, a, b, H, h), NEW k,
           \A o \in H : k[o] = h[o]
    PROVE  Balanced(d, a, b, H, k)
  <1>1. {k[o] : o \in H} = {h[o] : o \in H}
    OBVIOUS
  <1>. QED
    BY <1>1 DEF Balanced

-----------------------------------------------------------------------------
(* Types and hands.                                                        *)

\* The buffers of an interface are in its pool, in its twin's queue and in hands.
LEMMA OwnBuffers ==
    ASSUME SnullInv, NEW d \in Devs
    PROVE  /\ ppool[d] # <<>> => Head(ppool[d]) \in Pkts /\ Head(ppool[d])[1] = d
           /\ rx_queue[d] # <<>> => Head(rx_queue[d]) \in Pkts /\ Head(rx_queue[d])[1] = Twin(d)
  <1>1. /\ ppool[d] \in Seq(Pkts) /\ rx_queue[d] \in Seq(Pkts)
        /\ Range(ppool[d]) \subseteq {d} \X (1..PoolSize)
        /\ Range(rx_queue[d]) \subseteq {Twin(d)} \X (1..PoolSize)
    BY Interfaces DEF SnullInv, SnullTypes, Buffers, Balanced
  <1>2. ASSUME NEW a \in Seq(Pkts), a # <<>> PROVE Head(a) \in Pkts /\ Head(a) \in Range(a)
    BY <1>2, HeadTail
  <1>. QED
    BY <1>1, <1>2, Packets, Interfaces

\* What a step of context c from label l to label m changes of labels and hands.
Turn(c, l, m) == pc[c] = l /\ pc' = [pc EXCEPT ![c] = m]

\* Only the label of c changes.
LEMMA Labels ==
    ASSUME SnullTypes, NEW c \in Ctxs, NEW l, NEW m, Turn(c, l, m),
           m \in TxPC \cup PollPC, \A d \in Devs : (c = T(d) => m \in TxPC) /\ (c = P(d) => m \in PollPC)
    PROVE  /\ pc' \in [Ctxs -> TxPC \cup PollPC] /\ \A d \in Devs : pc'[T(d)] \in TxPC /\ pc'[P(d)] \in PollPC
           /\ pc'[c] = m /\ \A o \in Ctxs : o # c => pc'[o] = pc[o]
  BY Contexts DEF SnullTypes, Turn

Busy == {"enqueue", "deliver", "push", "wake"}

\* A step of c that neither takes nor gives back a buffer,
KeepsHands ==
    /\ ppool' = ppool /\ rx_queue' = rx_queue /\ hand' = hand
    /\ \E c \in Ctxs : pc[c] \notin Busy /\ pc'[c] \notin Busy /\ \A o \in Ctxs : o # c => pc'[o] = pc[o]

\* or that returns from netif_receive_skb with its buffer.
Returns(c) ==
    /\ ppool' = ppool /\ rx_queue' = rx_queue /\ hand' = hand
    /\ pc[c] = "deliver" /\ pc'[c] = "push" /\ \A o \in Ctxs : o # c => pc'[o] = pc[o]

\* Such a step keeps the balance.
LEMMA KeptHands ==
    ASSUME SnullInv, KeepsHands \/ \E c \in Ctxs : Returns(c)
    PROVE  Handling' /\ Buffers'
  <1>0. /\ ppool' = ppool /\ rx_queue' = rx_queue /\ hand' = hand
        /\ \E c \in Ctxs : /\ \A o \in Ctxs : o # c => pc'[o] = pc[o]
                         /\ \/ pc[c] \notin Busy /\ pc'[c] \notin Busy
                            \/ pc[c] = "deliver" /\ pc'[c] = "push"
    BY Zenon DEF KeepsHands, Returns
  <1>1. PICK c \in Ctxs : /\ \A o \in Ctxs : o # c => pc'[o] = pc[o]
                         /\ \/ pc[c] \notin Busy /\ pc'[c] \notin Busy
                            \/ pc[c] = "deliver" /\ pc'[c] = "push"
    BY <1>0
  <1>2. Handling'
    <2>1. CASE pc[c] \notin Busy /\ pc'[c] \notin Busy
      BY <1>0, <1>1, <2>1 DEF SnullInv, Handling, Busy
    <2>2. CASE pc[c] = "deliver" /\ pc'[c] = "push"
      BY <1>0, <1>1, <2>2 DEF SnullInv, Handling
    <2>. QED
      BY <1>1, <2>1, <2>2
  <1>3. ASSUME NEW d \in Devs PROVE Holding(d)' = Holding(d)
    <2>1. CASE pc[c] \notin Busy /\ pc'[c] \notin Busy
      BY <1>0, <1>1, <2>1 DEF Holding, SnullInv, Handling, Busy
    <2>2. CASE pc[c] = "deliver" /\ pc'[c] = "push"
      BY <1>0, <1>1, <2>2 DEF Holding
    <2>. QED
      BY <1>1, <2>1, <2>2
  <1>4. Buffers'
    BY <1>0, <1>3 DEF SnullInv, Buffers
  <1>. QED
    BY <1>2, <1>4

\* c takes the first buffer of the pool of d, or of the twin's queue.
Takes(c, d) ==
    /\ pc[c] \notin Busy /\ pc'[c] \in {"enqueue", "deliver", "push"} /\ \A o \in Ctxs : o # c => pc'[o] = pc[o]
    /\ \/ /\ ppool[d] # <<>> /\ hand' = [hand EXCEPT ![c] = Head(ppool[d])]
          /\ ppool' = [ppool EXCEPT ![d] = Tail(@)] /\ rx_queue' = rx_queue
       \/ /\ rx_queue[Twin(d)] # <<>> /\ hand' = [hand EXCEPT ![c] = Head(rx_queue[Twin(d)])]
          /\ rx_queue' = [rx_queue EXCEPT ![Twin(d)] = Tail(@)] /\ ppool' = ppool

\* Taking a buffer keeps the balance.
LEMMA Taken ==
    ASSUME SnullInv, NEW c \in Ctxs, NEW d \in Devs, Takes(c, d), pc'[c] = "enqueue" => c[2] = d
    PROVE  Handling' /\ Buffers'
  <1>. DEFINE x == hand'[c]
  <1>0. /\ hand \in [Ctxs -> Pkts \cup {NoPkt}] /\ \A e \in Devs : ppool[e] \in Seq(Pkts) /\ rx_queue[e] \in Seq(Pkts)
        /\ ppool \in [Devs -> Seq(Pkts)] /\ rx_queue \in [Devs -> Seq(Pkts)]
    BY DEF SnullInv, SnullTypes
  <1>1. x \in Pkts /\ x[1] = d /\ x # NoPkt /\ hand[c] = NoPkt
    <2>1. \/ x = Head(ppool[d]) /\ ppool[d] # <<>>
          \/ x = Head(rx_queue[Twin(d)]) /\ rx_queue[Twin(d)] # <<>>
      BY <1>0 DEF Takes
    <2>2. x \in Pkts /\ x[1] = d
      <3>1. ppool[d] # <<>> => Head(ppool[d]) \in Pkts /\ Head(ppool[d])[1] = d
        BY OwnBuffers
      <3>2. Twin(d) \in Devs /\ Twin(Twin(d)) = d
        BY Interfaces
      <3>3. rx_queue[Twin(d)] # <<>> =>
              Head(rx_queue[Twin(d)]) \in Pkts /\ Head(rx_queue[Twin(d)])[1] = Twin(Twin(d))
        BY <3>2, OwnBuffers
      <3>. QED
        BY <2>1, <3>1, <3>2, <3>3
    <2>3. hand[c] = NoPkt
      BY DEF Takes, SnullInv, Handling, Busy
    <2>. QED
      BY <2>2, <2>3, Packets
  <1>2. \A o \in Ctxs : o # c => hand'[o] = hand[o]
    BY <1>0 DEF Takes
  <1>3. Handling'
    BY <1>1, <1>2 DEF SnullInv, Handling, Takes
  <1>4. /\ c \notin Holding(d) /\ Holding(d)' = Holding(d) \cup {c}
        /\ Holding(Twin(d))' = Holding(Twin(d)) /\ c \notin Holding(Twin(d))
    <2>1. pc'[c] # "wake" /\ Twin(d) # d
      BY Interfaces DEF Takes
    <2>2. \A o \in Ctxs : o # c => (pc'[o] = pc[o] /\ hand'[o] = hand[o])
      BY <1>2 DEF Takes
    <2>. QED
      BY <1>1, <2>1, <2>2 DEF Holding
  <1>5. /\ \A o \in Holding(d) : hand'[o] = hand[o]
        /\ \A o \in Holding(Twin(d)) : hand'[o] = hand[o]
    BY <1>2, <1>4 DEF Holding
  <1>6. /\ Balanced(d, ppool[d], rx_queue[Twin(d)], Holding(d), hand)
        /\ Balanced(Twin(d), ppool[Twin(d)], rx_queue[d], Holding(Twin(d)), hand)
    BY Interfaces DEF SnullInv, Buffers
  <1>t. Twin(d) \in Devs /\ Twin(d) # d /\ Twin(Twin(d)) = d /\ \A e \in Devs : e = d \/ e = Twin(d)
    BY Interfaces
  <1>7. Balanced(d, ppool'[d], rx_queue'[Twin(d)], Holding(d)', hand')
    <2>0. IsFiniteSet(Holding(d)) /\ Cardinality(Holding(d)) \in Nat
      BY HoldingFinite
    <2>f. IsFiniteSet(Holding(d)') /\ Cardinality(Holding(d)') \in Nat
      BY <1>4, <2>0, FS_AddElement, FS_CardinalityType
    <2>1. CASE ppool[d] # <<>> /\ x = Head(ppool[d]) /\ ppool'[d] = Tail(ppool[d]) /\ rx_queue' = rx_queue
      <3>1. Balanced(d, Tail(ppool[d]), rx_queue[Twin(d)], Holding(d) \cup {c}, hand')
        BY <1>0, <1>4, <1>5, <1>6, <1>t, <2>0, <2>1, TakeBalanced
      <3>. QED
        BY <1>4, <2>1, <3>1
    <2>2. CASE /\ rx_queue[Twin(d)] # <<>> /\ x = Head(rx_queue[Twin(d)])
               /\ rx_queue'[Twin(d)] = Tail(rx_queue[Twin(d)]) /\ ppool' = ppool
      <3>1. Balanced(d, rx_queue[Twin(d)], ppool[d], Holding(d), hand)
        BY <1>0, <1>6, <1>t, <2>0, SwapBalanced
      <3>2. Balanced(d, Tail(rx_queue[Twin(d)]), ppool[d], Holding(d) \cup {c}, hand')
        BY <1>0, <1>4, <1>5, <1>t, <2>0, <2>2, <3>1, TakeBalanced
      <3>3. Tail(rx_queue[Twin(d)]) \in Seq(Pkts)
        BY <1>0, <1>t, <2>2, HeadTail
      <3>. QED
        BY <1>0, <1>4, <2>2, <2>f, <3>2, <3>3, SwapBalanced
    <2>. QED
      BY <1>0, <1>t, <2>1, <2>2 DEF Takes
  <1>8. Balanced(Twin(d), ppool'[Twin(d)], rx_queue'[d], Holding(Twin(d))', hand')
    <2>1. ppool'[Twin(d)] = ppool[Twin(d)] /\ rx_queue'[d] = rx_queue[d]
      BY <1>0, <1>t DEF Takes
    <2>. QED
      BY <1>4, <1>5, <1>6, <2>1, SameBalanced
  <1>. QED
    BY <1>3, <1>7, <1>8, <1>t DEF Buffers

\* c puts its buffer, of d, into the pool of d or into the twin's queue.
Puts(c, d) ==
    /\ pc[c] \in {"enqueue", "push"} /\ hand[c][1] = d /\ \A o \in Ctxs : o # c => pc'[o] = pc[o]
    /\ \/ /\ ppool' = [ppool EXCEPT ![d] = <<hand[c]>> \o @] /\ rx_queue' = rx_queue
          /\ pc'[c] = "wake" /\ hand' = hand
       \/ /\ rx_queue' = [rx_queue EXCEPT ![Twin(d)] = <<hand[c]>> \o @] /\ ppool' = ppool
          /\ pc'[c] \notin Busy /\ hand' = [hand EXCEPT ![c] = NoPkt]

\* Putting a buffer down keeps the balance.
LEMMA Put ==
    ASSUME SnullInv, NEW c \in Ctxs, NEW d \in Devs, Puts(c, d)
    PROVE  Handling' /\ Buffers'
  <1>. DEFINE x == hand[c]
  <1>0. /\ hand \in [Ctxs -> Pkts \cup {NoPkt}] /\ \A e \in Devs : ppool[e] \in Seq(Pkts) /\ rx_queue[e] \in Seq(Pkts)
        /\ ppool \in [Devs -> Seq(Pkts)] /\ rx_queue \in [Devs -> Seq(Pkts)]
    BY DEF SnullInv, SnullTypes
  <1>1. x \in Pkts /\ x[1] = d /\ x # NoPkt
    BY <1>0 DEF Puts, SnullInv, Handling
  <1>2. \A o \in Ctxs : o # c => (pc'[o] = pc[o] /\ hand'[o] = hand[o])
    BY <1>0 DEF Puts
  <1>3. Handling'
    <2>1. CASE pc'[c] = "wake" /\ hand' = hand
      BY <1>1, <1>2, <2>1 DEF SnullInv, Handling
    <2>2. CASE pc'[c] \notin Busy /\ hand' = [hand EXCEPT ![c] = NoPkt]
      BY <1>0, <1>2, <2>2 DEF SnullInv, Handling, Busy
    <2>. QED
      BY <2>1, <2>2 DEF Puts
  <1>t. Twin(d) \in Devs /\ Twin(d) # d /\ Twin(Twin(d)) = d /\ \A e \in Devs : e = d \/ e = Twin(d)
    BY Interfaces
  <1>4. /\ c \in Holding(d) /\ Holding(d)' = Holding(d) \ {c}
        /\ Holding(Twin(d))' = Holding(Twin(d)) /\ c \notin Holding(Twin(d))
    <2>1. pc[c] # "wake" /\ (pc'[c] = "wake" \/ hand'[c] = NoPkt)
      BY <1>0 DEF Puts
    <2>2. c \in Holding(d) /\ c \notin Holding(Twin(d))
      BY <1>1, <1>t, <2>1 DEF Holding
    <2>3. Holding(d)' = Holding(d) \ {c}
      BY <1>2, <2>1 DEF Holding
    <2>4. Holding(Twin(d))' = Holding(Twin(d))
      BY <1>2, <2>1, <2>2 DEF Holding
    <2>. QED
      BY <2>2, <2>3, <2>4
  <1>5. /\ \A o \in Holding(d) : o # c => hand'[o] = hand[o]
        /\ \A o \in Holding(Twin(d)) : hand'[o] = hand[o]
    BY <1>2, <1>4 DEF Holding
  <1>6. /\ Balanced(d, ppool[d], rx_queue[Twin(d)], Holding(d), hand)
        /\ Balanced(Twin(d), ppool[Twin(d)], rx_queue[d], Holding(Twin(d)), hand)
    BY Interfaces DEF SnullInv, Buffers
  <1>7. Balanced(d, ppool'[d], rx_queue'[Twin(d)], Holding(d)', hand')
    <2>0. IsFiniteSet(Holding(d)) /\ Cardinality(Holding(d)) \in Nat
      BY HoldingFinite
    <2>f. IsFiniteSet(Holding(d)') /\ Cardinality(Holding(d)') \in Nat
      BY <1>4, <2>0, FS_RemoveElement, FS_CardinalityType
    <2>1. CASE ppool'[d] = <<x>> \o ppool[d] /\ rx_queue' = rx_queue
      <3>1. Balanced(d, <<x>> \o ppool[d], rx_queue[Twin(d)], Holding(d) \ {c}, hand')
        BY <1>0, <1>1, <1>4, <1>5, <1>6, <1>t, <2>0, PutBalanced
      <3>. QED
        BY <1>4, <2>1, <3>1
    <2>2. CASE rx_queue'[Twin(d)] = <<x>> \o rx_queue[Twin(d)] /\ ppool' = ppool
      <3>1. Balanced(d, rx_queue[Twin(d)], ppool[d], Holding(d), hand)
        BY <1>0, <1>6, <1>t, <2>0, SwapBalanced
      <3>2. Balanced(d, <<x>> \o rx_queue[Twin(d)], ppool[d], Holding(d) \ {c}, hand')
        BY <1>0, <1>1, <1>4, <1>5, <1>t, <2>0, <3>1, PutBalanced
      <3>3. <<x>> \o rx_queue[Twin(d)] \in Seq(Pkts)
        BY <1>0, <1>1, <1>t, Pushed
      <3>. QED
        BY <1>0, <1>4, <2>2, <2>f, <3>2, <3>3, SwapBalanced
    <2>. QED
      BY <1>0, <1>t, <2>1, <2>2 DEF Puts
  <1>8. Balanced(Twin(d), ppool'[Twin(d)], rx_queue'[d], Holding(Twin(d))', hand')
    <2>1. ppool'[Twin(d)] = ppool[Twin(d)] /\ rx_queue'[d] = rx_queue[d]
      BY <1>0, <1>t DEF Puts
    <2>. QED
      BY <1>4, <1>5, <1>6, <2>1, SameBalanced
  <1>. QED
    BY <1>3, <1>7, <1>8, <1>t DEF Buffers

\* c lets go of the pointer to a buffer that is back in its pool.
Drops(c) ==
    /\ pc[c] = "wake" /\ pc'[c] \notin Busy /\ \A o \in Ctxs : o # c => pc'[o] = pc[o]
    /\ hand' = [hand EXCEPT ![c] = NoPkt] /\ ppool' = ppool /\ rx_queue' = rx_queue

\* Letting go of it keeps the balance.
LEMMA Dropped ==
    ASSUME SnullInv, NEW c \in Ctxs, Drops(c)
    PROVE  Handling' /\ Buffers'
  <1>0. hand \in [Ctxs -> Pkts \cup {NoPkt}]
    BY DEF SnullInv, SnullTypes
  <1>1. \A o \in Ctxs : o # c => (pc'[o] = pc[o] /\ hand'[o] = hand[o])
    BY <1>0 DEF Drops
  <1>2. hand'[c] = NoPkt /\ pc'[c] \notin Busy /\ pc[c] = "wake"
    BY <1>0 DEF Drops
  <1>3. Handling'
    BY <1>1, <1>2 DEF SnullInv, Handling, Busy
  <1>4. ASSUME NEW d \in Devs
        PROVE  Holding(d)' = Holding(d) /\ \A o \in Holding(d) : hand'[o] = hand[o]
    BY <1>1, <1>2 DEF Holding
  <1>5. ppool' = ppool /\ rx_queue' = rx_queue
    BY DEF Drops
  <1>6. ASSUME NEW d \in Devs
        PROVE  Balanced(d, ppool[d], rx_queue[Twin(d)], Holding(d), hand')
    BY <1>4, SameBalanced DEF SnullInv, Buffers
  <1>7. Buffers'
    BY <1>4, <1>5, <1>6 DEF Buffers
  <1>. QED
    BY <1>3, <1>7

\* The types of what is neither a list nor a hand.
DevTypes ==
    /\ bottom \in [Pkts -> BOOLEAN]
    /\ status \in [Devs -> SUBSET {"RX", "TX"}]
    /\ rx_int_enabled \in [Devs -> BOOLEAN] /\ stopped \in [Devs -> BOOLEAN]
    /\ sched \in [Devs -> BOOLEAN] /\ up \in [Devs -> BOOLEAN]
    /\ skb \in [Devs -> {"none", "held", "freed", "wrong"}]
    /\ reg \in [Ctxs -> SUBSET {"RX", "TX"}]

\* A new truth value in a function.
LEMMA BoolSet ==
    ASSUME NEW S, NEW f \in [S -> BOOLEAN], NEW x, NEW b \in BOOLEAN
    PROVE  [f EXCEPT ![x] = b] \in [S -> BOOLEAN]
  BY Zenon

\* The labels and the return labels of a step.
PcTypes ==
    /\ pc \in [Ctxs -> TxPC \cup PollPC]
    /\ \A d \in Devs : pc[T(d)] \in TxPC /\ pc[P(d)] \in PollPC
    /\ ret \in [Ctxs -> {"idle", "tx_load", "timeout_wake", "poll_more"}]
    /\ \A d \in Devs : ret[T(d)] # "poll_more" /\ ret[P(d)] \in {"idle", "poll_more"}

\* What a step does to lists and hands.
ListStep ==
    \/ KeepsHands
    \/ \E c \in Ctxs : Returns(c)
    \/ \E c \in Ctxs : \E d \in Devs : Takes(c, d) /\ (pc'[c] = "enqueue" => c[2] = d)
    \/ \E c \in Ctxs : \E d \in Devs : Puts(c, d)
    \/ \E c \in Ctxs : Drops(c)

\* Lists and hands keep their types.
LEMMA ListTypes ==
    ASSUME SnullInv, ListStep
    PROVE  /\ ppool' \in [Devs -> Seq(Pkts)] /\ rx_queue' \in [Devs -> Seq(Pkts)]
           /\ hand' \in [Ctxs -> Pkts \cup {NoPkt}]
  <1>0. /\ hand \in [Ctxs -> Pkts \cup {NoPkt}] /\ \A e \in Devs : ppool[e] \in Seq(Pkts) /\ rx_queue[e] \in Seq(Pkts)
        /\ ppool \in [Devs -> Seq(Pkts)] /\ rx_queue \in [Devs -> Seq(Pkts)]
    BY DEF SnullInv, SnullTypes
  <1>1. CASE KeepsHands \/ \E c \in Ctxs : Returns(c) \/ Drops(c)
    BY <1>0, <1>1 DEF KeepsHands, Returns, Drops
  <1>2. ASSUME NEW c \in Ctxs, NEW d \in Devs, Takes(c, d)
        PROVE  /\ ppool' \in [Devs -> Seq(Pkts)] /\ rx_queue' \in [Devs -> Seq(Pkts)]
               /\ hand' \in [Ctxs -> Pkts \cup {NoPkt}]
    <2>t. Twin(d) \in Devs
      BY Interfaces
    <2>1. /\ ppool[d] # <<>> => Head(ppool[d]) \in Pkts /\ Tail(ppool[d]) \in Seq(Pkts)
          /\ rx_queue[Twin(d)] # <<>> =>
               Head(rx_queue[Twin(d)]) \in Pkts /\ Tail(rx_queue[Twin(d)]) \in Seq(Pkts)
      BY <1>0, <2>t, HeadTail
    <2>. QED
      BY <1>0, <1>2, <2>t, <2>1 DEF Takes
  <1>3. ASSUME NEW c \in Ctxs, NEW d \in Devs, Puts(c, d)
        PROVE  /\ ppool' \in [Devs -> Seq(Pkts)] /\ rx_queue' \in [Devs -> Seq(Pkts)]
               /\ hand' \in [Ctxs -> Pkts \cup {NoPkt}]
    <2>t. Twin(d) \in Devs
      BY Interfaces
    <2>1. hand[c] \in Pkts
      BY <1>0, <1>3 DEF Puts, SnullInv, Handling
    <2>. DEFINE a == <<hand[c]>> \o ppool[d]
                b == <<hand[c]>> \o rx_queue[Twin(d)]
    <2>2. a \in Seq(Pkts) /\ b \in Seq(Pkts)
      BY <1>0, <2>t, <2>1, Pushed
    <2>3. \/ ppool' = [ppool EXCEPT ![d] = a] /\ rx_queue' = rx_queue /\ hand' = hand
          \/ ppool' = ppool /\ rx_queue' = [rx_queue EXCEPT ![Twin(d)] = b] /\ hand' = [hand EXCEPT ![c] = NoPkt]
      BY <1>3 DEF Puts
    <2>. HIDE DEF a, b
    <2>. QED
      BY <1>0, <2>2, <2>3
  <1>. QED
    BY <1>1, <1>2, <1>3 DEF ListStep

\* What is left to show of a step: how it moves buffers, and the other types.
LEMMA ListStepInv ==
    ASSUME SnullInv, ListStep, DevTypes', PcTypes'
    PROVE  SnullInv'
  <1>1. Handling' /\ Buffers'
    BY KeptHands, Taken, Put, Dropped DEF ListStep
  <1>2. SnullTypes'
    BY ListTypes DEF SnullTypes, DevTypes, PcTypes
  <1>. QED
    BY <1>1, <1>2 DEF SnullInv

\* The steps of a context that move no buffer, and of ifconfig.
QuietStep(d) ==
    \/ Tx(d) \/ RxTest(d) \/ RaiseRx(d) \/ RaiseTx(d) \/ Lockup(d) \/ Timeout(d) \/ TimeoutWake(d)
    \/ PollStart(d) \/ PollDeliver(d) \/ PollStop(d) \/ PollTest(d) \/ PollInts(d) \/ Down(d) \/ Open(d)

\* The labels between which they lead.
LEMMA QuietLabels ==
    ASSUME NEW d \in Devs, QuietStep(d)
    PROVE  \/ \E l, m \in TxPC \ Busy : Turn(T(d), l, m)
           \/ \E l, m \in PollPC \ Busy : Turn(P(d), l, m)
           \/ Turn(P(d), "deliver", "push")
           \/ (Down(d) \/ Open(d)) /\ pc' = pc
  <1>. USE DEF Turn, At, Late, Goto, T, P, TxPC, PollPC, Busy
  <1>1. CASE Tx(d) \/ Timeout(d) \/ TimeoutWake(d) \/ PollStart(d) \/ PollInts(d)
    BY <1>1 DEF Tx, Timeout, TimeoutWake, PollStart, PollInts
  <1>2. CASE RxTest(d) \/ RaiseRx(d) \/ RaiseTx(d)
    BY <1>2 DEF RxTest, RaiseRx, RaiseTx, Load, Store
  <1>3. CASE Lockup(d) \/ PollStop(d) \/ PollTest(d)
    BY <1>3 DEF Lockup, PollStop, PollTest
  <1>4. CASE PollDeliver(d) \/ Down(d) \/ Open(d)
    BY <1>4 DEF PollDeliver, Down, Open
  <1>. QED
    BY <1>1, <1>2, <1>3, <1>4 DEF QuietStep

\* They move no buffer.
LEMMA QuietLists ==
    ASSUME SnullInv, NEW d \in Devs, QuietStep(d)
    PROVE  (KeepsHands \/ \E c \in Ctxs : Returns(c)) /\ PcTypes'
  <1>1. ppool' = ppool /\ rx_queue' = rx_queue /\ hand' = hand /\ ret' = ret
    BY Zenon DEF QuietStep, Tx, RxTest, RaiseRx, RaiseTx, Load, Store, Lockup, Timeout, TimeoutWake, PollStart,
                 PollDeliver, PollStop, PollTest, PollInts, Down, Open, lists
  <1>t. SnullTypes
    BY DEF SnullInv
  <1>2. CASE \E l, m \in TxPC \ Busy : Turn(T(d), l, m)
    <2>1. PICK l \in TxPC \ Busy, m \in TxPC \ Busy : Turn(T(d), l, m)
      BY <1>2
    <2>2. T(d) \in Ctxs /\ m \in TxPC \cup PollPC /\ \A e \in Devs : T(d) # P(e)
      BY Contexts
    <2>3. /\ pc' \in [Ctxs -> TxPC \cup PollPC] /\ \A e \in Devs : pc'[T(e)] \in TxPC /\ pc'[P(e)] \in PollPC
          /\ pc'[T(d)] = m /\ \A o \in Ctxs : o # T(d) => pc'[o] = pc[o]
      BY <1>t, <2>1, <2>2, Labels
    <2>. QED
      BY <1>t, <1>1, <2>1, <2>2, <2>3 DEF KeepsHands, PcTypes, SnullTypes, Turn
  <1>3. CASE \E l, m \in PollPC \ Busy : Turn(P(d), l, m)
    <2>1. PICK l \in PollPC \ Busy, m \in PollPC \ Busy : Turn(P(d), l, m)
      BY <1>3
    <2>2. P(d) \in Ctxs /\ m \in TxPC \cup PollPC /\ \A e \in Devs : T(e) # P(d)
      BY Contexts
    <2>3. /\ pc' \in [Ctxs -> TxPC \cup PollPC] /\ \A e \in Devs : pc'[T(e)] \in TxPC /\ pc'[P(e)] \in PollPC
          /\ pc'[P(d)] = m /\ \A o \in Ctxs : o # P(d) => pc'[o] = pc[o]
      BY <1>t, <2>1, <2>2, Labels
    <2>. QED
      BY <1>t, <1>1, <2>1, <2>2, <2>3 DEF KeepsHands, PcTypes, SnullTypes, Turn
  <1>4. CASE (Down(d) \/ Open(d)) /\ pc' = pc
    <2>1. pc[T(d)] = "idle" /\ T(d) \in Ctxs
      BY <1>4, Contexts DEF Down, Open, Late, At, T
    <2>. QED
      BY <1>t, <1>1, <1>4, <2>1 DEF KeepsHands, PcTypes, SnullTypes, Busy
  <1>5. CASE Turn(P(d), "deliver", "push")
    <2>1. P(d) \in Ctxs /\ \A e \in Devs : T(e) # P(d)
      BY Contexts
    <2>2. /\ pc' \in [Ctxs -> TxPC \cup PollPC] /\ \A e \in Devs : pc'[T(e)] \in TxPC /\ pc'[P(e)] \in PollPC
          /\ pc'[P(d)] = "push" /\ \A o \in Ctxs : o # P(d) => pc'[o] = pc[o]
      BY <1>t, <1>5, <2>1, Labels DEF PollPC
    <2>. QED
      BY <1>t, <1>1, <1>5, <2>1, <2>2 DEF Returns, PcTypes, SnullTypes, Turn
  <1>. QED
    BY <1>2, <1>3, <1>4, <1>5, QuietLabels

\* They keep the types.
LEMMA QuietTypes ==
    ASSUME SnullInv, NEW d \in Devs, QuietStep(d)
    PROVE  DevTypes'
  <1>t. DevTypes /\ T(d) \in Ctxs /\ Twin(d) \in Devs
    BY Contexts, Interfaces DEF SnullInv, SnullTypes, DevTypes
  <1>1. CASE Tx(d)
    BY <1>t, <1>1 DEF Tx, DevTypes, lists
  <1>2. CASE RxTest(d) \/ PollStart(d) \/ PollDeliver(d) \/ PollStop(d)
    BY <1>t, <1>2 DEF RxTest, PollStart, PollDeliver, PollStop, DevTypes, lists, dev, config
  <1>3. CASE RaiseRx(d) \/ RaiseTx(d)
    <2>1. reg[T(d)] \in SUBSET {"RX", "TX"} /\ status[d] \in SUBSET {"RX", "TX"}
          /\ status[Twin(d)] \in SUBSET {"RX", "TX"}
      BY <1>t DEF DevTypes
    <2>. QED
      BY <1>t, <1>3, <2>1 DEF RaiseRx, RaiseTx, Load, Store, DevTypes, lists, dev, config, T
  <1>4. CASE Lockup(d)
    <2>1. stopped' \in [Devs -> BOOLEAN]
      BY <1>t, <1>4, BoolSet, Zenon DEF Lockup, DevTypes
    <2>. QED
      BY <1>t, <1>4, <2>1 DEF Lockup, DevTypes, lists, dev, config
  <1>5. CASE Timeout(d)
    BY <1>t, <1>5 DEF Timeout, DevTypes, lists, config
  <1>9. CASE TimeoutWake(d)
    BY <1>t, <1>9 DEF TimeoutWake, DevTypes, lists, dev, config
  <1>6. CASE PollTest(d)
    <2>1. sched' \in [Devs -> BOOLEAN]
      BY <1>t, <1>6, BoolSet, Zenon DEF PollTest, DevTypes
    <2>. QED
      BY <1>t, <1>6, <2>1 DEF PollTest, DevTypes, lists, config
  <1>7. CASE PollInts(d)
    BY <1>t, <1>7 DEF PollInts, DevTypes, lists, config
  <1>8. CASE Down(d) \/ Open(d)
    BY <1>t, <1>8 DEF Down, Open, DevTypes, lists, dev
  <1>. QED
    BY <1>1, <1>2, <1>3, <1>4, <1>5, <1>6, <1>7, <1>8, <1>9 DEF QuietStep

-----------------------------------------------------------------------------
(* The steps that move a buffer.                                           *)

\* What a step of one context leaves of the labels, when it keeps the return labels.
LEMMA StepLabels ==
    ASSUME SnullInv, NEW c \in Ctxs, NEW l, NEW m, Turn(c, l, m), ret' = ret,
           m \in TxPC \cup PollPC, \A d \in Devs : (c = T(d) => m \in TxPC) /\ (c = P(d) => m \in PollPC)
    PROVE  PcTypes' /\ pc'[c] = m /\ \A o \in Ctxs : o # c => pc'[o] = pc[o]
  <1>1. SnullTypes
    BY DEF SnullInv
  <1>2. /\ pc' \in [Ctxs -> TxPC \cup PollPC] /\ \A d \in Devs : pc'[T(d)] \in TxPC /\ pc'[P(d)] \in PollPC
        /\ pc'[c] = m /\ \A o \in Ctxs : o # c => pc'[o] = pc[o]
    BY <1>1, Labels
  <1>. QED
    BY <1>1, <1>2 DEF PcTypes, SnullTypes

\* snull_get_tx_buffer takes the head of the own pool.
LEMMA GetTxBufferStep ==
    ASSUME SnullInv, NEW d \in Devs, GetTxBuffer(d)
    PROVE  ListStep /\ DevTypes' /\ PcTypes'
  <1>c. /\ T(d) \in Ctxs /\ T(d)[2] = d
        /\ \A e \in Devs : T(d) # P(e)
    BY Contexts
  <1>t. DevTypes
    BY DEF SnullInv, SnullTypes, DevTypes
  <1>0. /\ pc[T(d)] = "get" /\ rx_queue' = rx_queue /\ ret' = ret
        /\ bottom' = bottom /\ status' = status /\ rx_int_enabled' = rx_int_enabled
        /\ sched' = sched /\ up' = up /\ skb' = skb /\ reg' = reg
    BY DEF GetTxBuffer, At, T, dev, config
  <1>1. CASE ppool[d] = <<>>
    <2>1. Turn(T(d), "get", "oops") /\ ppool' = ppool /\ hand' = hand /\ stopped' = stopped
      BY <1>0, <1>1 DEF GetTxBuffer, Turn, Goto, T
    <2>2. PcTypes' /\ pc'[T(d)] = "oops" /\ \A o \in Ctxs : o # T(d) => pc'[o] = pc[o]
      BY <1>0, <1>c, <2>1, StepLabels DEF TxPC
    <2>3. KeepsHands
      BY <1>0, <1>c, <2>1, <2>2 DEF KeepsHands, Busy
    <2>4. DevTypes'
      BY <1>t, <1>0, <2>1 DEF DevTypes
    <2>. QED
      BY <2>2, <2>3, <2>4 DEF ListStep
  <1>2. CASE ppool[d] # <<>>
    <2>1. /\ Turn(T(d), "get", "enqueue") /\ hand' = [hand EXCEPT ![T(d)] = Head(ppool[d])]
          /\ ppool' = [ppool EXCEPT ![d] = Tail(@)]
          /\ stopped' = [stopped EXCEPT ![d] = @ \/ Len(ppool[d]) = 1]
      BY <1>0, <1>2 DEF GetTxBuffer, Turn, Goto, T
    <2>2. PcTypes' /\ pc'[T(d)] = "enqueue" /\ \A o \in Ctxs : o # T(d) => pc'[o] = pc[o]
      BY <1>0, <1>c, <2>1, StepLabels DEF TxPC
    <2>3. Takes(T(d), d)
      BY <1>0, <1>c, <1>2, <2>1, <2>2 DEF Takes, Busy
    <2>4. stopped' \in [Devs -> BOOLEAN]
      BY <1>t, <2>1, BoolSet, Zenon DEF DevTypes
    <2>5. DevTypes'
      BY <1>t, <1>0, <2>4 DEF DevTypes
    <2>. QED
      BY <1>c, <2>2, <2>3, <2>5 DEF ListStep
  <1>. QED
    BY <1>1, <1>2

\* snull_enqueue_buf puts it into the twin's queue.
LEMMA EnqueueBufStep ==
    ASSUME SnullInv, NEW d \in Devs, EnqueueBuf(d)
    PROVE  ListStep /\ DevTypes' /\ PcTypes'
  <1>c. /\ T(d) \in Ctxs /\ T(d)[2] = d
        /\ \A e \in Devs : T(d) # P(e)
    BY Contexts
  <1>t. DevTypes
    BY DEF SnullInv, SnullTypes, DevTypes
  <1>0. /\ pc[T(d)] = "enqueue" /\ ppool' = ppool /\ ret' = ret /\ stopped' = stopped
        /\ bottom' = [bottom EXCEPT ![hand[T(d)]] = rx_queue[Twin(d)] = <<>>]
        /\ status' = status /\ rx_int_enabled' = rx_int_enabled
        /\ sched' = sched /\ up' = up /\ skb' = skb /\ reg' = reg
        /\ hand' = [hand EXCEPT ![T(d)] = NoPkt] /\ Turn(T(d), "enqueue", "rx_test")
        /\ rx_queue' = [rx_queue EXCEPT ![Twin(d)] = <<hand[T(d)]>> \o @]
    BY DEF EnqueueBuf, At, T, dev, config, Turn, Goto
  <1>1. PcTypes' /\ pc'[T(d)] = "rx_test" /\ \A o \in Ctxs : o # T(d) => pc'[o] = pc[o]
    BY <1>0, <1>c, StepLabels DEF TxPC
  <1>2. hand[T(d)][1] = d
    BY <1>0, <1>c DEF SnullInv, Handling
  <1>3. Puts(T(d), d)
    BY <1>0, <1>1, <1>2 DEF Puts, Busy
  <1>4. bottom' \in [Pkts -> BOOLEAN]
    BY <1>t, <1>0, BoolSet, Zenon DEF DevTypes
  <1>5. DevTypes'
    BY <1>t, <1>0, <1>4 DEF DevTypes
  <1>. QED
    BY <1>c, <1>1, <1>3, <1>5 DEF ListStep

\* snull_release_buffer puts a buffer back into its pool,
LEMMA ReleasePushStep ==
    ASSUME SnullInv, NEW c \in Ctxs, ReleasePush(c)
    PROVE  ListStep /\ DevTypes' /\ PcTypes'
  <1>. DEFINE d == hand[c][1]
  <1>t. DevTypes
    BY DEF SnullInv, SnullTypes, DevTypes
  <1>0. /\ pc[c] = "push" /\ rx_queue' = rx_queue /\ ret' = ret /\ stopped' = stopped
        /\ bottom' = [bottom EXCEPT ![hand[c]] = ppool[d] = <<>>]
        /\ status' = status /\ rx_int_enabled' = rx_int_enabled
        /\ sched' = sched /\ up' = up /\ skb' = skb /\ reg' = reg
        /\ hand' = hand /\ Turn(c, "push", "wake")
        /\ ppool' = [ppool EXCEPT ![d] = <<hand[c]>> \o @]
    BY DEF ReleasePush, At, dev, config, Turn, Goto
  <1>1. PcTypes' /\ pc'[c] = "wake" /\ \A o \in Ctxs : o # c => pc'[o] = pc[o]
    BY <1>0, StepLabels DEF TxPC, PollPC
  <1>2. d \in Devs
    <2>1. hand[c] \in Pkts
      BY <1>0 DEF SnullInv, Handling, SnullTypes
    <2>. QED
      BY <2>1, Packets
  <1>3. Puts(c, d)
    BY <1>0, <1>1, <1>2 DEF Puts
  <1>4. bottom' \in [Pkts -> BOOLEAN]
    BY <1>t, <1>0, BoolSet, Zenon DEF DevTypes
  <1>5. DevTypes'
    BY <1>t, <1>0, <1>4 DEF DevTypes
  <1>. QED
    BY <1>1, <1>2, <1>3, <1>5 DEF ListStep

\* and lets go of it.
LEMMA ReleaseWakeStep ==
    ASSUME SnullInv, NEW c \in Ctxs, ReleaseWake(c)
    PROVE  ListStep /\ DevTypes' /\ PcTypes'
  <1>t. DevTypes /\ SnullTypes
    BY DEF SnullInv, SnullTypes, DevTypes
  <1>0. /\ pc[c] = "wake" /\ ppool' = ppool /\ rx_queue' = rx_queue /\ ret' = ret
        /\ stopped' = [stopped EXCEPT ![hand[c][1]] = @ /\ ~bottom[hand[c]]] /\ bottom' = bottom
        /\ status' = status /\ rx_int_enabled' = rx_int_enabled
        /\ sched' = sched /\ up' = up /\ skb' = skb /\ reg' = reg
        /\ hand' = [hand EXCEPT ![c] = NoPkt] /\ Turn(c, "wake", ret[c])
    BY DEF ReleaseWake, At, lists, dev, config, Turn, Goto
  <1>1. /\ ret[c] \in TxPC \cup PollPC /\ ret[c] \notin Busy
        /\ \A d \in Devs : (c = T(d) => ret[c] \in TxPC) /\ (c = P(d) => ret[c] \in PollPC)
    BY <1>t DEF SnullTypes, TxPC, PollPC, Busy
  <1>2. PcTypes' /\ pc'[c] = ret[c] /\ \A o \in Ctxs : o # c => pc'[o] = pc[o]
    BY <1>0, <1>1, StepLabels
  <1>3. Drops(c)
    BY <1>0, <1>1, <1>2 DEF Drops
  <1>4. stopped' \in [Devs -> BOOLEAN]
    BY <1>t, <1>0, BoolSet, Zenon DEF DevTypes
  <1>5. DevTypes'
    BY <1>t, <1>0, <1>4 DEF DevTypes
  <1>. QED
    BY <1>2, <1>3, <1>5 DEF ListStep

Calls(c, r) == ret' = [ret EXCEPT ![c] = r]

\* The same for a step that sets the return label of its context.
LEMMA CallLabels ==
    ASSUME SnullInv, NEW c \in Ctxs, NEW l, NEW m, NEW r, Turn(c, l, m), Calls(c, r),
           m \in TxPC \cup PollPC, r \in {"idle", "tx_load", "timeout_wake", "poll_more"},
           \A d \in Devs : /\ c = T(d) => m \in TxPC /\ r # "poll_more"
                           /\ c = P(d) => m \in PollPC /\ r \in {"idle", "poll_more"}
    PROVE  PcTypes' /\ pc'[c] = m /\ \A o \in Ctxs : o # c => pc'[o] = pc[o]
  <1>1. SnullTypes
    BY DEF SnullInv
  <1>2. /\ pc' \in [Ctxs -> TxPC \cup PollPC] /\ \A d \in Devs : pc'[T(d)] \in TxPC /\ pc'[P(d)] \in PollPC
        /\ pc'[c] = m /\ \A o \in Ctxs : o # c => pc'[o] = pc[o]
    BY <1>1, Labels
  <1>3. ret' \in [Ctxs -> {"idle", "tx_load", "timeout_wake", "poll_more"}]
    BY <1>1 DEF SnullTypes, Calls
  <1>4. \A d \in Devs : ret'[T(d)] # "poll_more" /\ ret'[P(d)] \in {"idle", "poll_more"}
    BY <1>1, Contexts DEF SnullTypes, Calls
  <1>. QED
    BY <1>2, <1>3, <1>4 DEF PcTypes

\* snull_poll takes the head of its queue.
LEMMA PollTakeStep ==
    ASSUME SnullInv, NEW d \in Devs, PollTake(d)
    PROVE  ListStep /\ DevTypes' /\ PcTypes'
  <1>c. /\ P(d) \in Ctxs /\ Twin(d) \in Devs /\ Twin(Twin(d)) = d
        /\ \A e \in Devs : P(d) # T(e)
    BY Contexts, Interfaces
  <1>t. DevTypes
    BY DEF SnullInv, SnullTypes, DevTypes
  <1>0. /\ pc[P(d)] \in {"poll_first", "poll_more"} /\ rx_queue[d] # <<>> /\ ppool' = ppool
        /\ Calls(P(d), "poll_more") /\ stopped' = stopped
        /\ bottom' = bottom /\ status' = status /\ rx_int_enabled' = rx_int_enabled
        /\ sched' = sched /\ up' = up /\ skb' = skb /\ reg' = reg
        /\ hand' = [hand EXCEPT ![P(d)] = Head(rx_queue[d])] 
        /\ \E m \in {"deliver", "push"} : Turn(P(d), pc[P(d)], m)
        /\ rx_queue' = [rx_queue EXCEPT ![d] = Tail(@)]
    BY DEF PollTake, At, Calls, P, dev, config, Turn, Goto
  <1>m. PICK m \in {"deliver", "push"} : Turn(P(d), pc[P(d)], m)
    BY <1>0
  <1>1. PcTypes' /\ pc'[P(d)] = m /\ \A o \in Ctxs : o # P(d) => pc'[o] = pc[o]
    BY <1>0, <1>m, <1>c, CallLabels DEF TxPC, PollPC
  <1>2. Takes(P(d), Twin(d))
    BY <1>0, <1>c, <1>1 DEF Takes, Busy
  <1>3. DevTypes'
    BY <1>t, <1>0 DEF DevTypes
  <1>. QED
    BY <1>c, <1>1, <1>2, <1>3 DEF ListStep

\* An interrupt of interface e, in the transmit context of d.
LEMMA InterruptStep ==
    ASSUME SnullInv, NEW d \in Devs, NEW e \in Devs, NEW from \in TxPC \ Busy,
           NEW next \in {"idle", "tx_load", "timeout_wake"}, Interrupt(d, e, from, next)
    PROVE  ListStep /\ DevTypes' /\ PcTypes'
  <1>. DEFINE c == T(d)
  <1>c. /\ c \in Ctxs /\ Twin(e) \in Devs /\ Twin(Twin(e)) = e
        /\ \A x \in Devs : c # P(x)
    BY Contexts, Interfaces
  <1>t. DevTypes
    BY DEF SnullInv, SnullTypes, DevTypes
  <1>0. /\ pc[c] = from /\ ppool' = ppool /\ bottom' = bottom /\ stopped' = stopped /\ up' = up /\ reg' = reg
        /\ status' = [status EXCEPT ![e] = {}]
        /\ skb' = [skb EXCEPT ![e] = IF "TX" \in status[e] THEN Freed(@) ELSE @]
    BY DEF Interrupt, At, T, config
  <1>1. skb' \in [Devs -> {"none", "held", "freed", "wrong"}] /\ status' \in [Devs -> SUBSET {"RX", "TX"}]
    BY <1>t, <1>0 DEF DevTypes, Freed
  <1>2. CASE cf.use_napi
    <2>1. /\ rx_int_enabled' = [rx_int_enabled EXCEPT ![e] = @ /\ "RX" \notin status[e]]
          /\ sched' = [sched EXCEPT ![e] = @ \/ ("RX" \in status[e] /\ up[e])]
          /\ Turn(c, from, next) /\ rx_queue' = rx_queue /\ hand' = hand /\ ret' = ret
      BY <1>0, <1>2 DEF Interrupt, NapiInterrupt, T, Turn, Goto
    <2>2. PcTypes' /\ pc'[c] = next /\ \A o \in Ctxs : o # c => pc'[o] = pc[o]
      BY <1>c, <2>1, StepLabels DEF TxPC
    <2>3. KeepsHands
      BY <1>0, <1>c, <2>1, <2>2 DEF KeepsHands, Busy
    <2>4. rx_int_enabled' \in [Devs -> BOOLEAN] /\ sched' \in [Devs -> BOOLEAN]
      BY <1>t, <2>1, BoolSet, Zenon DEF DevTypes
    <2>5. DevTypes'
      BY <1>t, <1>0, <1>1, <2>4 DEF DevTypes
    <2>. QED
      BY <2>2, <2>3, <2>5 DEF ListStep
  <1>3. CASE ~cf.use_napi
    <2>. DEFINE pkt == IF "RX" \in status[e] /\ rx_queue[e] # <<>> THEN Head(rx_queue[e]) ELSE NoPkt
    <2>1. /\ hand' = [hand EXCEPT ![c] = pkt]
          /\ rx_queue' = IF pkt = NoPkt THEN rx_queue ELSE [rx_queue EXCEPT ![e] = Tail(@)]
          /\ Calls(c, next)
          /\ Turn(c, from, IF pkt = NoPkt THEN next ELSE "push")
          /\ rx_int_enabled' = rx_int_enabled /\ sched' = sched
      BY <1>0, <1>3 DEF Interrupt, RegularInterrupt, T, Turn, Goto, Calls
    <2>2. DevTypes'
      BY <1>t, <1>0, <1>1, <2>1 DEF DevTypes
    <2>3. CASE pkt = NoPkt
      <3>1. Turn(c, from, next) /\ rx_queue' = rx_queue /\ hand' = [hand EXCEPT ![c] = NoPkt]
        BY <2>1, <2>3
      <3>2. PcTypes' /\ pc'[c] = next /\ \A o \in Ctxs : o # c => pc'[o] = pc[o]
        BY <1>c, <2>1, <3>1, CallLabels DEF TxPC
      <3>3. hand' = hand
        <4>1. hand[c] = NoPkt /\ hand \in [Ctxs -> Pkts \cup {NoPkt}]
          BY <1>0, <1>c DEF SnullInv, Handling, SnullTypes, Busy
        <4>. QED
          BY <3>1, <4>1
      <3>4. KeepsHands
        BY <1>0, <1>c, <3>1, <3>2, <3>3 DEF KeepsHands, Busy
      <3>. QED
        BY <2>2, <3>2, <3>4 DEF ListStep
    <2>4. CASE pkt # NoPkt
      <3>1. /\ Turn(c, from, "push") /\ rx_queue' = [rx_queue EXCEPT ![e] = Tail(@)]
            /\ hand' = [hand EXCEPT ![c] = Head(rx_queue[e])] /\ rx_queue[e] # <<>>
        BY <2>1, <2>4
      <3>2. PcTypes' /\ pc'[c] = "push" /\ \A o \in Ctxs : o # c => pc'[o] = pc[o]
        BY <1>c, <2>1, <3>1, CallLabels DEF TxPC
      <3>3. Takes(c, Twin(e))
        BY <1>0, <1>c, <3>1, <3>2 DEF Takes, Busy
      <3>. QED
        BY <1>c, <2>2, <3>2, <3>3 DEF ListStep
    <2>. QED
      BY <2>3, <2>4
  <1>. QED
    BY <1>2, <1>3

-----------------------------------------------------------------------------
(* Buffers are conserved.                                                  *)

\* Every step keeps the invariant.
LEMMA SnullInvStep ==
    ASSUME SnullInv, [Next]_vars
    PROVE  SnullInv'
  <1>. DEFINE Good == ListStep /\ DevTypes' /\ PcTypes'
  <1>g. ASSUME Good PROVE SnullInv'
    BY <1>g, ListStepInv
  <1>1. ASSUME NEW d \in Devs, QuietStep(d) PROVE Good
    BY <1>1, QuietLists, QuietTypes DEF ListStep
  <1>2. ASSUME NEW d \in Devs, Interrupts(d) PROVE Good
    <2>1. Twin(d) \in Devs
      BY Interfaces
    <2>2. CASE Interrupt(d, Twin(d), "rx_int", "tx_load")
      BY <2>1, <2>2, InterruptStep DEF TxPC, Busy
    <2>3. CASE Interrupt(d, d, "tx_int", "idle")
      BY <2>3, InterruptStep DEF TxPC, Busy
    <2>4. CASE Interrupt(d, d, "timeout_int", "timeout_wake")
      BY <2>4, InterruptStep DEF TxPC, Busy
    <2>. QED
      BY <1>2, <2>2, <2>3, <2>4 DEF Interrupts
  <1>3. ASSUME NEW d \in Devs, \E c \in {T(d), P(d)} : ReleasePush(c) \/ ReleaseWake(c) PROVE Good
    BY <1>3, Contexts, ReleasePushStep, ReleaseWakeStep
  <1>4. ASSUME NEW d \in Devs, GetTxBuffer(d) \/ EnqueueBuf(d) \/ PollTake(d) PROVE Good
    BY <1>4, GetTxBufferStep, EnqueueBufStep, PollTakeStep
  <1>5. CASE Next
    <2>. HIDE DEF Good
    <2>1. PICK d \in Devs : Tx(d) \/ TxSteps(d) \/ PollSteps(d) \/ Timeout(d) \/ Down(d) \/ Open(d)
      BY <1>5 DEF Next
    <2>2. Good
      BY <2>1, <1>1, <1>2, <1>3, <1>4 DEF TxSteps, PollSteps, QuietStep, T, P
    <2>. QED
      BY <2>2, <1>g
  <1>6. CASE UNCHANGED vars
    <2>1. /\ UNCHANGED <<ppool, rx_queue, bottom, status, rx_int_enabled, stopped, sched, up, skb>>
          /\ UNCHANGED <<pc, hand, reg, ret>>
      BY <1>6 DEF vars, lists, dev, config
    <2>2. SnullTypes' /\ Handling'
      BY <2>1 DEF SnullInv, SnullTypes, Handling
    <2>3. ASSUME NEW d \in Devs PROVE Holding(d)' = Holding(d)
      BY <2>1 DEF Holding
    <2>4. Buffers'
      BY <2>1, <2>3 DEF SnullInv, Buffers
    <2>. QED
      BY <2>2, <2>4 DEF SnullInv
  <1>. QED
    BY <1>5, <1>6

\* The pools as snull_setup_pool leaves them satisfy it.
LEMMA SnullInvInit ==
    ASSUME Init
    PROVE  SnullInv
  <1>p. PoolSize \in Nat
    BY SnullAssumption
  <1>1. SnullTypes
    <2>1. ppool \in [Devs -> Seq(Pkts)]
      BY <1>p DEF Init, Pkts
    <2>2. bottom \in [Pkts -> BOOLEAN]
      BY Zenon DEF Init
    <2>3. /\ rx_queue \in [Devs -> Seq(Pkts)] /\ status \in [Devs -> SUBSET {"RX", "TX"}]
          /\ rx_int_enabled \in [Devs -> BOOLEAN] /\ stopped \in [Devs -> BOOLEAN]
          /\ sched \in [Devs -> BOOLEAN] /\ up \in [Devs -> BOOLEAN]
          /\ skb \in [Devs -> {"none", "held", "freed", "wrong"}]
      BY DEF Init
    <2>4. /\ pc \in [Ctxs -> TxPC \cup PollPC] /\ hand \in [Ctxs -> Pkts \cup {NoPkt}]
          /\ reg \in [Ctxs -> SUBSET {"RX", "TX"}]
          /\ ret \in [Ctxs -> {"idle", "tx_load", "timeout_wake", "poll_more"}]
      BY DEF Init, TxPC
    <2>5. \A d \in Devs : /\ pc[T(d)] \in TxPC /\ pc[P(d)] \in PollPC
                         /\ ret[T(d)] # "poll_more" /\ ret[P(d)] \in {"idle", "poll_more"}
      BY Contexts DEF Init, TxPC, PollPC
    <2>. QED
      BY <2>1, <2>2, <2>3, <2>4, <2>5 DEF SnullTypes
  <1>2. Handling
    BY DEF Init, Handling
  <1>3. ASSUME NEW d \in Devs PROVE Balanced(d, ppool[d], rx_queue[Twin(d)], Holding(d), hand)
    <2>1. Holding(d) = {} /\ Cardinality(Holding(d)) = 0
      BY FS_EmptySet DEF Init, Holding
    <2>2. rx_queue[Twin(d)] = <<>> /\ Len(rx_queue[Twin(d)]) = 0 /\ Range(rx_queue[Twin(d)]) = {}
      BY <1>3, Interfaces DEF Init, Range
    <2>3. /\ ppool[d] = [i \in 1..PoolSize |-> <<d, PoolSize + 1 - i>>]
          /\ Len(ppool[d]) = PoolSize
      BY <1>p, <1>3 DEF Init
    <2>4. ASSUME NEW x \in {d} \X (1..PoolSize) PROVE x \in Range(ppool[d])
      <3>. DEFINE i == PoolSize + 1 - x[2]
      <3>1. i \in 1..PoolSize /\ PoolSize + 1 - i = x[2] /\ x = <<d, x[2]>>
        BY <1>p
      <3>. HIDE DEF i
      <3>2. ppool[d][i] = x /\ i \in DOMAIN ppool[d]
        BY <2>3, <3>1
      <3>. QED
        BY <3>2 DEF Range
    <2>5. ASSUME NEW x \in Range(ppool[d]) PROVE x \in {d} \X (1..PoolSize)
      <3>1. PICK i \in 1..PoolSize : x = <<d, PoolSize + 1 - i>>
        BY <2>3 DEF Range
      <3>2. PoolSize + 1 - i \in 1..PoolSize
        BY <1>p
      <3>. QED
        BY <3>1, <3>2
    <2>6. Range(ppool[d]) = {d} \X (1..PoolSize)
      BY <2>4, <2>5
    <2>. QED
      BY <1>p, <2>1, <2>2, <2>3, <2>6 DEF Balanced
  <1>. QED
    BY <1>1, <1>2, <1>3 DEF SnullInv, Buffers

\* It says that buffers are conserved.
LEMMA SnullInvConserved ==
    ASSUME SnullInv
    PROVE  Conserved
  <1>1. ASSUME NEW d \in Devs
        PROVE  LET held == [c \in Ctxs |-> {p \in InHand(c) : p[1] = d}] IN
               /\ UNION {held[c] : c \in Ctxs} = {hand[c] : c \in Holding(d)}
               /\ {c \in Ctxs : held[c] # {}} = Holding(d)
    <2>. DEFINE held == [c \in Ctxs |-> {p \in InHand(c) : p[1] = d}]
    <2>1. ASSUME NEW c \in Ctxs PROVE held[c] = IF c \in Holding(d) THEN {hand[c]} ELSE {}
      BY DEF InHand, Holding
    <2>. HIDE DEF held
    <2>2. {c \in Ctxs : held[c] # {}} = Holding(d)
      BY <2>1 DEF Holding
    <2>3. UNION {held[c] : c \in Ctxs} = {hand[c] : c \in Holding(d)}
      <3>1. ASSUME NEW x \in UNION {held[c] : c \in Ctxs} PROVE x \in {hand[c] : c \in Holding(d)}
        <4>1. PICK c \in Ctxs : x \in held[c]
          BY <3>1
        <4>. QED
          BY <2>1, <4>1
      <3>2. ASSUME NEW c \in Holding(d) PROVE hand[c] \in UNION {held[o] : o \in Ctxs}
        <4>1. c \in Ctxs
          BY DEF Holding
        <4>. QED
          BY <2>1, <4>1
      <3>. QED
        BY <3>1, <3>2
    <2>. QED
      BY <2>2, <2>3 DEF held
  <1>2. ASSUME NEW d \in Devs PROVE Balanced(d, ppool[d], rx_queue[Twin(d)], Holding(d), hand)
    BY <1>2 DEF SnullInv, Buffers
  <1>. QED
    BY <1>1, <1>2 DEF Conserved, Balanced

\* On any kernel, at any moment, every buffer is in one place: no packet is received twice
\* and no buffer is overwritten while it is queued or being received (132-187, 359-374).
THEOREM SnullConserved == Spec => []Conserved
  <1>1. Init => SnullInv
    BY SnullInvInit
  <1>2. SnullInv /\ [Next]_vars => SnullInv'
    BY SnullInvStep
  <1>3. SnullInv => Conserved
    BY SnullInvConserved
  <1>. QED
    BY <1>1, <1>2, <1>3, PTL DEF Spec

-----------------------------------------------------------------------------
(* On a uniprocessor: while a context runs the others are idle, or a poll  *)
(* waits for the stack that transmits; the invariant speaks of one context *)
(* alone.                                                                  *)

Only(c) == \A o \in Ctxs : o # c => pc[o] = "idle"
OnlyTx(d) ==
    /\ \A e \in Devs : e # d => pc[T(e)] = "idle"
    /\ \A e \in Devs : pc[P(e)] \in {"idle", "deliver"}

\* The invariant while the transmit context of d runs;
TxView(d) ==
    /\ pc[T(d)] # "oops"
    /\ \A e \in Devs : ~stopped[e] => ppool[e] # <<>>
    /\ pc[T(d)] \in {"get", "timeout_int", "timeout_wake"} => ppool[d] # <<>>
    /\ pc[T(d)] = "wake" => ppool[hand[T(d)][1]] # <<>>
    /\ pc[T(d)] = "timeout_int" => status[d] = {"TX"}
    /\ pc[T(d)] \in {"push", "wake"} => ret[T(d)] # "timeout_wake"
    /\ rx_queue[d] # <<>> => sched[d]
    /\ rx_queue[Twin(d)] # <<>> => sched[Twin(d)] \/ pc[T(d)] \in {"rx_test", "rx_load", "rx_store", "rx_int"}
    /\ pc[T(d)] = "rx_int" => "RX" \in status[Twin(d)]
    /\ \A e \in Devs : ~rx_int_enabled[e] => sched[e]
    /\ ~cf.use_napi => \A e \in Devs : ~sched[e] /\ Len(rx_queue[e]) <= 1

\* and while its poll runs.
PollView(d) ==
    /\ \A e \in Devs : ~stopped[e] => ppool[e] # <<>>
    /\ pc[P(d)] = "wake" => ppool[hand[P(d)][1]] # <<>>
    /\ \A e \in Devs : rx_queue[e] # <<>> => sched[e]
    /\ \A e \in Devs : ~rx_int_enabled[e] => sched[e] \/ (e = d /\ pc[P(d)] = "poll_ints")
    /\ ~cf.use_napi => pc[P(d)] = "idle" /\ \A e \in Devs : ~sched[e] /\ Len(rx_queue[e]) <= 1

\* When only T(d) may run, the invariant is what T(d) sees,
LEMMA TxViewed ==
    ASSUME SnullTypes, PollUp, NEW d \in Devs, OnlyTx(d)
    PROVE  Uni <=> TxView(d)
  <1>i. /\ \A e \in Devs : Twin(e) \in Devs /\ Twin(Twin(e)) = e /\ Twin(e) # e
        /\ \A e \in Devs : e = d \/ e = Twin(d)
    BY Interfaces
  <1>c. /\ \A e \in Devs : T(e) \in Ctxs /\ P(e) \in Ctxs /\ P(e) # T(d) /\ (e # d => T(e) # T(d))
    BY Contexts
  <1>o. /\ \A e \in Devs : e # d => pc[T(e)] = "idle"
        /\ \A e \in Devs : pc[P(e)] \in {"idle", "deliver"} /\ (pc[P(e)] = "deliver" => sched[e])
        /\ \A c \in Ctxs : c # T(d) => pc[c] \in {"idle", "deliver"}
    BY <1>c, Contexts DEF OnlyTx, PollUp
  <1>1. ASSUME Uni PROVE TxView(d)
    <2>1. pc[T(d)] # "oops"
      BY <1>1, <1>c DEF Uni, Oops
    <2>2. /\ \A e \in Devs : ~stopped[e] => ppool[e] # <<>>
          /\ pc[T(d)] \in {"get", "timeout_int", "timeout_wake"} => ppool[d] # <<>>
          /\ pc[T(d)] = "wake" => ppool[hand[T(d)][1]] # <<>>
      BY <1>1, <1>c DEF Uni, PoolReady
    <2>3. /\ pc[T(d)] = "timeout_int" => status[d] = {"TX"}
          /\ pc[T(d)] \in {"push", "wake"} => ret[T(d)] # "timeout_wake"
      BY <1>1 DEF Uni, TimeoutQuiet
    <2>4. /\ rx_queue[d] # <<>> => sched[d]
          /\ rx_queue[Twin(d)] # <<>> => sched[Twin(d)] \/ pc[T(d)] \in {"rx_test", "rx_load", "rx_store", "rx_int"}
          /\ pc[T(d)] = "rx_int" => "RX" \in status[Twin(d)]
      <3>1. rx_queue[Twin(Twin(d))] # <<>> =>
              sched[Twin(Twin(d))] \/ pc[T(Twin(d))] \in {"rx_test", "rx_load", "rx_store", "rx_int"}
        BY <1>1, <1>i DEF Uni, Announced
      <3>2. pc[T(Twin(d))] = "idle" /\ Twin(Twin(d)) = d
        BY <1>i, <1>o
      <3>. QED
        BY <1>1, <3>1, <3>2 DEF Uni, Announced
    <2>5. \A e \in Devs : ~rx_int_enabled[e] => sched[e]
      BY <1>1, <1>o DEF Uni, IntsOff
    <2>6. ~cf.use_napi => \A e \in Devs : ~sched[e] /\ Len(rx_queue[e]) <= 1
      BY <1>1 DEF Uni, NoPoll
    <2>. QED
      BY <2>1, <2>2, <2>3, <2>4, <2>5, <2>6 DEF TxView
  <1>2. ASSUME TxView(d) PROVE Uni
    <2>2. ~Oops
      BY <1>2, <1>o DEF Oops, TxView
    <2>3. PoolReady
      BY <1>2, <1>o DEF PoolReady, TxView
    <2>4. TimeoutQuiet
      BY <1>2, <1>o DEF TimeoutQuiet, TxView
    <2>5. Announced
      <3>1. ASSUME NEW e \in Devs
            PROVE  /\ rx_queue[Twin(e)] # <<>> =>
                        sched[Twin(e)] \/ pc[T(e)] \in {"rx_test", "rx_load", "rx_store", "rx_int"}
                   /\ pc[T(e)] = "rx_int" => "RX" \in status[Twin(e)]
        <4>1. CASE e = d
          BY <1>2, <4>1 DEF TxView
        <4>2. CASE e # d
          <5>1. Twin(e) = d /\ pc[T(e)] = "idle"
            BY <1>i, <1>o, <4>2
          <5>. QED
            BY <1>2, <5>1 DEF TxView
        <4>. QED
          BY <4>1, <4>2
      <3>. QED
        BY <3>1 DEF Announced
    <2>6. IntsOff
      BY <1>2 DEF IntsOff, TxView
    <2>7. NoPoll
      <3>1. ASSUME ~cf.use_napi, NEW e \in Devs
            PROVE  ~sched[e] /\ rx_int_enabled[e] /\ pc[P(e)] = "idle" /\ Len(rx_queue[e]) <= 1
        BY <1>2, <1>o, <3>1 DEF TxView
      <3>. QED
        BY <3>1 DEF NoPoll
    <2>. QED
      BY <2>2, <2>3, <2>4, <2>5, <2>6, <2>7 DEF Uni
  <1>. QED
    BY <1>1, <1>2

\* and when only P(d) may run, what P(d) sees.
LEMMA PollViewed ==
    ASSUME SnullTypes, NEW d \in Devs, Only(P(d))
    PROVE  Uni <=> PollView(d)
  <1>i. \A e \in Devs : Twin(e) \in Devs /\ Twin(Twin(e)) = e
    BY Interfaces
  <1>c. \A e \in Devs : T(e) \in Ctxs /\ P(e) \in Ctxs /\ T(e) # P(d) /\ (e # d => P(e) # P(d))
    BY Contexts
  <1>o. /\ \A e \in Devs : pc[T(e)] = "idle" /\ (e # d => pc[P(e)] = "idle")
        /\ \A c \in Ctxs : c # P(d) => pc[c] = "idle"
    BY <1>c DEF Only
  <1>1. ASSUME Uni PROVE PollView(d)
    <2>1. /\ \A e \in Devs : ~stopped[e] => ppool[e] # <<>>
          /\ pc[P(d)] = "wake" => ppool[hand[P(d)][1]] # <<>>
      BY <1>1, <1>c DEF Uni, PoolReady
    <2>2. ASSUME NEW e \in Devs PROVE rx_queue[e] # <<>> => sched[e]
      <3>1. Twin(e) \in Devs /\ Twin(Twin(e)) = e /\ pc[T(Twin(e))] = "idle"
        BY <1>i, <1>o
      <3>. QED
        BY <1>1, <3>1 DEF Uni, Announced
    <2>3. \A e \in Devs : ~rx_int_enabled[e] => sched[e] \/ (e = d /\ pc[P(d)] = "poll_ints")
      BY <1>1, <1>o DEF Uni, IntsOff
    <2>4. ~cf.use_napi => pc[P(d)] = "idle" /\ \A e \in Devs : ~sched[e] /\ Len(rx_queue[e]) <= 1
      BY <1>1 DEF Uni, NoPoll
    <2>. QED
      BY <2>1, <2>2, <2>3, <2>4 DEF PollView
  <1>2. ASSUME PollView(d) PROVE Uni
    <2>2. ~Oops
      BY <1>o DEF Oops, SnullTypes, PollPC
    <2>3. PoolReady
      BY <1>2, <1>o DEF PoolReady, PollView
    <2>4. TimeoutQuiet
      BY <1>o DEF TimeoutQuiet
    <2>5. Announced
      BY <1>2, <1>o, <1>i DEF Announced, PollView
    <2>6. IntsOff
      BY <1>2, <1>o DEF IntsOff, PollView
    <2>7. NoPoll
      <3>1. ASSUME ~cf.use_napi, NEW e \in Devs
            PROVE  ~sched[e] /\ rx_int_enabled[e] /\ pc[P(e)] = "idle" /\ Len(rx_queue[e]) <= 1
        BY <1>2, <1>o, <3>1 DEF PollView
      <3>. QED
        BY <3>1 DEF NoPoll
    <2>. QED
      BY <2>2, <2>3, <2>4, <2>5, <2>6, <2>7 DEF Uni
  <1>. QED
    BY <1>1, <1>2

\* When nothing runs and nothing is queued every buffer is in its pool.
LEMMA AllHome ==
    ASSUME SnullInv, Idle, \A e \in Devs : rx_queue[e] = <<>>, NEW d \in Devs
    PROVE  Len(ppool[d]) = PoolSize /\ ppool[d] # <<>>
  <1>1. Holding(d) = {} /\ Cardinality(Holding(d)) = 0
    BY FS_EmptySet DEF Holding, Idle, SnullInv, Handling
  <1>2. rx_queue[Twin(d)] = <<>> /\ Len(rx_queue[Twin(d)]) = 0
    BY Interfaces
  <1>3. Len(ppool[d]) = PoolSize
    <2>1. Len(ppool[d]) + Len(rx_queue[Twin(d)]) + Cardinality(Holding(d)) = PoolSize
      BY DEF SnullInv, Buffers, Balanced
    <2>2. Len(ppool[d]) \in Nat
      BY DEF SnullInv, SnullTypes
    <2>. QED
      BY <1>1, <1>2, <2>1, <2>2
  <1>. QED
    BY <1>3, SnullAssumption

\* What is known of a step of the transmit context of d.
LEMMA TxFacts ==
    ASSUME SnullInv, NEW d \in Devs
    PROVE  /\ T(d) \in Ctxs /\ Twin(d) \in Devs /\ Twin(d) # d /\ Twin(Twin(d)) = d
           /\ \A e \in Devs : e = d \/ e = Twin(d)
           /\ pc \in [Ctxs -> TxPC \cup PollPC]
           /\ stopped \in [Devs -> BOOLEAN] /\ sched \in [Devs -> BOOLEAN] /\ rx_int_enabled \in [Devs -> BOOLEAN]
           /\ ppool \in [Devs -> Seq(Pkts)] /\ rx_queue \in [Devs -> Seq(Pkts)]
           /\ status \in [Devs -> SUBSET {"RX", "TX"}] /\ hand \in [Ctxs -> Pkts \cup {NoPkt}]
           /\ ret \in [Ctxs -> {"idle", "tx_load", "timeout_wake", "poll_more"}]
  BY Contexts, Interfaces DEF SnullInv, SnullTypes

\* A queue that accepts a packet has a buffer for it.
LEMMA TxKeepsView ==
    ASSUME SnullInv, NEW d \in Devs, TxView(d), Tx(d)
    PROVE  TxView(d)'
  <1>. USE TxFacts
  <1>1. /\ pc[T(d)] = "idle" /\ ~stopped[d] /\ pc'[T(d)] = "get"
        /\ UNCHANGED <<ppool, rx_queue, status, rx_int_enabled, stopped, sched, hand, ret, cf>>
    BY DEF Tx, At, Goto, T, lists
  <1>. QED
    BY <1>1 DEF TxView

\* The queue is stopped with the last buffer.
LEMMA GetTxBufferKeepsView ==
    ASSUME SnullInv, NEW d \in Devs, TxView(d), GetTxBuffer(d)
    PROVE  TxView(d)'
  <1>. USE TxFacts
  <1>1. ppool[d] # <<>>
    BY DEF TxView, GetTxBuffer, At, T
  <1>2. /\ pc[T(d)] = "get" /\ pc'[T(d)] = "enqueue"
        /\ ppool' = [ppool EXCEPT ![d] = Tail(@)]
        /\ stopped' = [stopped EXCEPT ![d] = @ \/ Len(ppool[d]) = 1]
        /\ UNCHANGED <<rx_queue, status, rx_int_enabled, sched, ret, cf>>
    BY <1>1 DEF GetTxBuffer, At, Goto, T, dev, config
  <1>3. ASSUME NEW e \in Devs, ~stopped'[e] PROVE ppool'[e] # <<>>
    <2>1. CASE e = d
      <3>1. Len(ppool[d]) # 1
        BY <1>2, <1>3, <2>1, Zenon
      <3>2. Len(Tail(ppool[d])) = Len(ppool[d]) - 1 /\ Len(ppool[d]) \in Nat /\ Len(ppool[d]) # 0
        BY <1>1, HeadTail
      <3>3. Tail(ppool[d]) # <<>>
        <4>. DEFINE t == Tail(ppool[d])
                    n == Len(ppool[d])
        <4>1. Len(t) = n - 1 /\ n \in Nat /\ n # 0 /\ n # 1
          BY <3>1, <3>2
        <4>. HIDE DEF t, n
        <4>2. Len(t) # 0
          BY <4>1
        <4>3. t # <<>>
          BY <4>2
        <4>. QED
          BY <4>3 DEF t
      <3>. QED
        BY <1>2, <2>1, <3>3
    <2>2. CASE e # d
      <3>1. ppool'[e] = ppool[e] /\ ~stopped[e]
        BY <1>2, <1>3, <2>2
      <3>. QED
        BY <3>1 DEF TxView
    <2>. QED
      BY <2>1, <2>2
  <1>. QED
    BY <1>2, <1>3 DEF TxView

\* The packet in the queue is about to be announced.
LEMMA EnqueueBufKeepsView ==
    ASSUME SnullInv, NEW d \in Devs, TxView(d), EnqueueBuf(d)
    PROVE  TxView(d)'
  <1>. USE TxFacts
  <1>. DEFINE x == hand[T(d)]
  <1>1. /\ pc[T(d)] = "enqueue" /\ pc'[T(d)] = "rx_test"
        /\ rx_queue' = [rx_queue EXCEPT ![Twin(d)] = <<x>> \o @]
        /\ UNCHANGED <<ppool, status, rx_int_enabled, stopped, sched, ret, cf>>
    BY DEF EnqueueBuf, At, Goto, T, dev, config
  <1>2. rx_queue'[d] = rx_queue[d]
    BY <1>1
  <1>3. ASSUME ~cf.use_napi, NEW e \in Devs PROVE Len(rx_queue'[e]) <= 1
    <2>1. rx_queue[Twin(d)] = <<>> /\ Len(rx_queue[d]) <= 1
      BY <1>1, <1>3 DEF TxView
    <2>2. x \in Pkts
      BY <1>1 DEF SnullInv, Handling
    <2>3. rx_queue'[Twin(d)] = <<x>> \o <<>> /\ Len(<<x>> \o <<>>) = 1
      BY <1>1, <2>1, <2>2
    <2>4. Len(rx_queue'[Twin(d)]) <= 1
      BY <2>3
    <2>. QED
      BY <1>2, <2>1, <2>4
  <1>. QED
    BY <1>1, <1>2, <1>3 DEF TxView

\* If the receive interrupt is off the twin is going to be polled.
LEMMA RxTestKeepsView ==
    ASSUME SnullInv, NEW d \in Devs, TxView(d), RxTest(d)
    PROVE  TxView(d)'
  <1>. USE TxFacts
  <1>1. /\ pc[T(d)] = "rx_test" /\ pc'[T(d)] = IF rx_int_enabled[Twin(d)] THEN "rx_load" ELSE "tx_load"
        /\ UNCHANGED <<ppool, rx_queue, status, rx_int_enabled, stopped, sched, hand, ret, cf>>
    BY DEF RxTest, At, Goto, T, lists, dev, config
  <1>2. rx_int_enabled[Twin(d)] \/ sched[Twin(d)]
    BY DEF TxView
  <1>. QED
    BY <1>1, <1>2 DEF TxView

\* Nobody comes between the load and the store.
LEMMA RaiseKeepsView ==
    ASSUME SnullInv, NEW d \in Devs, TxView(d), RaiseRx(d) \/ RaiseTx(d)
    PROVE  TxView(d)'
  <1>. USE TxFacts
  <1>1. CASE Load(d, Twin(d), "rx_load", "rx_store")
    <2>1. /\ pc[T(d)] = "rx_load" /\ pc'[T(d)] = "rx_store"
          /\ UNCHANGED <<ppool, rx_queue, status, rx_int_enabled, stopped, sched, hand, ret, cf>>
      BY <1>1 DEF Load, At, Goto, T, lists, dev, config
    <2>. QED
      BY <2>1 DEF TxView
  <1>2. CASE Store(d, Twin(d), "RX", "rx_store", "rx_int")
    <2>1. /\ pc[T(d)] = "rx_store" /\ pc'[T(d)] = "rx_int" /\ "RX" \in status'[Twin(d)]
          /\ UNCHANGED <<ppool, rx_queue, rx_int_enabled, stopped, sched, hand, ret, cf>>
      BY <1>2 DEF Store, At, Goto, T, lists, config
    <2>. QED
      BY <2>1 DEF TxView
  <1>3. CASE Load(d, d, "tx_load", "tx_store")
    <2>1. /\ pc[T(d)] = "tx_load" /\ pc'[T(d)] = "tx_store"
          /\ UNCHANGED <<ppool, rx_queue, status, rx_int_enabled, stopped, sched, hand, ret, cf>>
      BY <1>3 DEF Load, At, Goto, T, lists, dev, config
    <2>. QED
      BY <2>1 DEF TxView
  <1>4. CASE Store(d, d, "TX", "tx_store", "lockup")
    <2>1. /\ pc[T(d)] = "tx_store" /\ pc'[T(d)] = "lockup"
          /\ UNCHANGED <<ppool, rx_queue, rx_int_enabled, stopped, sched, hand, ret, cf>>
      BY <1>4 DEF Store, At, Goto, T, lists, config
    <2>. QED
      BY <2>1 DEF TxView
  <1>. QED
    BY <1>1, <1>2, <1>3, <1>4 DEF RaiseRx, RaiseTx

\* A lockup only stops the queue.
LEMMA LockupKeepsView ==
    ASSUME SnullInv, NEW d \in Devs, TxView(d), Lockup(d)
    PROVE  TxView(d)'
  <1>. USE TxFacts
  <1>1. /\ pc[T(d)] = "lockup" /\ pc'[T(d)] \in {"idle", "tx_int"}
        /\ \E b \in BOOLEAN : stopped' = [stopped EXCEPT ![d] = @ \/ b]
        /\ UNCHANGED <<ppool, rx_queue, status, rx_int_enabled, sched, hand, ret, cf>>
    BY DEF Lockup, At, Goto, T, lists, dev, config
  <1>2. ASSUME NEW e \in Devs, ~stopped'[e] PROVE ~stopped[e]
    BY <1>1, <1>2
  <1>. QED
    BY <1>1, <1>2 DEF TxView

\* What an interrupt of e in the transmit context of d does, with NAPI and without.
LEMMA InterruptFacts ==
    ASSUME SnullInv, NEW d \in Devs, NEW e \in Devs, NEW from, NEW next, Interrupt(d, e, from, next)
    PROVE  /\ pc[T(d)] = from /\ status' = [status EXCEPT ![e] = {}]
           /\ UNCHANGED <<ppool, stopped, up, cf, bottom, reg>>
           /\ skb' = [skb EXCEPT ![e] = IF "TX" \in status[e] THEN Freed(@) ELSE @]
           /\ cf.use_napi =>
                /\ pc'[T(d)] = next /\ UNCHANGED <<rx_queue, hand, ret>>
                /\ rx_int_enabled' = [rx_int_enabled EXCEPT ![e] = @ /\ "RX" \notin status[e]]
                /\ sched' = [sched EXCEPT ![e] = @ \/ ("RX" \in status[e] /\ up[e])]
           /\ ~cf.use_napi =>
                /\ UNCHANGED <<rx_int_enabled, sched>> /\ ret'[T(d)] = next
                /\ \/ /\ "RX" \in status[e] /\ rx_queue[e] # <<>> /\ pc'[T(d)] = "push"
                      /\ rx_queue' = [rx_queue EXCEPT ![e] = Tail(@)]
                   \/ /\ "RX" \notin status[e] \/ rx_queue[e] = <<>>
                      /\ pc'[T(d)] = next /\ UNCHANGED rx_queue
  <1>. USE TxFacts
  <1>1. /\ pc[T(d)] = from /\ status' = [status EXCEPT ![e] = {}]
        /\ UNCHANGED <<ppool, stopped, up, cf, bottom, reg>>
        /\ skb' = [skb EXCEPT ![e] = IF "TX" \in status[e] THEN Freed(@) ELSE @]
    BY DEF Interrupt, At, T, config
  <1>2. CASE cf.use_napi
    <2>1. NapiInterrupt(T(d), e, next)
      BY <1>2 DEF Interrupt, T
    <2>. QED
      BY <1>1, <1>2, <2>1 DEF NapiInterrupt, Goto
  <1>3. CASE ~cf.use_napi
    <2>1. RegularInterrupt(T(d), e, next)
      BY <1>3 DEF Interrupt, T
    <2>2. rx_queue[e] # <<>> => Head(rx_queue[e]) # NoPkt
      BY OwnBuffers, Packets
    <2>3. CASE "RX" \in status[e] /\ rx_queue[e] # <<>>
      BY <1>1, <1>3, <2>1, <2>2, <2>3 DEF RegularInterrupt, Goto
    <2>4. CASE ~("RX" \in status[e] /\ rx_queue[e] # <<>>)
      BY <1>1, <1>3, <2>1, <2>4 DEF RegularInterrupt, Goto
    <2>. QED
      BY <2>3, <2>4
  <1>. QED
    BY <1>2, <1>3

\* With NAPI no interface is down.
AllUp == cf.use_napi => \A d \in Devs : up[d]

\* The twin receives the packet, or is going to be polled.
LEMMA RxInterruptKeepsView ==
    ASSUME SnullInv, NEW d \in Devs, TxView(d), AllUp, Interrupt(d, Twin(d), "rx_int", "tx_load")
    PROVE  TxView(d)'
  <1>. USE TxFacts
  <1>1. /\ pc[T(d)] = "rx_int" /\ "RX" \in status[Twin(d)]
        /\ UNCHANGED <<ppool, stopped, cf>>
    BY InterruptFacts DEF TxView
  <1>2. CASE cf.use_napi
    <2>1. /\ pc'[T(d)] = "tx_load" /\ UNCHANGED <<rx_queue, hand, ret>>
          /\ rx_int_enabled' = [rx_int_enabled EXCEPT ![Twin(d)] = @ /\ "RX" \notin status[Twin(d)]]
          /\ sched' = [sched EXCEPT ![Twin(d)] = @ \/ ("RX" \in status[Twin(d)] /\ up[Twin(d)])]
          /\ up[Twin(d)]
      BY <1>2, InterruptFacts DEF AllUp
    <2>2. sched'[d] = sched[d] /\ rx_int_enabled'[d] = rx_int_enabled[d]
      BY <2>1, SMTT(30)
    <2>3. sched'[Twin(d)] = (sched[Twin(d)] \/ ("RX" \in status[Twin(d)] /\ up[Twin(d)]))
      BY <2>1, ZenonT(30)
    <2>. QED
      BY <1>1, <1>2, <2>1, <2>2, <2>3, SMTT(30) DEF TxView
  <1>3. CASE ~cf.use_napi
    <2>1. /\ UNCHANGED <<rx_int_enabled, sched>> /\ ret'[T(d)] = "tx_load"
          /\ \/ /\ rx_queue[Twin(d)] # <<>> /\ pc'[T(d)] = "push"
                /\ rx_queue' = [rx_queue EXCEPT ![Twin(d)] = Tail(@)]
             \/ rx_queue[Twin(d)] = <<>> /\ pc'[T(d)] = "tx_load" /\ UNCHANGED rx_queue
      BY <1>1, <1>3, InterruptFacts
    <2>2. rx_queue'[Twin(d)] = <<>> /\ rx_queue'[d] = rx_queue[d]
      <3>1. CASE rx_queue[Twin(d)] # <<>> /\ rx_queue' = [rx_queue EXCEPT ![Twin(d)] = Tail(@)]
        <4>. DEFINE q == rx_queue[Twin(d)]
                    t == Tail(q)
        <4>1. Len(q) <= 1 /\ Len(q) \in Nat /\ Len(t) = Len(q) - 1 /\ t \in Seq(Pkts)
          BY <1>3, <3>1, HeadTail DEF TxView
        <4>2. rx_queue'[Twin(d)] = t /\ rx_queue'[d] = rx_queue[d]
          BY <3>1
        <4>3. Len(t) \in Nat
          BY <4>1
        <4>. HIDE DEF q, t
        <4>4. Len(t) = 0
          BY <4>1, <4>3
        <4>5. t = <<>>
          BY <4>1, <4>4
        <4>. QED
          BY <4>2, <4>5
      <3>. QED
        BY <2>1, <3>1
    <2>3. Len(rx_queue'[Twin(d)]) <= 1 /\ Len(rx_queue'[d]) <= 1
      BY <1>3, <2>2 DEF TxView
    <2>. QED
      BY <1>1, <1>3, <2>1, <2>2, <2>3 DEF TxView
  <1>. QED
    BY <1>2, <1>3

\* The interface's own interrupt finds nothing to receive.
LEMMA OwnInterruptKeepsView ==
    ASSUME SnullInv, NEW d \in Devs, TxView(d), AllUp,
           \/ Interrupt(d, d, "tx_int", "idle")
           \/ Interrupt(d, d, "timeout_int", "timeout_wake")
    PROVE  /\ TxView(d)' /\ (pc[T(d)] = "tx_int" => pc'[T(d)] = "idle")
           /\ (pc[T(d)] = "timeout_int" => pc'[T(d)] = "timeout_wake")
  <1>. USE TxFacts
  <1>1. ASSUME NEW from \in {"tx_int", "timeout_int"}, NEW next, Interrupt(d, d, from, next),
               next = IF from = "tx_int" THEN "idle" ELSE "timeout_wake"
        PROVE  TxView(d)' /\ pc[T(d)] = from /\ pc'[T(d)] = next
    <2>1. pc[T(d)] = from /\ UNCHANGED <<ppool, stopped, cf>>
      BY <1>1, InterruptFacts
    <2>2. CASE cf.use_napi
      <3>1. /\ pc'[T(d)] = next /\ UNCHANGED <<rx_queue, hand, ret>>
            /\ rx_int_enabled' = [rx_int_enabled EXCEPT ![d] = @ /\ "RX" \notin status[d]]
            /\ sched' = [sched EXCEPT ![d] = @ \/ ("RX" \in status[d] /\ up[d])]
            /\ up[d]
        BY <1>1, <2>2, InterruptFacts DEF AllUp
      <3>2. \A e \in Devs : (sched[e] => sched'[e]) /\ (~rx_int_enabled'[e] => sched'[e])
        BY <3>1 DEF TxView
      <3>. QED
        BY <1>1, <2>1, <2>2, <3>1, <3>2 DEF TxView
    <2>3. CASE ~cf.use_napi
      <3>1. rx_queue[d] = <<>>
        BY <2>3 DEF TxView
      <3>2. UNCHANGED <<rx_int_enabled, sched, rx_queue>> /\ pc'[T(d)] = next
        BY <1>1, <2>3, <3>1, InterruptFacts
      <3>. QED
        BY <1>1, <2>1, <2>3, <3>2 DEF TxView
    <2>. QED
      BY <2>1, <2>2, <2>3
  <1>. QED
    BY <1>1

\* The buffer is back in its pool before its queue is woken.
LEMMA ReleaseFacts ==
    ASSUME SnullInv, NEW c \in Ctxs, ReleasePush(c)
    PROVE  /\ pc[c] = "push" /\ pc'[c] = "wake" /\ hand[c] \in Pkts /\ hand[c][1] \in Devs
           /\ ppool'[hand[c][1]] # <<>> /\ \A e \in Devs : e # hand[c][1] => ppool'[e] = ppool[e]
           /\ UNCHANGED <<rx_queue, status, rx_int_enabled, sched, skb, stopped, up, cf, hand, reg, ret>>
  <1>. DEFINE x == hand[c]
  <1>0. /\ pc \in [Ctxs -> TxPC \cup PollPC] /\ ppool \in [Devs -> Seq(Pkts)]
        /\ hand \in [Ctxs -> Pkts \cup {NoPkt}]
    BY DEF SnullInv, SnullTypes
  <1>1. /\ pc[c] = "push" /\ pc'[c] = "wake"
        /\ ppool' = [ppool EXCEPT ![x[1]] = <<x>> \o @]
        /\ UNCHANGED <<rx_queue, status, rx_int_enabled, sched, skb, stopped, up, cf, hand, reg, ret>>
    BY <1>0 DEF ReleasePush, At, Goto, dev, config
  <1>2. x \in Pkts
    BY <1>0, <1>1 DEF SnullInv, Handling
  <1>3. x[1] \in Devs
    BY <1>2, Packets
  <1>4. ppool'[x[1]] = <<x>> \o ppool[x[1]] /\ \A e \in Devs : e # x[1] => ppool'[e] = ppool[e]
    BY <1>0, <1>1, <1>3
  <1>5. <<x>> \o ppool[x[1]] # <<>>
    BY <1>0, <1>2, <1>3, Pushed
  <1>. QED
    BY <1>1, <1>2, <1>3, <1>4, <1>5

\* The queue is woken if the buffer was the bottom one.
LEMMA WakeFacts ==
    ASSUME SnullInv, NEW c \in Ctxs, ReleaseWake(c)
    PROVE  /\ pc[c] = "wake" /\ pc'[c] = ret[c] /\ hand[c] \in Pkts /\ hand[c][1] \in Devs
           /\ stopped' = [stopped EXCEPT ![hand[c][1]] = @ /\ ~bottom[hand[c]]]
           /\ UNCHANGED <<ppool, rx_queue, bottom, status, rx_int_enabled, sched, skb, up, cf, reg, ret>>
  <1>0. /\ pc \in [Ctxs -> TxPC \cup PollPC] /\ hand \in [Ctxs -> Pkts \cup {NoPkt}]
    BY DEF SnullInv, SnullTypes
  <1>1. /\ pc[c] = "wake" /\ pc'[c] = ret[c]
        /\ stopped' = [stopped EXCEPT ![hand[c][1]] = @ /\ ~bottom[hand[c]]]
        /\ UNCHANGED <<ppool, rx_queue, bottom, status, rx_int_enabled, sched, skb, up, cf, reg, ret>>
    BY <1>0 DEF ReleaseWake, At, Goto, lists, dev, config
  <1>2. hand[c] \in Pkts
    BY <1>0, <1>1 DEF SnullInv, Handling
  <1>. QED
    BY <1>1, <1>2, Packets

\* A woken queue has a buffer, in the transmit context
LEMMA TxReleaseKeepsView ==
    ASSUME SnullInv, NEW d \in Devs, TxView(d), ReleasePush(T(d)) \/ ReleaseWake(T(d))
    PROVE  TxView(d)'
  <1>. USE TxFacts
  <1>1. CASE ReleasePush(T(d))
    <2>1. \A e \in Devs : ppool[e] # <<>> => ppool'[e] # <<>>
      BY <1>1, ReleaseFacts
    <2>. QED
      BY <1>1, <2>1, ReleaseFacts DEF TxView
  <1>2. CASE ReleaseWake(T(d))
    <2>1. /\ pc[T(d)] = "wake" /\ pc'[T(d)] = ret[T(d)]
          /\ stopped' = [stopped EXCEPT ![hand[T(d)][1]] = @ /\ ~bottom[hand[T(d)]]]
          /\ UNCHANGED <<ppool, rx_queue, bottom, status, rx_int_enabled, sched, cf, ret>>
      BY <1>2, WakeFacts
    <2>2. ret[T(d)] \in {"idle", "tx_load"}
      BY <2>1 DEF TxView, SnullInv, SnullTypes
    <2>3. ASSUME NEW e \in Devs, ~stopped'[e] PROVE ppool[e] # <<>>
      <3>1. CASE e = hand[T(d)][1]
        BY <2>1, <3>1 DEF TxView
      <3>2. CASE e # hand[T(d)][1]
        BY <2>1, <2>3, <3>2 DEF TxView
      <3>. QED
        BY <3>1, <3>2
    <2>. QED
      BY <2>1, <2>2, <2>3 DEF TxView
  <1>. QED
    BY <1>1, <1>2

\* and in the poll.
LEMMA PollReleaseKeepsView ==
    ASSUME SnullInv, NEW d \in Devs, PollView(d), ReleasePush(P(d)) \/ ReleaseWake(P(d))
    PROVE  PollView(d)'
  <1>. USE TxFacts
  <1>c. P(d) \in Ctxs
    BY Contexts
  <1>1. CASE ReleasePush(P(d))
    <2>1. \A e \in Devs : ppool[e] # <<>> => ppool'[e] # <<>>
      BY <1>1, <1>c, ReleaseFacts
    <2>. QED
      BY <1>1, <1>c, <2>1, ReleaseFacts DEF PollView
  <1>2. CASE ReleaseWake(P(d))
    <2>1. /\ pc[P(d)] = "wake" /\ pc'[P(d)] = ret[P(d)]
          /\ stopped' = [stopped EXCEPT ![hand[P(d)][1]] = @ /\ ~bottom[hand[P(d)]]]
          /\ UNCHANGED <<ppool, rx_queue, bottom, status, rx_int_enabled, sched, cf, ret>>
      BY <1>2, <1>c, WakeFacts
    <2>2. ret[P(d)] \in {"idle", "poll_more"}
      BY DEF SnullInv, SnullTypes
    <2>3. ASSUME NEW e \in Devs, ~stopped'[e] PROVE ppool[e] # <<>>
      <3>1. CASE e = hand[P(d)][1]
        BY <2>1, <3>1 DEF PollView
      <3>2. CASE e # hand[P(d)][1]
        BY <2>1, <2>3, <3>2 DEF PollView
      <3>. QED
        BY <3>1, <3>2
    <2>. QED
      BY <2>1, <2>2, <2>3 DEF PollView
  <1>. QED
    BY <1>1, <1>2

\* The watchdog and ifconfig find every buffer at home.
LEMMA LateHome ==
    ASSUME SnullInv, PollUp, NEW d \in Devs, ~cf.smp, TxView(d), Late(d)
    PROVE  \A e \in Devs : ppool[e] # <<>> /\ Len(ppool[e]) = PoolSize /\ rx_queue[e] = <<>>
  <1>1. pc[T(d)] = "idle" /\ Idle /\ \A e \in Devs : ~sched[e]
    <2>1. /\ pc[T(d)] = "idle" /\ \A e \in Devs : ~sched[e]
          /\ \A o \in Ctxs : o = T(d) \/ pc[o] = "idle" \/ (o[1] = "poll" /\ pc[o] = "deliver")
      BY DEF Late, At, Alone, Nests, T
    <2>2. ASSUME NEW e \in Devs PROVE pc[T(e)] = "idle" /\ pc[P(e)] = "idle"
      <3>1. pc[T(e)] = "idle"
        BY <2>1, Contexts DEF T
      <3>2. pc[P(e)] = "idle"
        BY <2>1, Contexts DEF PollUp
      <3>. QED
        BY <3>1, <3>2
    <2>. QED
      BY <2>1, <2>2, Contexts DEF Idle
  <1>2. \A e \in Devs : rx_queue[e] = <<>>
    BY <1>1, TxFacts DEF TxView
  <1>. QED
    BY <1>1, <1>2, AllHome

\* They may start the queue: its pool is full.
LEMMA TimeoutKeepsView ==
    ASSUME SnullInv, PollUp, NEW d \in Devs, ~cf.smp, TxView(d),
           Timeout(d) \/ TimeoutWake(d) \/ Down(d) \/ Open(d)
    PROVE  TxView(d)'
  <1>. USE TxFacts
  <1>1. CASE Timeout(d)
    <2>1. /\ pc[T(d)] = "idle" /\ pc'[T(d)] = "timeout_int" /\ status'[d] = {"TX"}
          /\ UNCHANGED <<ppool, rx_queue, rx_int_enabled, stopped, sched, hand, ret, cf>>
      BY <1>1 DEF Timeout, Late, At, Goto, T, lists, config
    <2>2. ppool[d] # <<>>
      BY <1>1, LateHome DEF Timeout
    <2>. QED
      BY <2>1, <2>2 DEF TxView
  <1>2. CASE TimeoutWake(d)
    <2>1. /\ pc[T(d)] = "timeout_wake" /\ pc'[T(d)] = "idle" /\ stopped' = [stopped EXCEPT ![d] = FALSE]
          /\ UNCHANGED <<ppool, rx_queue, status, rx_int_enabled, sched, hand, ret, cf>>
      BY <1>2 DEF TimeoutWake, At, Goto, T, lists, dev, config
    <2>. QED
      BY <2>1 DEF TxView
  <1>3. CASE Down(d) \/ Open(d)
    <2>1. /\ pc[T(d)] = "idle" /\ pc' = pc
          /\ UNCHANGED <<ppool, rx_queue, status, rx_int_enabled, sched, hand, ret, cf>>
      BY <1>3 DEF Down, Open, Late, At, T, lists, dev
    <2>2. \A e \in Devs : ppool[e] # <<>>
      BY <1>3, LateHome DEF Down, Open
    <2>. QED
      BY <2>1, <2>2 DEF TxView
  <1>. QED
    BY <1>1, <1>2, <1>3

\* A poll goes on until the queue is empty, and then turns the interrupt on.
LEMMA PollKeepsView ==
    ASSUME SnullInv, NEW d \in Devs, PollView(d),
           PollStart(d) \/ PollTake(d) \/ PollDeliver(d) \/ PollStop(d) \/ PollTest(d) \/ PollInts(d)
    PROVE  PollView(d)'
  <1>. USE TxFacts
  <1>c. P(d) \in Ctxs
    BY Contexts
  <1>1. CASE PollStart(d)
    <2>1. /\ pc[P(d)] = "idle" /\ pc'[P(d)] = "poll_first" /\ sched[d]
          /\ UNCHANGED <<ppool, rx_queue, rx_int_enabled, stopped, sched, hand, cf>>
      BY <1>1, <1>c DEF PollStart, At, Goto, P, lists, dev, config
    <2>. QED
      BY <2>1 DEF PollView
  <1>2. CASE PollTake(d)
    <2>1. /\ pc[P(d)] \in {"poll_first", "poll_more"} /\ pc'[P(d)] \in {"deliver", "push"} /\ rx_queue[d] # <<>>
          /\ rx_queue' = [rx_queue EXCEPT ![d] = Tail(@)]
          /\ UNCHANGED <<ppool, rx_int_enabled, stopped, sched, cf>>
      BY <1>2, <1>c DEF PollTake, At, Goto, P, dev, config
    <2>2. \A e \in Devs : rx_queue'[e] # <<>> => sched[e]
      BY <2>1 DEF PollView
    <2>3. cf.use_napi
      BY <2>1 DEF PollView
    <2>. QED
      BY <2>1, <2>2, <2>3 DEF PollView
  <1>3. CASE PollStop(d)
    <2>1. /\ pc[P(d)] \in {"poll_first", "poll_more"} /\ pc'[P(d)] = "poll_test"
          /\ UNCHANGED <<ppool, rx_queue, rx_int_enabled, stopped, sched, hand, cf>>
      BY <1>3, <1>c DEF PollStop, At, Goto, P, lists, dev, config
    <2>. QED
      BY <2>1 DEF PollView
  <1>4. CASE PollTest(d)
    <2>1. /\ pc[P(d)] = "poll_test" /\ pc'[P(d)] = IF rx_queue[d] = <<>> THEN "poll_ints" ELSE "idle"
          /\ sched' = [sched EXCEPT ![d] = rx_queue[d] # <<>>]
          /\ UNCHANGED <<ppool, rx_queue, rx_int_enabled, stopped, hand, cf>>
      BY <1>4, <1>c DEF PollTest, At, Goto, P, lists, config
    <2>2. cf.use_napi
      BY <2>1 DEF PollView
    <2>3. \A e \in Devs : (rx_queue[e] # <<>> => sched'[e]) /\ (e # d => sched'[e] = sched[e])
      BY <2>1 DEF PollView
    <2>. QED
      BY <2>1, <2>2, <2>3 DEF PollView
  <1>5. CASE PollInts(d)
    <2>1. /\ pc[P(d)] = "poll_ints" /\ pc'[P(d)] = "idle"
          /\ rx_int_enabled' = [rx_int_enabled EXCEPT ![d] = TRUE]
          /\ UNCHANGED <<ppool, rx_queue, stopped, sched, hand, cf>>
      BY <1>5, <1>c DEF PollInts, At, Goto, P, lists, config
    <2>2. \A e \in Devs : ~rx_int_enabled'[e] => e # d /\ ~rx_int_enabled[e]
      BY <2>1
    <2>. QED
      BY <2>1, <2>2 DEF PollView
  <1>6. CASE PollDeliver(d)
    <2>1. /\ pc[P(d)] = "deliver" /\ pc'[P(d)] = "push"
          /\ UNCHANGED <<ppool, rx_queue, rx_int_enabled, stopped, sched, cf>>
      BY <1>6, <1>c DEF PollDeliver, At, Goto, P, lists, dev, config
    <2>. QED
      BY <2>1 DEF PollView
  <1>. QED
    BY <1>1, <1>2, <1>3, <1>4, <1>5, <1>6

-----------------------------------------------------------------------------
(* A step keeps the invariant of the uniprocessor.                         *)

\* The transmit context, ifconfig and the watchdog of d; the poll of d.
TxStep(d) == Tx(d) \/ TxSteps(d) \/ Timeout(d) \/ Down(d) \/ Open(d)

\* Steps of the transmit context keep its view,
LEMMA TxKeeps ==
    ASSUME SnullInv, PollUp, AllUp, NEW d \in Devs, ~cf.smp, TxView(d), TxStep(d)
    PROVE  TxView(d)'
  <1>1. CASE Interrupts(d)
    BY <1>1, RxInterruptKeepsView, OwnInterruptKeepsView DEF Interrupts
  <1>2. CASE ReleasePush(<<"tx", d>>) \/ ReleaseWake(<<"tx", d>>)
    BY <1>2, TxReleaseKeepsView DEF T
  <1>. QED
    BY <1>1, <1>2, TxKeepsView, GetTxBufferKeepsView, EnqueueBufKeepsView, RxTestKeepsView, RaiseKeepsView,
       LockupKeepsView, TimeoutKeepsView DEF TxStep, TxSteps

\* and steps of the poll that of the poll.
LEMMA PollKeeps ==
    ASSUME SnullInv, NEW d \in Devs, PollView(d), PollSteps(d)
    PROVE  PollView(d)'
  BY PollKeepsView, PollReleaseKeepsView DEF PollSteps, P

\* A transmission runs alone or inside netif_receive_skb.
LEMMA TxOnly ==
    ASSUME SnullInv, NEW d \in Devs, ~cf.smp, TxStep(d)
    PROVE  OnlyTx(d) /\ OnlyTx(d)'
  <1>t. T(d) \in Ctxs /\ pc \in [Ctxs -> TxPC \cup PollPC]
    BY TxFacts
  <1>1. Alone(T(d)) /\ \A o \in Ctxs : o # T(d) => pc'[o] = pc[o]
    <2>. USE DEF At, T
    <2>1. CASE Tx(d)
      BY <1>t, <2>1 DEF Tx, Goto
    <2>2. CASE GetTxBuffer(d) \/ EnqueueBuf(d) \/ RxTest(d)
      BY <1>t, <2>2 DEF GetTxBuffer, EnqueueBuf, RxTest, Goto
    <2>3. CASE RaiseRx(d) \/ RaiseTx(d)
      BY <1>t, <2>3 DEF RaiseRx, RaiseTx, Load, Store, Goto
    <2>4. CASE Lockup(d) \/ TimeoutWake(d) \/ Timeout(d) \/ Down(d) \/ Open(d)
      BY <1>t, <2>4 DEF Lockup, TimeoutWake, Timeout, Down, Open, Late, Goto
    <2>5. CASE Interrupts(d)
      BY <1>t, <2>5 DEF Interrupts, Interrupt, NapiInterrupt, RegularInterrupt, Goto
    <2>6. CASE ReleasePush(T(d)) \/ ReleaseWake(T(d))
      BY <1>t, <2>6 DEF ReleasePush, ReleaseWake, Goto
    <2>. QED
      BY <2>1, <2>2, <2>3, <2>4, <2>5, <2>6 DEF TxStep, TxSteps
  <1>2. \A o \in Ctxs : o # T(d) => pc[o] = "idle" \/ (o[1] = "poll" /\ pc[o] = "deliver")
    BY <1>1 DEF Alone, Nests
  <1>3. ASSUME NEW e \in Devs PROVE (e # d => pc[T(e)] = "idle") /\ pc[P(e)] \in {"idle", "deliver"}
    <2>1. T(e) \in Ctxs /\ P(e) \in Ctxs /\ P(e) # T(d) /\ (e # d => T(e) # T(d)) /\ T(e)[1] = "tx"
      BY Contexts DEF T
    <2>. QED
      BY <1>2, <2>1
  <1>4. ASSUME NEW e \in Devs PROVE (e # d => pc'[T(e)] = pc[T(e)]) /\ pc'[P(e)] = pc[P(e)]
    BY <1>1, Contexts
  <1>. QED
    BY <1>3, <1>4 DEF OnlyTx

\* The same for a poll.
LEMMA PollOnly ==
    ASSUME SnullInv, NEW d \in Devs, ~cf.smp, PollSteps(d)
    PROVE  Only(P(d)) /\ Only(P(d))'
  <1>. USE DEF At, Alone, Nests, P
  <1>t. P(d) \in Ctxs /\ pc \in [Ctxs -> TxPC \cup PollPC]
    BY TxFacts, Contexts
  <1>1. Only(P(d)) /\ \A o \in Ctxs : o # P(d) => pc'[o] = pc[o]
    <2>1. CASE PollStart(d) \/ PollTake(d) \/ PollDeliver(d) \/ PollStop(d)
      BY <1>t, <2>1 DEF PollStart, PollTake, PollDeliver, PollStop, Goto, Only
    <2>2. CASE PollTest(d) \/ PollInts(d)
      BY <1>t, <2>2 DEF PollTest, PollInts, Goto, Only
    <2>3. CASE ReleasePush(P(d)) \/ ReleaseWake(P(d))
      BY <1>t, <2>3 DEF ReleasePush, ReleaseWake, Goto, Only
    <2>. QED
      BY <2>1, <2>2, <2>3 DEF PollSteps
  <1>. QED
    BY <1>1 DEF Only

\* The configuration does not change, and only ifconfig counts.
LEMMA ConfigStays ==
    ASSUME [Next]_vars
    PROVE  cf' = cf /\ (UNCHANGED <<downs, up>> \/ \E d \in Devs : Down(d) \/ Open(d))
  <1>. DEFINE Same == cf' = cf /\ UNCHANGED <<downs, up>>
  <1>1. ASSUME NEW d \in Devs, QuietStep(d) \/ GetTxBuffer(d) \/ EnqueueBuf(d) \/ PollTake(d), ~(Down(d) \/ Open(d))
        PROVE  Same
    BY <1>1, Zenon DEF QuietStep, Tx, RxTest, RaiseRx, RaiseTx, Load, Store, Lockup, Timeout, TimeoutWake, PollStart,
       PollDeliver, PollStop, PollTest, PollInts, GetTxBuffer, EnqueueBuf, PollTake, config
  <1>2. ASSUME NEW d \in Devs, Interrupts(d) PROVE Same
    BY <1>2 DEF Interrupts, Interrupt, config
  <1>3. ASSUME NEW c, ReleasePush(c) \/ ReleaseWake(c) PROVE Same
    BY <1>3 DEF ReleasePush, ReleaseWake, config
  <1>4. CASE UNCHANGED vars
    BY <1>4 DEF vars, config
  <1>5. ASSUME NEW d \in Devs, Down(d) \/ Open(d) PROVE cf' = cf
    BY <1>5 DEF Down, Open
  <1>. HIDE DEF Same
  <1>6. Same \/ \E d \in Devs : Down(d) \/ Open(d)
    BY <1>1, <1>2, <1>3, <1>4 DEF Next, TxSteps, PollSteps, QuietStep, Same
  <1>. QED
    BY <1>5, <1>6 DEF Same

\* An interface that was brought down stays counted.
LEMMA SteadyBefore ==
    ASSUME SnullInv, PollUp, [Next]_vars
    PROVE  /\ downs' \in [Devs -> Nat] /\ \A e \in Devs : (downs[e] = 0 => up[e])'
           /\ Steady' => Steady
  <1>1. CASE UNCHANGED <<downs, up>>
    BY <1>1, ConfigStays DEF PollUp, Steady
  <1>2. ASSUME NEW d \in Devs, Down(d)
        PROVE  /\ downs' \in [Devs -> Nat] /\ \A e \in Devs : (downs[e] = 0 => up[e])'
               /\ Steady' => Steady
    <2>1. up' = [up EXCEPT ![d] = FALSE] /\ downs' = [downs EXCEPT ![d] = @ + 1] /\ cf' = cf
      BY <1>2 DEF Down
    <2>2. downs' \in [Devs -> Nat] /\ downs'[d] # 0 /\ \A e \in Devs : e # d => downs'[e] = downs[e]
      BY <2>1 DEF PollUp
    <2>3. \A e \in Devs : e # d => (up'[e] = up[e])
      BY <2>1
    <2>. QED
      BY <2>1, <2>2, <2>3 DEF PollUp, Steady
  <1>3. ASSUME NEW d \in Devs, Open(d)
        PROVE  /\ downs' \in [Devs -> Nat] /\ \A e \in Devs : (downs[e] = 0 => up[e])'
               /\ Steady' => Steady
    <2>1. up' = [up EXCEPT ![d] = TRUE] /\ downs' = downs /\ cf' = cf
      BY <1>3 DEF Open
    <2>2. \A e \in Devs : up[e] => up'[e]
      BY <2>1 DEF SnullInv, SnullTypes
    <2>. QED
      BY <2>1, <2>2 DEF PollUp, Steady
  <1>. QED
    BY <1>1, <1>2, <1>3, ConfigStays

\* A poll leaves the poll list when it completes, and not before.
LEMMA PollListed ==
    ASSUME SnullInv, PollUp, [Next]_vars, NEW e \in Devs, pc'[P(e)] \notin {"idle", "poll_ints"}
    PROVE  sched'[e]
  <1>t. /\ pc \in [Ctxs -> TxPC \cup PollPC] /\ sched \in [Devs -> BOOLEAN]
        /\ P(e) \in Ctxs /\ \A d \in Devs : T(d) \in Ctxs /\ P(d) \in Ctxs /\ T(d) # P(e) /\ (d # e => P(d) # P(e))
    BY Contexts DEF SnullInv, SnullTypes
  <1>p. pc[P(e)] \notin {"idle", "poll_ints"} => sched[e]
    BY DEF PollUp
  <1>1. CASE pc'[P(e)] = pc[P(e)] /\ (sched[e] => sched'[e])
    BY <1>1, <1>p
  <1>2. ASSUME NEW d \in Devs, QuietStep(d), ~PollStart(d), ~PollStop(d), ~PollDeliver(d), ~PollTest(d), ~PollInts(d)
        PROVE  pc'[P(e)] = pc[P(e)] /\ sched' = sched
    <2>1. sched' = sched
      BY <1>2, Zenon DEF QuietStep, Tx, RxTest, RaiseRx, RaiseTx, Load, Store, Lockup, Timeout, TimeoutWake,
         Down, Open, dev
    <2>2. pc' = pc \/ \E m : pc' = [pc EXCEPT ![T(d)] = m]
      BY <1>2, Zenon DEF QuietStep, Tx, RxTest, RaiseRx, RaiseTx, Load, Store, Lockup, Timeout, TimeoutWake,
         Down, Open, Goto, T
    <2>. QED
      BY <1>t, <2>1, <2>2
  <1>3. ASSUME NEW d \in Devs, GetTxBuffer(d) \/ EnqueueBuf(d) PROVE pc'[P(e)] = pc[P(e)] /\ sched' = sched
    BY <1>t, <1>3 DEF GetTxBuffer, EnqueueBuf, Goto, T, dev
  <1>4. ASSUME NEW d \in Devs, Interrupts(d) PROVE pc'[P(e)] = pc[P(e)] /\ (sched[e] => sched'[e])
    <2>1. PICK x \in Devs, from \in TxPC, next \in TxPC : Interrupt(d, x, from, next)
      BY <1>4, Interfaces DEF Interrupts, TxPC
    <2>2. CASE cf.use_napi
      <3>1. /\ pc' = [pc EXCEPT ![T(d)] = next]
            /\ sched' = [sched EXCEPT ![x] = @ \/ ("RX" \in status[x] /\ up[x])]
        BY <2>1, <2>2 DEF Interrupt, NapiInterrupt, Goto, T
      <3>2. sched[e] => sched'[e]
        BY <1>t, <3>1, Zenon
      <3>. QED
        BY <1>t, <3>1, <3>2
    <2>3. CASE ~cf.use_napi
      <3>1. sched' = sched /\ \E m : pc' = [pc EXCEPT ![T(d)] = m]
        BY <2>1, <2>3 DEF Interrupt, RegularInterrupt, Goto, T
      <3>. QED
        BY <1>t, <3>1
    <2>. QED
      BY <2>2, <2>3
  <1>5. ASSUME NEW d \in Devs, ReleasePush(T(d)) \/ ReleaseWake(T(d)) PROVE pc'[P(e)] = pc[P(e)] /\ sched' = sched
    BY <1>t, <1>5 DEF ReleasePush, ReleaseWake, Goto, dev
  <1>6. ASSUME NEW d \in Devs, d # e, PollSteps(d) PROVE pc'[P(e)] = pc[P(e)] /\ sched'[e] = sched[e]
    <2>1. sched'[e] = sched[e]
      BY <1>t, <1>6 DEF PollSteps, PollStart, PollTake, PollDeliver, PollStop, PollTest, PollInts, ReleasePush,
         ReleaseWake, dev
    <2>2. \E m : pc' = [pc EXCEPT ![P(d)] = m]
      BY <1>6 DEF PollSteps, PollStart, PollTake, PollDeliver, PollStop, PollTest, PollInts, ReleasePush,
         ReleaseWake, Goto, P
    <2>. QED
      BY <1>t, <1>6, <2>1, <2>2
  <1>7. ASSUME PollSteps(e) PROVE sched'[e]
    <2>1. CASE PollStart(e)
      BY <2>1 DEF PollStart, dev
    <2>2. CASE PollTake(e) \/ PollDeliver(e) \/ PollStop(e) \/ ReleasePush(P(e)) \/ ReleaseWake(P(e))
      <3>1. pc[P(e)] \notin {"idle", "poll_ints"}
        BY <2>2 DEF PollTake, PollDeliver, PollStop, ReleasePush, ReleaseWake, At, P
      <3>2. sched' = sched
        BY <2>2, Zenon DEF PollTake, PollDeliver, PollStop, ReleasePush, ReleaseWake, dev
      <3>. QED
        BY <1>p, <3>1, <3>2
    <2>3. CASE PollTest(e) \/ PollInts(e)
      BY <1>t, <2>3 DEF PollTest, PollInts, Goto, P
    <2>. QED
      BY <1>7, <2>1, <2>2, <2>3 DEF PollSteps, P
  <1>8. CASE UNCHANGED vars
    BY <1>8, <1>1 DEF vars, dev
  <1>9. CASE Next
    <2>1. PICK d \in Devs : Tx(d) \/ TxSteps(d) \/ PollSteps(d) \/ Timeout(d) \/ Down(d) \/ Open(d)
      BY <1>9 DEF Next
    <2>2. CASE PollSteps(d)
      BY <1>1, <1>6, <1>7, <2>2
    <2>3. CASE GetTxBuffer(d) \/ EnqueueBuf(d) \/ Interrupts(d) \/ ReleasePush(T(d)) \/ ReleaseWake(T(d))
      BY <1>1, <1>3, <1>4, <1>5, <2>3
    <2>4. CASE Tx(d) \/ RxTest(d) \/ RaiseRx(d) \/ RaiseTx(d) \/ Lockup(d) \/ Timeout(d) \/ TimeoutWake(d)
               \/ Down(d) \/ Open(d)
      BY <1>1, <1>2, <1>7, <2>2, <2>4 DEF QuietStep, PollSteps
    <2>. QED
      BY <2>1, <2>2, <2>3, <2>4 DEF TxSteps, T
  <1>. QED
    BY <1>8, <1>9

\* So PollUp is kept on every kernel.
LEMMA PollUpStep ==
    ASSUME SnullInv, PollUp, [Next]_vars
    PROVE  PollUp'
  <1>1. \A e \in Devs : (pc[P(e)] \notin {"idle", "poll_ints"} => sched[e])'
    BY PollListed
  <1>. QED
    BY <1>1, SteadyBefore DEF PollUp

\* With NAPI no interface is down where the properties below speak.
LEMMA SteadyUp ==
    ASSUME PollUp, Steady
    PROVE  AllUp /\ ~cf.smp
  BY DEF PollUp, Steady, AllUp

\* It holds at the start.
LEMMA PollUpInit ==
    ASSUME Init
    PROVE  PollUp
  BY Contexts DEF Init, PollUp

\* Every step keeps the invariant of the uniprocessor.
LEMMA UniInvStep ==
    ASSUME SnullInv, PollUp, UniInv, [Next]_vars
    PROVE  UniInv'
  <1>1. SnullInv' /\ PollUp'
    BY SnullInvStep, PollUpStep
  <1>s. SUFFICES ASSUME Steady' PROVE Uni'
    BY DEF UniInv
  <1>2. Steady /\ ~cf.smp /\ AllUp
    BY <1>s, SteadyBefore, SteadyUp
  <1>3. Uni /\ SnullTypes /\ SnullTypes'
    BY <1>1, <1>2 DEF UniInv, SnullInv
  <1>4. CASE UNCHANGED vars
    <2>1. /\ UNCHANGED <<ppool, rx_queue, status, rx_int_enabled, stopped, sched, cf>>
          /\ UNCHANGED <<pc, hand, ret>>
      BY <1>4 DEF vars, lists, dev, config
    <2>. QED
      BY <1>3, <2>1 DEF Uni, Oops, PoolReady, TimeoutQuiet, Announced, IntsOff, NoPoll
  <1>5. ASSUME NEW d \in Devs, TxStep(d) PROVE Uni'
    <2>1. OnlyTx(d) /\ OnlyTx(d)'
      BY <1>2, <1>5, TxOnly
    <2>2. TxView(d)
      BY <1>3, <2>1, TxViewed
    <2>3. TxView(d)'
      BY <1>2, <1>5, <2>2, TxKeeps
    <2>4. (Uni <=> TxView(d))'
      BY <1>1, <1>3, <2>1, TxViewed, PTL
    <2>. QED
      BY <2>3, <2>4
  <1>6. ASSUME NEW d \in Devs, PollSteps(d) PROVE Uni'
    <2>1. Only(P(d)) /\ Only(P(d))'
      BY <1>2, <1>6, PollOnly
    <2>2. PollView(d)
      BY <1>3, <2>1, PollViewed
    <2>3. PollView(d)'
      BY <1>6, <2>2, PollKeeps
    <2>4. (Uni <=> PollView(d))'
      BY <1>3, <2>1, PollViewed, PTL
    <2>. QED
      BY <2>3, <2>4
  <1>. QED
    BY <1>4, <1>5, <1>6 DEF Next, TxStep

\* It holds at the start.
LEMMA UniInvInit ==
    ASSUME Init
    PROVE  UniInv
  <1>1. SnullInv /\ SnullTypes
    BY SnullInvInit DEF SnullInv
  <1>2. \A c \in Ctxs : pc[c] = "idle"
    BY DEF Init
  <1>3. 0 \in Devs /\ pc[T(0)] = "idle" /\ OnlyTx(0) /\ PollUp
    BY <1>2, Contexts, PollUpInit DEF Devs, OnlyTx
  <1>4. \A e \in Devs : rx_queue[e] = <<>> /\ Len(rx_queue[e]) <= 1 /\ ~sched[e] /\ rx_int_enabled[e]
    BY DEF Init
  <1>5. \A e \in Devs : ppool[e] # <<>>
    BY <1>1, <1>2, <1>4, AllHome DEF Idle
  <1>6. Twin(0) \in Devs
    BY DEF Twin, Devs
  <1>7. TxView(0)
    BY <1>3, <1>4, <1>5, <1>6 DEF TxView
  <1>. QED
    BY <1>1, <1>3, <1>7, TxViewed DEF UniInv

\* On a uniprocessor snull_get_tx_buffer never finds the pool empty, whatever its size, with
\* lockups, timeouts and nested transmissions, with NAPI as long as no interface is brought
\* down, without it also with ifconfig down and up (139-140).
THEOREM SnullNoOops == Spec => []NoOops
  <1>1. Init => SnullInv /\ PollUp /\ UniInv
    BY SnullInvInit, PollUpInit, UniInvInit
  <1>2. SnullInv /\ PollUp /\ UniInv /\ [Next]_vars => SnullInv' /\ PollUp' /\ UniInv'
    BY SnullInvStep, PollUpStep, UniInvStep
  <1>3. UniInv => NoOops
    BY DEF UniInv, Uni, NoOops
  <1>. QED
    BY <1>1, <1>2, <1>3, PTL DEF Spec

\* There every buffer is back in its pool when nothing runs and no poll is pending
\* ("FIXME - in-flight packets ?", 125).
THEOREM SnullHomeAgain == Spec => []HomeAgain
  <1>1. Init => SnullInv /\ PollUp /\ UniInv
    BY SnullInvInit, PollUpInit, UniInvInit
  <1>2. SnullInv /\ PollUp /\ UniInv /\ [Next]_vars => SnullInv' /\ PollUp' /\ UniInv'
    BY SnullInvStep, PollUpStep, UniInvStep
  <1>3. SnullInv /\ PollUp /\ UniInv => HomeAgain
    <2>1. SUFFICES ASSUME SnullInv, PollUp, UniInv, Steady, Idle, \A d \in Devs : ~sched[d]
                   PROVE  \A d \in Devs : Len(ppool[d]) = PoolSize /\ rx_queue[d] = <<>>
      BY DEF HomeAgain
    <2>2. 0 \in Devs /\ OnlyTx(0) /\ pc[T(0)] = "idle" /\ SnullTypes
      BY <2>1, Contexts DEF Devs, OnlyTx, Idle, SnullInv
    <2>3. TxView(0)
      BY <2>1, <2>2, TxViewed DEF UniInv
    <2>4. \A d \in Devs : rx_queue[d] = <<>>
      BY <2>1, <2>2, <2>3, TxFacts DEF TxView
    <2>. QED
      BY <2>1, <2>4, AllHome
  <1>. QED
    BY <1>1, <1>2, <1>3, PTL DEF Spec

-----------------------------------------------------------------------------
(* Without lockups, on a uniprocessor: every skb is freed once.            *)

\* c is about to wake the queue of e.
Wakes(c, e) == pc[c] = "wake" /\ hand[c][1] = e /\ bottom[hand[c]]

\* The invariant while the transmit context of d runs, and while its poll runs.
SkbTxView(d) ==
    /\ \A e \in Devs : stopped[e] /\ up[e] => ppool[e] = <<>> \/ Wakes(T(d), e)
    /\ pc[T(d)] \notin {"timeout_int", "timeout_wake"}
    /\ skb[d] # "wrong" /\ (skb[d] = "held" <=> Sending(d))
    /\ skb[Twin(d)] \notin {"held", "wrong"} /\ "TX" \notin status[Twin(d)]
    /\ "TX" \in status[d] <=> pc[T(d)] \in {"lockup", "tx_int"}
    /\ pc[T(d)] = "rx_store" => reg[T(d)] = status[Twin(d)]
    /\ pc[T(d)] = "tx_store" => reg[T(d)] = status[d]

SkbPollView(d) ==
    /\ \A e \in Devs : stopped[e] /\ up[e] => ppool[e] = <<>> \/ Wakes(P(d), e)
    /\ \A e \in Devs : skb[e] \notin {"held", "wrong"} /\ "TX" \notin status[e]

\* They are what the context that runs sees of the invariant.
LEMMA SkbTxViewed ==
    ASSUME NEW d \in Devs, OnlyTx(d)
    PROVE  Skb <=> SkbTxView(d)
  <1>i. Twin(d) \in Devs /\ Twin(d) # d /\ \A e \in Devs : e = d \/ e = Twin(d)
    BY Interfaces
  <1>c. T(d) \in Ctxs /\ T(Twin(d)) \in Ctxs /\ T(Twin(d)) # T(d)
    BY Contexts, <1>i
  <1>o. /\ pc[T(Twin(d))] = "idle"
        /\ \A c \in Ctxs : c # T(d) => pc[c] # "wake"
    BY <1>i, <1>c, Contexts DEF OnlyTx
  <1>1. ASSUME NEW e \in Devs
        PROVE  (\E c \in Ctxs : pc[c] = "wake" /\ hand[c][1] = e /\ bottom[hand[c]]) <=> Wakes(T(d), e)
    BY <1>c, <1>o DEF Wakes
  <1>2. StoppedEmpty <=> \A e \in Devs : stopped[e] /\ up[e] => ppool[e] = <<>> \/ Wakes(T(d), e)
    BY <1>1 DEF StoppedEmpty
  <1>3. ~Sending(Twin(d))
    BY <1>o DEF Sending
  <1>4. ASSUME SkbHeld, StoppedEmpty PROVE SkbTxView(d)
    BY <1>4, <1>2, <1>3, <1>i, <1>o DEF SkbHeld, SkbTxView
  <1>5. ASSUME SkbTxView(d) PROVE SkbHeld
    <2>1. ASSUME NEW e \in Devs
          PROVE  /\ pc[T(e)] \notin {"timeout_int", "timeout_wake"}
                 /\ skb[e] # "wrong" /\ (skb[e] = "held" <=> Sending(e))
                 /\ "TX" \in status[e] <=> pc[T(e)] \in {"lockup", "tx_int"}
                 /\ pc[T(e)] = "rx_store" => reg[T(e)] = status[Twin(e)]
                 /\ pc[T(e)] = "tx_store" => reg[T(e)] = status[e]
      <3>1. CASE e = d
        BY <1>5, <3>1 DEF SkbTxView
      <3>2. CASE e = Twin(d)
        BY <1>5, <1>o, <1>3, <3>2 DEF SkbTxView
      <3>. QED
        BY <1>i, <3>1, <3>2
    <2>. QED
      BY <2>1 DEF SkbHeld
  <1>. QED
    BY <1>2, <1>4, <1>5 DEF Skb, SkbTxView

\* The same for a poll.
LEMMA SkbPollViewed ==
    ASSUME NEW d \in Devs, Only(P(d))
    PROVE  Skb <=> SkbPollView(d)
  <1>c. P(d) \in Ctxs /\ \A e \in Devs : T(e) \in Ctxs /\ T(e) # P(d)
    BY Contexts
  <1>o. /\ \A e \in Devs : pc[T(e)] = "idle"
        /\ \A c \in Ctxs : c # P(d) => pc[c] = "idle"
    BY <1>c DEF Only
  <1>1. ASSUME NEW e \in Devs
        PROVE  (\E c \in Ctxs : pc[c] = "wake" /\ hand[c][1] = e /\ bottom[hand[c]]) <=> Wakes(P(d), e)
    BY <1>c, <1>o DEF Wakes
  <1>2. StoppedEmpty <=> \A e \in Devs : stopped[e] /\ up[e] => ppool[e] = <<>> \/ Wakes(P(d), e)
    BY <1>1 DEF StoppedEmpty
  <1>3. \A e \in Devs : ~Sending(e)
    BY <1>o DEF Sending
  <1>4. SkbHeld <=> \A e \in Devs : skb[e] \notin {"held", "wrong"} /\ "TX" \notin status[e]
    BY <1>3, <1>o DEF SkbHeld
  <1>. QED
    BY <1>2, <1>4 DEF Skb, SkbPollView

\* Types that the views of the skb need.
LEMMA SkbTypes ==
    ASSUME SnullInv, NEW d \in Devs
    PROVE  /\ skb \in [Devs -> {"none", "held", "freed", "wrong"}] /\ up \in [Devs -> BOOLEAN]
           /\ bottom \in [Pkts -> BOOLEAN] /\ reg \in [Ctxs -> SUBSET {"RX", "TX"}]
  BY DEF SnullInv, SnullTypes

\* The skb of a transmission finds the last one freed.
LEMMA SkbTxFirst ==
    ASSUME SnullInv, NEW d \in Devs, SkbTxView(d), Tx(d) \/ EnqueueBuf(d) \/ RxTest(d)
    PROVE  SkbTxView(d)'
  <1>. USE TxFacts, SkbTypes
  <1>1. CASE Tx(d)
    <2>1. /\ pc[T(d)] = "idle" /\ pc'[T(d)] = "get"
          /\ skb' = [skb EXCEPT ![d] = IF @ \in {"held", "wrong"} THEN "wrong" ELSE "held"]
          /\ UNCHANGED <<ppool, status, stopped, up>>
      BY <1>1 DEF Tx, At, Goto, T, lists
    <2>2. skb[d] \notin {"held", "wrong"}
      BY <2>1 DEF SkbTxView, Sending
    <2>3. skb'[d] = "held" /\ skb'[Twin(d)] = skb[Twin(d)]
      BY <2>1, <2>2
    <2>. QED
      BY <2>1, <2>3 DEF SkbTxView, Wakes, Sending
  <1>2. CASE EnqueueBuf(d)
    <2>1. /\ pc[T(d)] = "enqueue" /\ pc'[T(d)] = "rx_test"
          /\ UNCHANGED <<ppool, status, stopped, up, skb>>
      BY <1>2 DEF EnqueueBuf, At, Goto, T, dev, config
    <2>. QED
      BY <2>1 DEF SkbTxView, Wakes, Sending
  <1>3. CASE RxTest(d)
    <2>1. /\ pc[T(d)] = "rx_test" /\ pc'[T(d)] \in {"rx_load", "tx_load"}
          /\ UNCHANGED <<ppool, status, stopped, up, skb>>
      BY <1>3 DEF RxTest, At, Goto, T, lists, dev, config
    <2>. QED
      BY <2>1 DEF SkbTxView, Wakes, Sending
  <1>. QED
    BY <1>1, <1>2, <1>3

\* The queue is stopped only with an empty pool.
LEMMA SkbGetTxBuffer ==
    ASSUME SnullInv, NEW d \in Devs, TxView(d), SkbTxView(d), GetTxBuffer(d)
    PROVE  SkbTxView(d)'
  <1>. USE TxFacts, SkbTypes
  <1>1. ppool[d] # <<>>
    BY DEF TxView, GetTxBuffer, At, T
  <1>2. /\ pc[T(d)] = "get" /\ pc'[T(d)] = "enqueue"
        /\ ppool' = [ppool EXCEPT ![d] = Tail(@)]
        /\ stopped' = [stopped EXCEPT ![d] = @ \/ Len(ppool[d]) = 1]
        /\ UNCHANGED <<status, skb, up>>
    BY <1>1 DEF GetTxBuffer, At, Goto, T, dev, config
  <1>3. ASSUME NEW e \in Devs, stopped'[e], up[e] PROVE ppool'[e] = <<>>
    <2>1. CASE e = d
      <3>1. ~stopped[d]
        BY <1>1, <1>2, <1>3, <2>1 DEF SkbTxView, Wakes
      <3>2. Len(ppool[d]) = 1
        BY <1>2, <1>3, <2>1, <3>1, Zenon
      <3>. DEFINE t == Tail(ppool[d])
      <3>3. Len(t) = Len(ppool[d]) - 1 /\ t \in Seq(Pkts) /\ ppool'[d] = t
        BY <1>1, <1>2, HeadTail
      <3>. HIDE DEF t
      <3>4. Len(t) = 0
        BY <3>2, <3>3
      <3>. QED
        BY <2>1, <3>3, <3>4
    <2>2. CASE e # d
      <3>1. ppool'[e] = ppool[e] /\ stopped[e]
        BY <1>2, <1>3, <2>2
      <3>. QED
        BY <1>2, <1>3, <3>1 DEF SkbTxView, Wakes
    <2>. QED
      BY <2>1, <2>2
  <1>. QED
    BY <1>2, <1>3 DEF SkbTxView, Sending

\* The transmit bit is set just before its interrupt.
LEMMA SkbRaise ==
    ASSUME SnullInv, NEW d \in Devs, SkbTxView(d), RaiseRx(d) \/ RaiseTx(d)
    PROVE  SkbTxView(d)'
  <1>. USE TxFacts, SkbTypes
  <1>1. CASE Load(d, Twin(d), "rx_load", "rx_store")
    <2>1. /\ pc[T(d)] = "rx_load" /\ pc'[T(d)] = "rx_store" /\ reg'[T(d)] = status[Twin(d)]
          /\ UNCHANGED <<ppool, status, stopped, up, skb>>
      BY <1>1 DEF Load, At, Goto, T, lists, dev, config
    <2>. QED
      BY <2>1 DEF SkbTxView, Wakes, Sending
  <1>2. CASE Store(d, Twin(d), "RX", "rx_store", "rx_int")
    <2>1. /\ pc[T(d)] = "rx_store" /\ pc'[T(d)] = "rx_int"
          /\ status' = [status EXCEPT ![Twin(d)] = reg[T(d)] \cup {"RX"}]
          /\ UNCHANGED <<ppool, stopped, up, skb>>
      BY <1>2 DEF Store, At, Goto, T, lists, config
    <2>2. "TX" \notin status'[Twin(d)] /\ status'[d] = status[d]
      BY <2>1 DEF SkbTxView
    <2>. QED
      BY <2>1, <2>2 DEF SkbTxView, Wakes, Sending
  <1>3. CASE Load(d, d, "tx_load", "tx_store")
    <2>1. /\ pc[T(d)] = "tx_load" /\ pc'[T(d)] = "tx_store" /\ reg'[T(d)] = status[d]
          /\ UNCHANGED <<ppool, status, stopped, up, skb>>
      BY <1>3 DEF Load, At, Goto, T, lists, dev, config
    <2>. QED
      BY <2>1 DEF SkbTxView, Wakes, Sending
  <1>4. CASE Store(d, d, "TX", "tx_store", "lockup")
    <2>1. /\ pc[T(d)] = "tx_store" /\ pc'[T(d)] = "lockup"
          /\ status' = [status EXCEPT ![d] = reg[T(d)] \cup {"TX"}]
          /\ UNCHANGED <<ppool, stopped, up, skb>>
      BY <1>4 DEF Store, At, Goto, T, lists, config
    <2>2. "TX" \in status'[d] /\ status'[Twin(d)] = status[Twin(d)]
      BY <2>1
    <2>. QED
      BY <2>1, <2>2 DEF SkbTxView, Wakes, Sending
  <1>. QED
    BY <1>1, <1>2, <1>3, <1>4 DEF RaiseRx, RaiseTx

\* Without lockups the transmit interrupt follows.
LEMMA SkbLockup ==
    ASSUME SnullInv, NEW d \in Devs, cf.lockup = 0, SkbTxView(d), Lockup(d)
    PROVE  SkbTxView(d)'
  <1>. USE TxFacts, SkbTypes
  <1>1. /\ pc[T(d)] = "lockup" /\ pc'[T(d)] = "tx_int"
        /\ stopped' = [stopped EXCEPT ![d] = @ \/ FALSE]
        /\ UNCHANGED <<ppool, status, up, skb>>
    BY DEF Lockup, At, Goto, T, lists, dev, config
  <1>2. \A e \in Devs : stopped'[e] => stopped[e]
    BY <1>1
  <1>. QED
    BY <1>1, <1>2 DEF SkbTxView, Wakes, Sending

\* The twin's receive interrupt frees nothing.
LEMMA SkbRxInterrupt ==
    ASSUME SnullInv, NEW d \in Devs, SkbTxView(d), Interrupt(d, Twin(d), "rx_int", "tx_load")
    PROVE  SkbTxView(d)'
  <1>. USE TxFacts, SkbTypes
  <1>1. /\ pc[T(d)] = "rx_int" /\ status' = [status EXCEPT ![Twin(d)] = {}]
        /\ UNCHANGED <<ppool, stopped, up, cf, bottom, reg>>
        /\ skb' = [skb EXCEPT ![Twin(d)] = IF "TX" \in status[Twin(d)] THEN Freed(@) ELSE @]
    BY InterruptFacts
  <1>2. skb' = skb
    BY <1>1 DEF SkbTxView
  <1>3. pc'[T(d)] = "tx_load" \/ (pc'[T(d)] = "push" /\ ret'[T(d)] = "tx_load")
    BY InterruptFacts
  <1>4. status'[d] = status[d] /\ status'[Twin(d)] = {}
    BY <1>1
  <1>. QED
    BY <1>1, <1>2, <1>3, <1>4 DEF SkbTxView, Wakes, Sending

\* The transmit interrupt frees the skb that is held.
LEMMA SkbOwnInterrupt ==
    ASSUME SnullInv, NEW d \in Devs, TxView(d), AllUp, SkbTxView(d),
           Interrupt(d, d, "tx_int", "idle") \/ Interrupt(d, d, "timeout_int", "timeout_wake")
    PROVE  SkbTxView(d)'
  <1>. USE TxFacts, SkbTypes
  <1>1. CASE Interrupt(d, d, "tx_int", "idle")
    <2>1. /\ pc[T(d)] = "tx_int" /\ status' = [status EXCEPT ![d] = {}]
          /\ UNCHANGED <<ppool, stopped, up, cf, bottom, reg>>
          /\ skb' = [skb EXCEPT ![d] = IF "TX" \in status[d] THEN Freed(@) ELSE @]
      BY <1>1, InterruptFacts
    <2>2. pc'[T(d)] = "idle"
      BY <1>1, <2>1, OwnInterruptKeepsView
    <2>3. "TX" \in status[d] /\ skb[d] = "held"
      BY <2>1 DEF SkbTxView, Sending
    <2>4. skb'[d] = "freed" /\ skb'[Twin(d)] = skb[Twin(d)] /\ status'[d] = {} /\ status'[Twin(d)] = status[Twin(d)]
      BY <2>1, <2>3 DEF Freed
    <2>. QED
      BY <2>1, <2>2, <2>4 DEF SkbTxView, Wakes, Sending
  <1>2. CASE Interrupt(d, d, "timeout_int", "timeout_wake")
    BY <1>2, InterruptFacts DEF SkbTxView
  <1>. QED
    BY <1>1, <1>2

\* A buffer that comes back to an empty pool is the bottom one, and wakes the queue.
LEMMA ReleaseStopped ==
    ASSUME SnullInv, NEW c \in Ctxs,
           \A e \in Devs : stopped[e] /\ up[e] => ppool[e] = <<>> \/ Wakes(c, e),
           ReleasePush(c) \/ ReleaseWake(c)
    PROVE  \A e \in Devs : (stopped[e] /\ up[e] => ppool[e] = <<>> \/ Wakes(c, e))'
  <1>t. /\ stopped \in [Devs -> BOOLEAN] /\ bottom \in [Pkts -> BOOLEAN] /\ up \in [Devs -> BOOLEAN]
    BY DEF SnullInv, SnullTypes
  <1>1. CASE ReleasePush(c)
    <2>1. /\ pc[c] = "push" /\ pc'[c] = "wake" /\ hand[c] \in Pkts /\ hand[c][1] \in Devs
          /\ \A e \in Devs : e # hand[c][1] => ppool'[e] = ppool[e]
          /\ UNCHANGED <<stopped, up, hand>>
      BY <1>1, ReleaseFacts
    <2>2. bottom' = [bottom EXCEPT ![hand[c]] = ppool[hand[c][1]] = <<>>]
      BY <1>1 DEF ReleasePush
    <2>3. ASSUME NEW e \in Devs, stopped[e], up[e] PROVE ppool[e] = <<>>
      BY <2>1, <2>3 DEF Wakes
    <2>4. ASSUME ppool[hand[c][1]] = <<>> PROVE bottom'[hand[c]]
      BY <1>t, <2>1, <2>2, <2>4
    <2>5. ASSUME NEW e \in Devs, stopped[e], up[e] PROVE ppool'[e] = <<>> \/ Wakes(c, e)'
      <3>1. CASE e = hand[c][1]
        BY <2>1, <2>3, <2>4, <2>5, <3>1 DEF Wakes
      <3>2. CASE e # hand[c][1]
        BY <2>1, <2>3, <2>5, <3>2
      <3>. QED
        BY <3>1, <3>2
    <2>. QED
      BY <2>1, <2>5
  <1>2. CASE ReleaseWake(c)
    <2>1. /\ pc[c] = "wake" /\ hand[c] \in Pkts /\ hand[c][1] \in Devs
          /\ stopped' = [stopped EXCEPT ![hand[c][1]] = @ /\ ~bottom[hand[c]]]
          /\ UNCHANGED <<ppool, up>>
      BY <1>2, WakeFacts
    <2>2. ASSUME NEW e \in Devs, stopped'[e], up[e] PROVE ppool[e] = <<>>
      <3>1. CASE e = hand[c][1]
        <4>1. stopped[e] /\ ~bottom[hand[c]]
          BY <1>t, <2>1, <2>2, <3>1, Zenon
        <4>. QED
          BY <2>2, <4>1 DEF Wakes
      <3>2. CASE e # hand[c][1]
        <4>1. stopped[e]
          BY <1>t, <2>1, <2>2, <3>2
        <4>. QED
          BY <2>2, <3>2, <4>1 DEF Wakes
      <3>. QED
        BY <3>1, <3>2
    <2>. QED
      BY <2>1, <2>2
  <1>. QED
    BY <1>1, <1>2

\* Releasing a buffer touches no skb, in the transmit context
LEMMA SkbTxRelease ==
    ASSUME SnullInv, NEW d \in Devs, TxView(d), SkbTxView(d), ReleasePush(T(d)) \/ ReleaseWake(T(d))
    PROVE  SkbTxView(d)'
  <1>. USE TxFacts, SkbTypes
  <1>1. \A e \in Devs : (stopped[e] /\ up[e] => ppool[e] = <<>> \/ Wakes(T(d), e))'
    BY ReleaseStopped DEF SkbTxView
  <1>2. CASE ReleasePush(T(d))
    BY <1>1, <1>2, ReleaseFacts DEF SkbTxView, Sending
  <1>3. CASE ReleaseWake(T(d))
    <2>1. ret[T(d)] \in {"idle", "tx_load"}
      BY <1>3, WakeFacts DEF TxView, SnullInv, SnullTypes
    <2>2. pc[T(d)] = "wake" /\ pc'[T(d)] = ret[T(d)] /\ UNCHANGED <<status, skb, reg, ret>>
      BY <1>3, WakeFacts
    <2>. QED
      BY <1>1, <2>1, <2>2 DEF SkbTxView, Sending
  <1>. QED
    BY <1>2, <1>3

\* and in a poll.
LEMMA SkbPollRelease ==
    ASSUME SnullInv, NEW d \in Devs, SkbPollView(d), ReleasePush(P(d)) \/ ReleaseWake(P(d))
    PROVE  SkbPollView(d)'
  <1>c. P(d) \in Ctxs
    BY Contexts
  <1>1. \A e \in Devs : (stopped[e] /\ up[e] => ppool[e] = <<>> \/ Wakes(P(d), e))'
    BY <1>c, ReleaseStopped DEF SkbPollView
  <1>2. UNCHANGED <<status, skb>>
    BY <1>c, ReleaseFacts, WakeFacts
  <1>. QED
    BY <1>1, <1>2 DEF SkbPollView

\* The watchdog finds no stopped queue; ifconfig changes what it stops and starts.
LEMMA SkbLate ==
    ASSUME SnullInv, PollUp, NEW d \in Devs, ~cf.smp, TxView(d), SkbTxView(d),
           Timeout(d) \/ TimeoutWake(d) \/ Down(d) \/ Open(d)
    PROVE  SkbTxView(d)'
  <1>. USE TxFacts, SkbTypes
  <1>1. ~Timeout(d)
    <2>1. SUFFICES ASSUME Timeout(d) PROVE FALSE
      OBVIOUS
    <2>2. pc[T(d)] = "idle" /\ up[d] /\ stopped[d]
      BY <2>1 DEF Timeout, Late, At, T
    <2>3. ppool[d] # <<>>
      BY <2>1, LateHome DEF Timeout
    <2>. QED
      BY <2>2, <2>3 DEF SkbTxView, Wakes
  <1>2. ~TimeoutWake(d)
    BY DEF TimeoutWake, At, SkbTxView, T
  <1>3. CASE Down(d)
    <2>1. /\ pc[T(d)] = "idle" /\ up' = [up EXCEPT ![d] = FALSE] /\ stopped' = [stopped EXCEPT ![d] = TRUE]
          /\ UNCHANGED <<ppool, bottom, status, skb, reg, ret, pc, hand>>
      BY <1>3 DEF Down, Late, At, T, lists, dev
    <2>2. \A e \in Devs : stopped'[e] /\ up'[e] => stopped[e] /\ up[e]
      BY <2>1
    <2>. QED
      BY <2>1, <2>2 DEF SkbTxView, Wakes, Sending
  <1>4. CASE Open(d)
    <2>1. /\ pc[T(d)] = "idle" /\ up' = [up EXCEPT ![d] = TRUE] /\ stopped' = [stopped EXCEPT ![d] = FALSE]
          /\ UNCHANGED <<ppool, bottom, status, skb, reg, ret, pc, hand>>
      BY <1>4 DEF Open, Late, At, T, lists, dev
    <2>2. \A e \in Devs : stopped'[e] /\ up'[e] => stopped[e] /\ up[e]
      BY <2>1
    <2>. QED
      BY <2>1, <2>2 DEF SkbTxView, Wakes, Sending
  <1>. QED
    BY <1>1, <1>2, <1>3, <1>4

\* A poll touches no skb.
LEMMA SkbPoll ==
    ASSUME SnullInv, NEW d \in Devs, SkbPollView(d),
           PollStart(d) \/ PollTake(d) \/ PollDeliver(d) \/ PollStop(d) \/ PollTest(d) \/ PollInts(d)
    PROVE  SkbPollView(d)'
  <1>1. UNCHANGED <<ppool, status, stopped, up, skb>>
    BY Zenon DEF PollStart, PollTake, PollDeliver, PollStop, PollTest, PollInts, lists, dev, config
  <1>2. pc[P(d)] # "wake"
    BY DEF PollStart, PollTake, PollDeliver, PollStop, PollTest, PollInts, At, P
  <1>. QED
    BY <1>1, <1>2 DEF SkbPollView, Wakes

\* Steps of the transmit context keep the view,
LEMMA SkbTxKeeps ==
    ASSUME SnullInv, PollUp, AllUp, NEW d \in Devs, ~cf.smp, cf.lockup = 0, TxView(d), SkbTxView(d), TxStep(d)
    PROVE  SkbTxView(d)'
  <1>1. CASE Interrupts(d)
    BY <1>1, SkbRxInterrupt, SkbOwnInterrupt DEF Interrupts
  <1>2. CASE ReleasePush(<<"tx", d>>) \/ ReleaseWake(<<"tx", d>>)
    BY <1>2, SkbTxRelease DEF T
  <1>. QED
    BY <1>1, <1>2, SkbTxFirst, SkbGetTxBuffer, SkbRaise, SkbLockup, SkbLate DEF TxStep, TxSteps

\* and so do steps of the poll.
LEMMA SkbPollKeeps ==
    ASSUME SnullInv, NEW d \in Devs, SkbPollView(d), PollSteps(d)
    PROVE  SkbPollView(d)'
  BY SkbPoll, SkbPollRelease DEF PollSteps, P

\* Every step keeps the invariant of the skb.
LEMMA SkbInvStep ==
    ASSUME SnullInv, PollUp, UniInv, SkbInv, [Next]_vars
    PROVE  SkbInv'
  <1>s. SUFFICES ASSUME Steady', cf'.lockup = 0 PROVE Skb'
    BY DEF SkbInv
  <1>2. Steady /\ ~cf.smp /\ AllUp /\ cf.lockup = 0
    BY <1>s, SteadyBefore, SteadyUp, ConfigStays
  <1>3. Skb /\ Uni /\ SnullTypes
    BY <1>2 DEF SkbInv, UniInv, SnullInv
  <1>4. CASE UNCHANGED vars
    <2>1. UNCHANGED <<ppool, bottom, status, stopped, up, skb, pc, hand, reg, ret>>
      BY <1>4 DEF vars, lists, dev, config
    <2>. QED
      BY <1>3, <2>1 DEF Skb, StoppedEmpty, SkbHeld, Sending
  <1>5. ASSUME NEW d \in Devs, TxStep(d) PROVE Skb'
    <2>1. OnlyTx(d) /\ OnlyTx(d)'
      BY <1>2, <1>5, TxOnly
    <2>2. TxView(d) /\ SkbTxView(d)
      BY <1>3, <2>1, TxViewed, SkbTxViewed
    <2>3. SkbTxView(d)'
      BY <1>2, <1>5, <2>2, SkbTxKeeps
    <2>4. (Skb <=> SkbTxView(d))'
      BY <2>1, SkbTxViewed, PTL
    <2>. QED
      BY <2>3, <2>4
  <1>6. ASSUME NEW d \in Devs, PollSteps(d) PROVE Skb'
    <2>1. Only(P(d)) /\ Only(P(d))'
      BY <1>2, <1>6, PollOnly
    <2>2. SkbPollView(d)
      BY <1>3, <2>1, SkbPollViewed
    <2>3. SkbPollView(d)'
      BY <1>6, <2>2, SkbPollKeeps
    <2>4. (Skb <=> SkbPollView(d))'
      BY <2>1, SkbPollViewed, PTL
    <2>. QED
      BY <2>3, <2>4
  <1>. QED
    BY <1>4, <1>5, <1>6 DEF Next, TxStep

\* It holds at the start.
LEMMA SkbInvInit ==
    ASSUME Init
    PROVE  SkbInv
  <1>1. \A c \in Ctxs : pc[c] = "idle"
    BY DEF Init
  <1>2. StoppedEmpty
    BY DEF Init, StoppedEmpty
  <1>3. \A d \in Devs : pc[T(d)] = "idle" /\ skb[d] = "none" /\ status[d] = {}
    BY <1>1, Contexts DEF Init
  <1>4. SkbHeld
    BY <1>3 DEF SkbHeld, Sending
  <1>. QED
    BY <1>2, <1>4 DEF SkbInv, Skb

\* There, without lockups, every skb is freed once: "Remember the skb, so we can
\* free it at interrupt time" (525) holds for any number of packets, and the watchdog
\* never comes in between.
THEOREM SnullSkbOnce == Spec => []SkbOnce
  <1>1. Init => SnullInv /\ PollUp /\ UniInv /\ SkbInv
    BY SnullInvInit, PollUpInit, UniInvInit, SkbInvInit
  <1>2. SnullInv /\ PollUp /\ UniInv /\ SkbInv /\ [Next]_vars => SnullInv' /\ PollUp' /\ UniInv' /\ SkbInv'
    BY SnullInvStep, PollUpStep, UniInvStep, SkbInvStep
  <1>3. SkbInv => SkbOnce
    BY DEF SkbInv, Skb, SkbHeld, SkbOnce
  <1>. QED
    BY <1>1, <1>2, <1>3, PTL DEF Spec
=============================================================================
