-------------------------------- MODULE Snull -------------------------------
(***************************************************************************)
(* The network driver of src/ldd4/snull/snull.c: two interfaces, each the  *)
(* other's cable.  A transmission takes a buffer from the sender's pool,   *)
(* queues it on the twin, raises the twin's receive interrupt and then the *)
(* sender's own transmit interrupt.                                        *)
(*                                                                         *)
(* What runs: a transmit context per interface (hard_start_xmit and the    *)
(* watchdog, serialised by the kernel's transmit lock) and, with NAPI, a   *)
(* poll per interface.  An "interrupt" is a call made by a transmit        *)
(* context.  A critical section of priv->lock is one step; what the code   *)
(* does outside it, "status |= x" included, is separate steps.  All of     *)
(* this is bottom-half code: on a uniprocessor each call runs to its end,  *)
(* but the stack that a poll hands a packet to may transmit before it      *)
(* returns; the watchdog and ifconfig run only when no poll is pending.    *)
(*                                                                         *)
(* Pool and receive queue are the sequences of buffers of the linked       *)
(* lists.  pkt->next is written when pkt is pushed and at no other time,   *)
(* so bottom[pkt], whether it is NULL, says all that the code asks of it.  *)
(***************************************************************************)
EXTENDS Integers, Sequences, FiniteSets, Functions

CONSTANTS
    PoolSize,       \* the buffers snull_setup_pool could allocate
    Configs         \* the module's parameters lockup and use_napi, and the kernel it
                    \* runs on: smp; the bounds for TLC: packets sent in all (maxTx),
                    \* times that an interface is brought down (maxDowns)

ASSUME SnullAssumption ==
    /\ PoolSize \in Nat \ {0}
    /\ Configs \subseteq [lockup : Nat, use_napi : BOOLEAN, smp : BOOLEAN, maxTx : Nat, maxDowns : Nat]

Devs == {0, 1}
Twin(d) == 1 - d
Pkts == Devs \X (1..PoolSize)       \* pkt[1] is pkt->dev
NoPkt == <<>>
Ctxs == {"tx", "poll"} \X Devs      \* c[2] is the interface it works for

VARIABLES
    ppool, rx_queue, bottom,
    status, rx_int_enabled,
    stopped,        \* the state of netif_queue_stopped
    skb,            \* priv->skb: "none", "held", "freed", or "wrong" (leaked or freed twice)
    sched,          \* the interface is on the kernel's poll list
    tx_packets,     \* priv->stats.tx_packets
    sent, downs, up,
    pc, hand, reg, ret,  \* of each context: label, pkt, loaded status, return label
    cf              \* the configuration

lists == <<ppool, rx_queue, bottom>>
config == <<sent, downs, up, cf>>
dev == <<status, rx_int_enabled, skb, sched, tx_packets>>
vars == <<lists, dev, stopped, config, pc, hand, reg, ret>>

Init ==
    /\ ppool = [d \in Devs |-> [i \in 1..PoolSize |-> <<d, PoolSize + 1 - i>>]]
    /\ rx_queue = [d \in Devs |-> <<>>]
    /\ bottom = [p \in Pkts |-> p[2] = 1]
    /\ status = [d \in Devs |-> {}]
    /\ rx_int_enabled = [d \in Devs |-> TRUE]
    /\ stopped = [d \in Devs |-> FALSE] /\ up = [d \in Devs |-> TRUE]
    /\ skb = [d \in Devs |-> "none"]
    /\ sched = [d \in Devs |-> FALSE]
    /\ tx_packets = [d \in Devs |-> 0]
    /\ sent = [d \in Devs |-> 0] /\ downs = [d \in Devs |-> 0]
    /\ pc = [c \in Ctxs |-> "idle"] /\ ret = [c \in Ctxs |-> "idle"]
    /\ hand = [c \in Ctxs |-> NoPkt] /\ reg = [c \in Ctxs |-> {}]
    /\ cf \in Configs

Goto(c, l) == pc' = [pc EXCEPT ![c] = l]
\* On a uniprocessor only a transmission nests, inside netif_receive_skb.
Nests(c, o) == c[1] = "tx" /\ o[1] = "poll" /\ pc[o] = "deliver"
Alone(c) == cf.smp \/ \A o \in Ctxs \ {c} : pc[o] = "idle" \/ Nests(c, o)
At(c, l) == pc[c] = l /\ Alone(c)
\* The watchdog and ifconfig come after the softirqs that are pending.
Late(d) == At(<<"tx", d>>, "idle") /\ (cf.smp \/ \A e \in Devs : ~sched[e])

-----------------------------------------------------------------------------
\* snull_tx: priv->skb = skb.  The skb before it should have been freed.
Tx(d) ==
    /\ At(<<"tx", d>>, "idle") /\ up[d] /\ ~stopped[d] /\ sent[0] + sent[1] < cf.maxTx
    /\ sent' = [sent EXCEPT ![d] = @ + 1]
    /\ skb' = [skb EXCEPT ![d] = IF @ \in {"held", "wrong"} THEN "wrong" ELSE "held"]
    /\ Goto(<<"tx", d>>, "get")
    /\ UNCHANGED <<lists, status, rx_int_enabled, sched, tx_packets, stopped, downs, up,
                   cf, hand, reg, ret>>

\* Mistake: the queue goes on when the pool is empty.
GetTxBufferNoStop(d) ==
    LET c == <<"tx", d>> IN
    /\ At(c, "get")
    /\ IF ppool[d] = <<>>
       THEN Goto(c, "oops") /\ UNCHANGED <<ppool, hand>>
       ELSE /\ hand' = [hand EXCEPT ![c] = Head(ppool[d])]
            /\ ppool' = [ppool EXCEPT ![d] = Tail(@)]
            /\ Goto(c, "enqueue")
    /\ UNCHANGED <<rx_queue, bottom, stopped, dev, config, reg, ret>>

\* snull_get_tx_buffer: nothing tests for an empty pool.
GetTxBuffer(d) ==
    LET c == <<"tx", d>> IN
    /\ At(c, "get")
    /\ IF ppool[d] = <<>>
       THEN Goto(c, "oops") /\ UNCHANGED <<ppool, hand, stopped>>
       ELSE /\ hand' = [hand EXCEPT ![c] = Head(ppool[d])]
            /\ ppool' = [ppool EXCEPT ![d] = Tail(@)]
            /\ stopped' = [stopped EXCEPT ![d] = @ \/ Len(ppool[d]) = 1]
            /\ Goto(c, "enqueue")
    /\ UNCHANGED <<rx_queue, bottom, dev, config, reg, ret>>

\* snull_enqueue_buf, on the twin
EnqueueBuf(d) ==
    LET c == <<"tx", d>>
        t == Twin(d) IN
    /\ At(c, "enqueue")
    /\ bottom' = [bottom EXCEPT ![hand[c]] = rx_queue[t] = <<>>]
    /\ rx_queue' = [rx_queue EXCEPT ![t] = <<hand[c]>> \o @]
    /\ hand' = [hand EXCEPT ![c] = NoPkt]
    /\ Goto(c, "rx_test")
    /\ UNCHANGED <<ppool, dev, stopped, config, reg, ret>>

RxTest(d) ==
    /\ At(<<"tx", d>>, "rx_test")
    /\ Goto(<<"tx", d>>, IF rx_int_enabled[Twin(d)] THEN "rx_load" ELSE "tx_load")
    /\ UNCHANGED <<lists, dev, stopped, config, hand, reg, ret>>

\* priv->status |= flag, outside the lock: a load and a store
Load(d, e, from, to) ==
    LET c == <<"tx", d>> IN
    /\ At(c, from)
    /\ reg' = [reg EXCEPT ![c] = status[e]]
    /\ Goto(c, to)
    /\ UNCHANGED <<lists, dev, stopped, config, hand, ret>>

Store(d, e, flag, from, to) ==
    LET c == <<"tx", d>> IN
    /\ At(c, from)
    /\ status' = [status EXCEPT ![e] = reg[c] \cup {flag}]
    /\ reg' = [reg EXCEPT ![c] = {}]
    /\ Goto(c, to)
    /\ UNCHANGED <<lists, rx_int_enabled, skb, sched, tx_packets, stopped, config, hand, ret>>

RaiseRx(d) == Load(d, Twin(d), "rx_load", "rx_store") \/ Store(d, Twin(d), "RX", "rx_store", "rx_int")
RaiseTx(d) == Load(d, d, "tx_load", "tx_store") \/ Store(d, d, "TX", "tx_store", "lockup")

\* A dropped transmit interrupt is simulated every lockup packets.
Lockup(d) ==
    LET c == <<"tx", d>>
        drop == cf.lockup # 0 /\ (tx_packets[d] + 1) % cf.lockup = 0 IN
    /\ At(c, "lockup")
    /\ stopped' = [stopped EXCEPT ![d] = @ \/ drop]
    /\ Goto(c, IF drop THEN "idle" ELSE "tx_int")
    /\ UNCHANGED <<lists, dev, config, hand, reg, ret>>

\* "a transmission is over: free the skb"
Freed(s) == IF s = "held" THEN "freed" ELSE "wrong"

\* Mistake: the buffer of a packet that was received is not released.
RegularInterruptKeeps(c, e, next) ==
    LET pkt == IF "RX" \in status[e] /\ rx_queue[e] # <<>> THEN Head(rx_queue[e]) ELSE NoPkt IN
    /\ rx_queue' = IF pkt = NoPkt THEN rx_queue ELSE [rx_queue EXCEPT ![e] = Tail(@)]
    /\ Goto(c, next)
    /\ UNCHANGED <<rx_int_enabled, sched, hand, ret>>

\* snull_regular_interrupt for interface e, up to the unlock; the twin's buffer is
\* then released outside the lock.  snull_rx delivers the packet or drops it.
RegularInterrupt(c, e, next) ==
    LET pkt == IF "RX" \in status[e] /\ rx_queue[e] # <<>> THEN Head(rx_queue[e]) ELSE NoPkt IN
    /\ hand' = [hand EXCEPT ![c] = pkt]
    /\ rx_queue' = IF pkt = NoPkt THEN rx_queue ELSE [rx_queue EXCEPT ![e] = Tail(@)]
    /\ ret' = [ret EXCEPT ![c] = next]
    /\ Goto(c, IF pkt = NoPkt THEN next ELSE "push")
    /\ UNCHANGED <<rx_int_enabled, sched>>

\* snull_napi_interrupt: no more receive interrupts, and netif_rx_schedule, which does
\* nothing for an interface that is down.
NapiInterrupt(c, e, next) ==
    /\ rx_int_enabled' = [rx_int_enabled EXCEPT ![e] = @ /\ "RX" \notin status[e]]
    /\ sched' = [sched EXCEPT ![e] = @ \/ ("RX" \in status[e] /\ up[e])]
    /\ Goto(c, next)
    /\ UNCHANGED <<rx_queue, hand, ret>>

\* Mistake: the status is not cleared.
InterruptKeep(d, e, from, next) ==
    LET c == <<"tx", d>> IN
    /\ At(c, from)
    /\ tx_packets' = [tx_packets EXCEPT ![e] = IF "TX" \in status[e] THEN @ + 1 ELSE @]
    /\ skb' = [skb EXCEPT ![e] = IF "TX" \in status[e] THEN Freed(@) ELSE @]
    /\ IF cf.use_napi THEN NapiInterrupt(c, e, next) ELSE RegularInterrupt(c, e, next)
    /\ UNCHANGED <<status, ppool, bottom, stopped, config, reg>>

Interrupt(d, e, from, next) ==
    LET c == <<"tx", d>> IN
    /\ At(c, from)
    /\ status' = [status EXCEPT ![e] = {}]
    /\ tx_packets' = [tx_packets EXCEPT ![e] = IF "TX" \in status[e] THEN @ + 1 ELSE @]
    /\ skb' = [skb EXCEPT ![e] = IF "TX" \in status[e] THEN Freed(@) ELSE @]
    /\ IF cf.use_napi THEN NapiInterrupt(c, e, next) ELSE RegularInterrupt(c, e, next)
    /\ UNCHANGED <<ppool, bottom, stopped, config, reg>>

Interrupts(d) ==
    \/ Interrupt(d, Twin(d), "rx_int", "tx_load")
    \/ Interrupt(d, d, "tx_int", "idle")
    \/ Interrupt(d, d, "timeout_int", "timeout_wake")

\* snull_release_buffer, under the lock; the context keeps the pointer
ReleasePush(c) ==
    LET d == hand[c][1] IN
    /\ At(c, "push")
    /\ bottom' = [bottom EXCEPT ![hand[c]] = ppool[d] = <<>>]
    /\ ppool' = [ppool EXCEPT ![d] = <<hand[c]>> \o @]
    /\ Goto(c, "wake")
    /\ UNCHANGED <<rx_queue, dev, stopped, config, hand, reg, ret>>

\* and after it: if (netif_queue_stopped(pkt->dev) && pkt->next == NULL) wake
ReleaseWake(c) ==
    /\ At(c, "wake")
    /\ stopped' = [stopped EXCEPT ![hand[c][1]] = @ /\ ~bottom[hand[c]]]
    /\ hand' = [hand EXCEPT ![c] = NoPkt]
    /\ Goto(c, ret[c])
    /\ UNCHANGED <<lists, dev, config, reg, ret>>

\* Mistake: the timeout acts only if the transmit interrupt is still pending.
TimeoutIfPending(d) ==
    /\ Late(d) /\ up[d] /\ stopped[d] /\ "TX" \in status[d]
    /\ status' = [status EXCEPT ![d] = {"TX"}]
    /\ Goto(<<"tx", d>>, "timeout_int")
    /\ UNCHANGED <<lists, rx_int_enabled, skb, sched, tx_packets, stopped, config, hand, reg, ret>>

\* snull_tx_timeout, called by the watchdog for a queue that stays stopped
Timeout(d) ==
    /\ Late(d) /\ up[d] /\ stopped[d]
    /\ status' = [status EXCEPT ![d] = {"TX"}]
    /\ Goto(<<"tx", d>>, "timeout_int")
    /\ UNCHANGED <<lists, rx_int_enabled, skb, sched, tx_packets, stopped, config, hand, reg, ret>>

TimeoutWake(d) ==
    /\ At(<<"tx", d>>, "timeout_wake")
    /\ stopped' = [stopped EXCEPT ![d] = FALSE]
    /\ Goto(<<"tx", d>>, "idle")
    /\ UNCHANGED <<lists, dev, config, hand, reg, ret>>

-----------------------------------------------------------------------------
PollStart(d) ==
    /\ At(<<"poll", d>>, "idle") /\ sched[d]
    /\ Goto(<<"poll", d>>, "poll_first")
    /\ UNCHANGED <<lists, dev, stopped, config, hand, reg, ret>>

\* snull_poll takes packets while it has quota, one at least; netif_receive_skb hands
\* each to the stack, if there is memory for an skb, and then its buffer is released.
PollTake(d) ==
    LET c == <<"poll", d>> IN
    /\ At(c, "poll_first") \/ At(c, "poll_more")
    /\ rx_queue[d] # <<>>
    /\ hand' = [hand EXCEPT ![c] = Head(rx_queue[d])]
    /\ rx_queue' = [rx_queue EXCEPT ![d] = Tail(@)]
    /\ ret' = [ret EXCEPT ![c] = "poll_more"]
    /\ Goto(c, "deliver") \/ Goto(c, "push")
    /\ UNCHANGED <<ppool, bottom, dev, stopped, config, reg>>

PollDeliver(d) ==
    /\ At(<<"poll", d>>, "deliver")
    /\ Goto(<<"poll", d>>, "push")
    /\ UNCHANGED <<lists, dev, stopped, config, hand, reg, ret>>

PollStop(d) ==
    LET c == <<"poll", d>> IN
    /\ At(c, "poll_more") \/ (At(c, "poll_first") /\ rx_queue[d] = <<>>)
    /\ Goto(c, "poll_test")
    /\ UNCHANGED <<lists, dev, stopped, config, hand, reg, ret>>

\* Mistake: the poll is complete though the quota ran out first.
PollTestAlways(d) ==
    LET c == <<"poll", d>> IN
    /\ At(c, "poll_test")
    /\ sched' = [sched EXCEPT ![d] = FALSE]
    /\ Goto(c, "poll_ints")
    /\ UNCHANGED <<lists, status, rx_int_enabled, skb, tx_packets, stopped, config, hand, reg, ret>>

\* netif_rx_complete if nothing is left, else the kernel polls again.
PollTest(d) ==
    LET c == <<"poll", d>> IN
    /\ At(c, "poll_test")
    /\ sched' = [sched EXCEPT ![d] = rx_queue[d] # <<>>]
    /\ Goto(c, IF rx_queue[d] = <<>> THEN "poll_ints" ELSE "idle")
    /\ UNCHANGED <<lists, status, rx_int_enabled, skb, tx_packets, stopped, config, hand, reg, ret>>

\* snull_rx_ints(dev, 1)
PollInts(d) ==
    /\ At(<<"poll", d>>, "poll_ints")
    /\ rx_int_enabled' = [rx_int_enabled EXCEPT ![d] = TRUE]
    /\ Goto(<<"poll", d>>, "idle")
    /\ UNCHANGED <<lists, status, skb, sched, tx_packets, stopped, config, hand, reg, ret>>

-----------------------------------------------------------------------------
\* snull_release and snull_open: ifconfig down, when its poll is over, and up again.
Down(d) ==
    /\ Late(d) /\ up[d] /\ ~sched[d] /\ downs[0] + downs[1] < cf.maxDowns
    /\ up' = [up EXCEPT ![d] = FALSE] /\ downs' = [downs EXCEPT ![d] = @ + 1]
    /\ stopped' = [stopped EXCEPT ![d] = TRUE]
    /\ UNCHANGED <<lists, dev, sent, cf, pc, hand, reg, ret>>

Open(d) ==
    /\ Late(d) /\ ~up[d]
    /\ up' = [up EXCEPT ![d] = TRUE]
    /\ stopped' = [stopped EXCEPT ![d] = FALSE]
    /\ UNCHANGED <<lists, dev, sent, downs, cf, pc, hand, reg, ret>>

TxSteps(d) ==
    \/ GetTxBuffer(d) \/ EnqueueBuf(d) \/ RxTest(d) \/ RaiseRx(d) \/ RaiseTx(d)
    \/ Lockup(d) \/ Interrupts(d) \/ TimeoutWake(d)
    \/ ReleasePush(<<"tx", d>>) \/ ReleaseWake(<<"tx", d>>)

PollSteps(d) ==
    \/ PollStart(d) \/ PollTake(d) \/ PollDeliver(d) \/ PollStop(d) \/ PollTest(d) \/ PollInts(d)
    \/ ReleasePush(<<"poll", d>>) \/ ReleaseWake(<<"poll", d>>)

Next ==
    \E d \in Devs : Tx(d) \/ TxSteps(d) \/ PollSteps(d) \/ Timeout(d) \/ Down(d) \/ Open(d)

\* What runs in the kernel goes on, a pending poll is run and so is the watchdog.
Fairness == \A d \in Devs : WF_vars(TxSteps(d)) /\ WF_vars(PollSteps(d)) /\ WF_vars(Timeout(d))

Spec == Init /\ [][Next]_vars /\ Fairness

-----------------------------------------------------------------------------
\* A buffer in hand that is not back in its pool yet.
InHand(c) == IF hand[c] # NoPkt /\ pc[c] # "wake" THEN {hand[c]} ELSE {}
Idle == \A c \in Ctxs : pc[c] = "idle"
Oops == \E c \in Ctxs : pc[c] = "oops"

\* Every buffer is in one place: in the pool of its own interface, in the twin's
\* receive queue, or in the hand of one context.  So a packet is received at most
\* once and its buffer is not overwritten before (132-187, 359-374): on any kernel.
Conserved ==
    \A d \in Devs :
      LET held == [c \in Ctxs |-> {p \in InHand(c) : p[1] = d}] IN
      /\ Range(ppool[d]) \cup Range(rx_queue[Twin(d)]) \cup UNION {held[c] : c \in Ctxs} = {d} \X (1..PoolSize)
      /\ Len(ppool[d]) + Len(rx_queue[Twin(d)]) + Cardinality({c \in Ctxs : held[c] # {}}) = PoolSize

\* A uniprocessor, and with NAPI no interface was ever brought down.  An interrupt for
\* an interface that is down turns its receive interrupts off and schedules nothing
\* (405-406), and nothing turns them on again: from then on the twin's buffers pile up.
Steady == ~cf.smp /\ (cf.use_napi => \A d \in Devs : downs[d] = 0)

\* There a transmission never finds the pool empty, though nothing tests for it
\* (139-140): the queue is stopped with the last buffer and woken with the first one
\* returned, also when a lockup, a timeout or (without NAPI) ifconfig stops and wakes it.
NoOops == Steady => ~Oops

\* And when no interrupt is dropped, each skb is freed once: the next transmission finds
\* the one before it freed ("Remember the skb, so we can free it at interrupt time", 525),
\* and the watchdog never frees it again.
SkbOnce == Steady /\ cf.lockup = 0 => \A d \in Devs : skb[d] # "wrong"

\* And no buffer is left in flight when nothing runs and no poll is pending, which
\* answers "FIXME - in-flight packets ?" (125).
HomeAgain ==
    Steady /\ Idle /\ (\A d \in Devs : ~sched[d]) =>
        \A d \in Devs : Len(ppool[d]) = PoolSize /\ rx_queue[d] = <<>>

\* A stopped queue is woken again, by a returned buffer or by the timeout, unless
\* the interface is brought down or an empty pool stops the kernel.
Moving == \A d \in Devs : stopped[d] ~> (~stopped[d] \/ ~up[d] \/ Oops)
=============================================================================
