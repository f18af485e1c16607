------------------------------ MODULE EdmaRing ------------------------------
(***************************************************************************)
(* The four rings of the Ethernet DMA (EDMA) as drivers/net/qcom/          *)
(* nss-switch.c drives them: RXFILL posts empty buffers to the engine,     *)
(* RXDESC returns received frames, TXDESC takes frames to send and TXCMPL  *)
(* returns their completions.  U-Boot configures one ring of each kind.    *)
(* The network stack polls ipq_eth_recv, which takes at most one frame,    *)
(* and calls ipq_eth_send, also while it handles a received frame; the     *)
(* engine runs between any two register accesses of the driver.            *)
(***************************************************************************)
EXTENDS Naturals, Sequences

CONSTANTS
  RxSize,    \* EDMA_RX_RING_SIZE
  TxSize,    \* EDMA_TX_RING_SIZE
  RxFrames,  \* what a received frame can hold
  TxFrames,  \* what a frame to send can hold
  NoFrame,   \* what an untouched buffer holds
  NoBuf,     \* the packet pointer ipq_eth_recv leaves unset
  Kinds      \* the source a received frame reports: "good" is a port of
             \* the switch, "type" is not a port, "range" a port unknown

ASSUME EdmaAssumption ==
  /\ RxSize \in Nat /\ RxSize > 1
  /\ TxSize \in Nat /\ TxSize > 1
  /\ NoFrame \notin RxFrames \cup TxFrames
  /\ NoBuf \notin Nat
  /\ Kinds \subseteq {"good", "type", "range"}

VARIABLES
  fill, rx, tx, cmpl,  \* producer and consumer index registers of each ring
  rxdesc,    \* the RXDESC ring
  rxbuf,     \* the receive buffers, one to each RXFILL slot for good
  txbuf,     \* the transmit buffers, one to each TXDESC slot for good
  pc,        \* where ipq_eth_recv and the stack above it are
  send,      \* where ipq_eth_send is: "none", "copy" or "commit"
  frame,     \* the frame being sent
  snap,      \* an index read earlier in the call
  got,       \* the buffer ipq_edma_clean_rx returns
  len,       \* ipq_eth_recv returns a length above zero
  wire,      \* the frame the engine sent last
  upper      \* the frame the stack handled last

rings    == <<fill, rx, tx, cmpl>>
memory   == <<rxdesc, rxbuf, txbuf>>
recvVars == <<pc, snap, got, len>>
sendVars == <<send, frame>>
outputs  == <<wire, upper>>
vars     == <<rings, memory, recvVars, sendVars, outputs>>

\* Mutant: the RXFILL ring, and its buffers, are half the RXDESC ring.
FillCountHalf == RxSize \div 2

\* rxfill_ring->count and rxdesc_ring->count.
FillCount == RxSize
RxCount == RxSize

Slots(c) == 0 .. c-1
Index(c) == [prod : Slots(c), cons : Slots(c)]
Empty(r) == r.prod = r.cons
Pending(r, c) == IF r.prod >= r.cons THEN r.prod - r.cons ELSE r.prod + c - r.cons

\* The counts are powers of two, so "& (count - 1)" wraps as this does.
Bump(i, c) == IF i = c - 1 THEN 0 ELSE i + 1
Back(i, c) == IF i = 0 THEN c - 1 ELSE i - 1

\* The slot an offset below twice the count stands for.
At(i, c) == IF i < c THEN i ELSE i - c
-----------------------------------------------------------------------------
\* ipq_edma_hw_init: the rings are empty, and no buffer is posted.
Init ==
  /\ fill = [prod |-> 0, cons |-> 0] /\ rx = [prod |-> 0, cons |-> 0]
  /\ tx = [prod |-> 0, cons |-> 0] /\ cmpl = [prod |-> 0, cons |-> 0]
  /\ rxdesc = [s \in Slots(RxCount) |-> [buf |-> NoBuf, kind |-> "none"]]
  /\ rxbuf = [s \in Slots(FillCount) |-> NoFrame]
  /\ txbuf = [s \in Slots(TxSize) |-> NoFrame]
  /\ pc = "idle" /\ snap = 0 /\ got = NoBuf /\ len = FALSE
  /\ send = "none" /\ frame = NoFrame
  /\ wire = NoFrame /\ upper = NoFrame

\* Mutants: only one of the two rings is asked.
StatusRxOnly == ~Empty(rx)
StatusTxOnly == ~Empty(cmpl)

\* ipq_eth_recv reads the not-empty status of the RXDESC and TXCMPL rings.
Status == ~Empty(rx) \/ ~Empty(cmpl)

RxComplete ==
  /\ pc = "idle" /\ send = "none"
  /\ pc' = "clean_rx"
  /\ UNCHANGED <<rings, memory, snap, got, len, sendVars, outputs>>

RecvPoll == Status /\ RxComplete

\* It reads RXFILL's too: the driver sets no threshold for it, and the
\* engine may or may not raise it while no buffer is posted.
RecvPollFill == Empty(fill) /\ RxComplete

\* ipq_edma_clean_rx takes one descriptor.  The consumer index is written
\* only when the descriptor was good.
RxNone ==
  /\ pc = "clean_rx"
  /\ Empty(rx)
  /\ UNCHANGED <<rx, got, len>>

\* Mutant: every descriptor returned is consumed with the first.
RxTakeAll ==
  /\ pc = "clean_rx"
  /\ ~Empty(rx) /\ rxdesc[rx.cons].kind = "good"
  /\ got' = rxdesc[rx.cons].buf /\ len' = TRUE
  /\ rx' = [rx EXCEPT !.cons = rx.prod]

RxTake ==
  /\ pc = "clean_rx"
  /\ ~Empty(rx) /\ rxdesc[rx.cons].kind = "good"
  /\ got' = rxdesc[rx.cons].buf /\ len' = TRUE
  /\ rx' = [rx EXCEPT !.cons = Bump(@, RxCount)]

RxBad ==
  /\ pc = "clean_rx"
  /\ ~Empty(rx) /\ rxdesc[rx.cons].kind # "good"
  /\ len' = (rxdesc[rx.cons].kind = "range")
  /\ UNCHANGED <<rx, got>>

CleanRx ==
  /\ RxNone \/ RxTake \/ RxBad
  /\ pc' = "clean_tx"
  /\ UNCHANGED <<fill, tx, cmpl, memory, snap, sendVars, outputs>>

\* ipq_edma_clean_tx consumes up to the producer index it read.
CleanTxRead ==
  /\ pc = "clean_tx"
  /\ snap' = cmpl.prod
  /\ pc' = "clean_tx_done"
  /\ UNCHANGED <<rings, memory, got, len, sendVars, outputs>>

CleanTxWrite ==
  /\ pc = "clean_tx_done"
  /\ cmpl' = [cmpl EXCEPT !.cons = snap]
  /\ snap' = 0
  /\ pc' = "alloc"
  /\ UNCHANGED <<fill, rx, tx, memory, got, len, sendVars, outputs>>

\* ipq_edma_alloc_rx_buffer posts every slot up to the one before the
\* consumer index it read.
AllocRead ==
  /\ pc = "alloc"
  /\ snap' = fill.cons
  /\ pc' = "alloc_done"
  /\ UNCHANGED <<rings, memory, got, len, sendVars, outputs>>

\* Mutant: an empty ring is taken for a full one, and nothing is posted.
PostNone == fill.prod

PostUpTo == Back(snap, FillCount)

AllocWrite ==
  /\ pc = "alloc_done"
  /\ fill' = [fill EXCEPT !.prod = PostUpTo]
  /\ snap' = 0
  /\ pc' = IF len THEN "process" ELSE "idle"
  /\ UNCHANGED <<rx, tx, cmpl, memory, got, len, sendVars, outputs>>

\* The stack handles the frame in its buffer; free_pkt does nothing.
Process ==
  /\ pc \in {"process", "replied"} /\ send = "none"
  /\ upper' = IF got = NoBuf THEN NoFrame ELSE rxbuf[got]
  /\ got' = NoBuf /\ len' = FALSE
  /\ pc' = "idle"
  /\ UNCHANGED <<rings, memory, snap, sendVars, wire>>
-----------------------------------------------------------------------------
\* Mutant: the check for a free descriptor is lost.
TxNeverBusy == FALSE

TxBusy == Bump(tx.prod, TxSize) = tx.cons

\* ipq_eth_send.  A handler replies to a frame at most once.
SendStart(f) ==
  /\ send = "none" /\ pc \in {"idle", "process"}
  /\ ~TxBusy
  /\ send' = "copy" /\ frame' = f
  /\ pc' = IF pc = "process" THEN "replied" ELSE "idle"
  /\ UNCHANGED <<rings, memory, snap, got, len, outputs>>

SendCopy ==
  /\ send = "copy"
  /\ txbuf' = [txbuf EXCEPT ![tx.prod] = frame]
  /\ send' = "commit"
  /\ UNCHANGED <<rings, rxdesc, rxbuf, recvVars, frame, outputs>>

SendCommit ==
  /\ send = "commit"
  /\ tx' = [tx EXCEPT !.prod = Bump(@, TxSize)]
  /\ send' = "none" /\ frame' = NoFrame
  /\ UNCHANGED <<fill, rx, cmpl, memory, recvVars, outputs>>
-----------------------------------------------------------------------------
\* The engine: a frame goes into the next posted buffer and its descriptor
\* into the RXDESC ring; either ring without room drops it.
HwCanReceive ==
  /\ ~Empty(fill)
  /\ Bump(rx.prod, RxCount) # rx.cons

HwReceive(f, k) ==
  /\ HwCanReceive
  /\ rxbuf' = [rxbuf EXCEPT ![fill.cons] = f]
  /\ rxdesc' = [rxdesc EXCEPT ![rx.prod] = [buf |-> fill.cons, kind |-> k]]
  /\ fill' = [fill EXCEPT !.cons = Bump(@, FillCount)]
  /\ rx' = [rx EXCEPT !.prod = Bump(@, RxCount)]
  /\ UNCHANGED <<tx, cmpl, txbuf, recvVars, sendVars, outputs>>

\* A frame is sent only when its completion has room.
HwTransmit ==
  /\ ~Empty(tx)
  /\ Bump(cmpl.prod, TxSize) # cmpl.cons
  /\ wire' = txbuf[tx.cons]
  /\ tx' = [tx EXCEPT !.cons = Bump(@, TxSize)]
  /\ cmpl' = [cmpl EXCEPT !.prod = Bump(@, TxSize)]
  /\ UNCHANGED <<fill, rx, memory, recvVars, sendVars, upper>>
-----------------------------------------------------------------------------
RecvBody == CleanRx \/ CleanTxRead \/ CleanTxWrite \/ AllocRead \/ AllocWrite
SendBody == SendCopy \/ SendCommit

Next ==
  \/ RecvPoll \/ RecvPollFill \/ RecvBody \/ Process
  \/ (\E f \in TxFrames : SendStart(f)) \/ SendBody
  \/ HwTransmit
  \/ \E f \in RxFrames, k \in Kinds : HwReceive(f, k)

(***************************************************************************)
(* The driver's code runs on; net_loop polls again after whatever it sends *)
(* and a handler returns after its reply (strong fairness, as a send may   *)
(* come in between); the engine sends what it can.  Nothing says that a    *)
(* frame ever arrives or is ever sent.                                     *)
(***************************************************************************)
Spec == Init /\ [][Next]_vars
FairSpec ==
  /\ Spec
  /\ WF_vars(RecvBody) /\ WF_vars(SendBody) /\ WF_vars(HwTransmit)
  /\ SF_vars(RecvPoll) /\ SF_vars(Process)
-----------------------------------------------------------------------------
TypeOK ==
  /\ fill \in Index(FillCount) /\ rx \in Index(RxCount)
  /\ tx \in Index(TxSize) /\ cmpl \in Index(TxSize)
  /\ rxdesc \in [Slots(RxCount) ->
       [buf : Slots(FillCount) \cup {NoBuf}, kind : Kinds \cup {"none"}]]
  /\ rxbuf \in [Slots(FillCount) -> RxFrames \cup {NoFrame}]
  /\ txbuf \in [Slots(TxSize) -> TxFrames \cup {NoFrame}]
  /\ pc \in {"idle", "clean_rx", "clean_tx", "clean_tx_done", "alloc",
             "alloc_done", "process", "replied"}
  /\ pc \in {"idle", "clean_rx"} => ~len
  /\ pc \in {"process", "replied"} => len
  /\ got # NoBuf => len
  /\ send \in {"none", "copy", "commit"}
  /\ send # "none" => pc \in {"idle", "replied"}
  /\ frame \in TxFrames \cup {NoFrame}
  /\ pc = "alloc_done" => snap \in Slots(FillCount)
  /\ pc = "clean_tx_done" => snap \in Slots(TxSize)
  /\ got \in Slots(FillCount) \cup {NoBuf} /\ len \in BOOLEAN
  /\ wire \in TxFrames \cup {NoFrame} /\ upper \in RxFrames \cup {NoFrame}

(***************************************************************************)
(* The engine never receives into a buffer the driver still needs.  The    *)
(* driver posts every buffer again after each frame it takes, also those   *)
(* of frames it has not taken and of the frame the stack is handling: only *)
(* the room in the RXDESC ring keeps the engine from overwriting them.     *)
(***************************************************************************)
Unread(j) == rxdesc[At(rx.cons + j, RxCount)]

NextBufferIsFree ==
  HwCanReceive =>
    /\ fill.cons # got
    /\ \A j \in 0 .. Pending(rx, RxCount) - 1 : fill.cons # Unread(j).buf

(***************************************************************************)
(* Received frames reach the stack unaltered and in order, each once: the  *)
(* channel's queue is what the buffers hold at this moment, from the frame *)
(* in the stack's hands to the last descriptor returned.                   *)
(***************************************************************************)
QueueOf(r, content, c) ==
  [j \in 1 .. Pending(r, c) |-> content[At(r.cons + (j-1), c)]]

RxQueue ==
  (IF got = NoBuf THEN <<>> ELSE <<rxbuf[got]>>)
    \o QueueOf(rx, [s \in DOMAIN rxdesc |->
         IF rxdesc[s].buf = NoBuf THEN NoFrame ELSE rxbuf[rxdesc[s].buf]], RxCount)

RxChannel == INSTANCE FrameChannel
  WITH Frames <- RxFrames, Capacity <- RxSize, queue <- RxQueue, out <- upper

ReceivesInOrder == RxChannel!CSpec

(***************************************************************************)
(* Frames ipq_eth_send accepted are sent unaltered and in order, each once.*)
(***************************************************************************)
TxQueue == QueueOf(tx, txbuf, TxSize)

TxChannel == INSTANCE FrameChannel
  WITH Frames <- TxFrames, Capacity <- TxSize - 1, queue <- TxQueue, out <- wire

SendsInOrder == TxChannel!CSpec

(***************************************************************************)
(* "netdev tx busy" passes: completions are reaped by ipq_eth_recv only,   *)
(* and until then the engine may be unable to send.                        *)
(***************************************************************************)
BusyPasses == TxBusy ~> ~TxBusy

(***************************************************************************)
(* A good frame at the head of the ring is handed to the stack.            *)
(***************************************************************************)
GoodFrameHandled ==
  (~Empty(rx) /\ Unread(0).kind = "good") ~> pc = "process"

(***************************************************************************)
(* No buffer is posted before the first poll finds work; the completion of *)
(* a frame sent starts reception, and reception never runs out of buffers  *)
(* for good.                                                               *)
(***************************************************************************)
BuffersReturn == wire # NoFrame ~> ~Empty(fill)

(***************************************************************************)
(* What the comment "Update consumer index" at next_rx_desc says of every  *)
(* descriptor ipq_edma_clean_rx looks at: the ring moves on, bad frame or  *)
(* good.                                                                   *)
(***************************************************************************)
HeadMovesOn ==
  \A s \in Slots(RxCount) :
    (~Empty(rx) /\ rx.cons = s) ~> (rx.cons # s)
=============================================================================
