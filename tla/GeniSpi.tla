------------------------------ MODULE GeniSpi -------------------------------
(***************************************************************************)
(* The SPI master of drivers/spi/spi-geni-qcom.c: a serial engine that     *)
(* takes one command, two FIFOs or two DMA channels, and a driver that     *)
(* polls the engine's interrupt bits.  The engine works on between any two *)
(* register accesses of a poll, as far as the properties can tell.         *)
(*                                                                         *)
(* A byte is <<transfer, number>>.  The watermark bits are levels; the     *)
(* others are latched and cleared by writing them, enabled or not.  When   *)
(* the receive FIFO is full the engine either stops or drops the byte and  *)
(* reports it.  An abort that is answered empties the FIFOs.               *)
(***************************************************************************)
EXTENDS Integers, Sequences, SequencesExt

CONSTANTS
  Depth, Width,  \* tx_fifo_depth; fifo_width_bits in bytes
  Lengths,       \* xfer.len
  WordLens,      \* wordlen of the slaves
  Polls,         \* the rounds of the wait loop, bits_per_word * len in the code
  MaxXfers

SpiAssumption ==
  /\ Depth \in Nat \ {0, 1} /\ Width \in Nat \ {0} /\ Polls \in Nat \ {0}
  /\ Lengths \subseteq Nat \ {0} /\ WordLens \subseteq 4 .. 32 /\ MaxXfers \in Nat

VARIABLES
  step,       \* where do_spi_xfer is
  bpw, msb,   \* bits_per_word, the order of the bits
  dmaDisable, \* priv->dma_disable
  xfer,       \* the transfer asked for, and the bytes its words make: [tx, rx, n, dma, moves]
  txRem, rxRem, stat, ret, snap, left, \* of the transfer; m_irq; rounds left
  wm,         \* SE_GENI_TX_WATERMARK_REG
  cmd,        \* the engine's command: [tx, rx, left, dma, k]
  txFifo, rxFifo, last, \* last: RX_LAST
  irq,        \* the latched bits of SE_GENI_M_IRQ_STATUS
  pend, dma,  \* DMA channels still to report; SE_DMA_TX/RX_IRQ_STAT
  wire, buf,  \* the bytes of the transfer sent, and its receive buffer
  xfers,      \* transfers started
  lost,       \* history: a command, or bytes in a FIFO, were left to the next transfer
  masked      \* history: an error of the transfer was overwritten or not read

xferVars == <<xfer, txRem, rxRem>>
pollVars == <<stat, ret, snap, left>>
busVars == <<bpw, msb, dmaDisable>>
engineVars == <<cmd, txFifo, rxFifo, last>>
dataVars == <<wire, buf>>
vars == <<step, busVars, xferVars, pollVars, wm, engineVars, irq, pend, dma, dataVars,
          xfers, lost, masked>>
-----------------------------------------------------------------------------
LowOf(x, y) == IF x < y THEN x ELSE y
UpDiv(x, y) == (x + y - 1) \div y

PackWords(b) == IF b <= 8 THEN 4 ELSE IF b <= 16 THEN 2 ELSE 1
LaneBits(b) == UpDiv(b, 8) * 8

\* geni_se_config_packing: the vectors that move a FIFO entry, each the bit it
\* starts at and the number of bits it takes.
Packing(b, high) ==
  LET first == IF high THEN b - 1 ELSE 0
      iter == (LaneBits(b) * PackWords(b)) \div 8
      at[i \in 0 .. iter] ==
        IF i = 0 THEN [from |-> first, rest |-> b]
        ELSE IF at[i-1].rest <= 8 THEN [from |-> 8 * i + first, rest |-> b]
        ELSE [from |-> at[i-1].from + (IF high THEN -8 ELSE 8), rest |-> at[i-1].rest - 8]
  IN [i \in 1 .. iter |-> [from |-> at[i-1].from, bits |-> LowOf(at[i-1].rest, 8)]]

\* The order in which the vectors move the bits of an entry, and the right one.
BitsMoved(b, high) ==
  FlattenSeq([i \in DOMAIN Packing(b, high) |->
    [j \in 1 .. Packing(b, high)[i].bits |->
       Packing(b, high)[i].from + (IF high THEN 1 - j ELSE j - 1)]])
BitsInOrder(b, high) ==
  FlattenSeq([w \in 1 .. PackWords(b) |->
    [j \in 1 .. b |-> (w - 1) * LaneBits(b) + (IF high THEN b - j ELSE j - 1)]])

Garbled == <<0, 0>>
Packed(byte) == IF BitsMoved(bpw, msb) = BitsInOrder(bpw, msb) THEN byte ELSE Garbled
-----------------------------------------------------------------------------
None == [tx |-> FALSE, rx |-> FALSE, left |-> 0, dma |-> FALSE, k |-> 0]
NoXfer == [tx |-> FALSE, rx |-> FALSE, n |-> 0, dma |-> FALSE, moves |-> 0]

Init ==
  /\ step = "idle" /\ bpw = 0 /\ msb = TRUE /\ dmaDisable \in BOOLEAN
  /\ xfer = NoXfer /\ txRem = 0 /\ rxRem = 0
  /\ stat = "busy" /\ ret = "ok" /\ snap = {} /\ left = 0
  /\ wm = FALSE
  /\ cmd = None /\ txFifo = <<>> /\ rxFifo = <<>> /\ last = FALSE
  /\ irq = {} /\ pend = {} /\ dma = {}
  /\ wire = <<>> /\ buf = <<>>
  /\ xfers = 0 /\ lost = FALSE /\ masked = FALSE

\* What the words of the receive FIFO the driver can see hold: a word that is
\* not full is seen when it is the last one (SE_GENI_RX_FIFO_STATUS).
RxBytes == IF last THEN Len(rxFifo) ELSE (Len(rxFifo) \div Width) * Width

MIrq == irq \cup (IF RxBytes > 0 THEN {"rx"} ELSE {})
            \cup (IF wm /\ txFifo = <<>> THEN {"tx"} ELSE {})

\* geni_spi_handle_tx: all but one entry of the FIFO at a time.
TxTaken(rem) == LowOf(rem, (Depth - 1) * Width)
TxBytes(k, n, rem) == [i \in 1 .. TxTaken(rem) |-> <<k, n - rem + i>>]

\* qupv3_spi_claim_bus.
ClaimBus ==
  /\ step = "idle" /\ xfers < MaxXfers
  /\ bpw' \in WordLens /\ msb' \in BOOLEAN
  /\ <<bpw', msb'>> # <<bpw, msb>>
  /\ UNCHANGED <<step, dmaDisable, xferVars, pollVars, wm, engineVars, irq, pend, dma,
                 dataVars, xfers, lost, masked>>

\* Either mode clears the interrupt bits, and so what an earlier command left.
ModeIrq(busy, full) == (IF busy THEN {"cmd"} ELSE {}) \cup (IF full THEN {"fifo"} ELSE {})

\* The DMA channels that will report (geni_se_tx_dma_prep, geni_se_rx_dma_prep).
DmaPrep(tx, rx) == {d \in {"tx", "rx"} : (d = "tx" /\ tx) \/ (d = "rx" /\ rx)}

\* The bytes of a transfer that the engine is told to move: words of one, two
\* or four bytes, and no word for the bytes left over.
InWords(n) ==
  LET word == IF bpw > 16 THEN 4 ELSE IF bpw > 8 THEN 2 ELSE 1 IN (n \div word) * word

\* Bytes of the last transfer that no command has taken.
LeftOver == txFifo # <<>> \/ (xfer.dma /\ xfer.moves # xfer.n)

\* qupv3_spi_xfer, do_spi_xfer up to its loop.  The FIFO or the channels get all
\* the bytes.  A command the engine still has makes it refuse the new one; what
\* it then sends is not followed, nor what comes after bytes left in a FIFO.
Xfer(tx, rx, n) ==
  /\ step = "idle" /\ bpw # 0 /\ xfers < MaxXfers
  /\ LET useDma == n > (Depth * Width * 8) \div bpw /\ ~dmaDisable
         first == IF tx /\ ~useDma THEN TxTaken(n) ELSE 0
         busy == cmd # None
         fill == IF first > 0 THEN txFifo \o TxBytes(xfers + 1, n, n) ELSE txFifo
     IN /\ xfer' = [tx |-> tx, rx |-> rx, n |-> n, dma |-> useDma, moves |-> InWords(n)]
        /\ txRem' = (IF tx THEN n ELSE 0) - first
        /\ rxRem' = IF rx THEN n ELSE 0
        /\ wm' = IF useDma THEN wm ELSE ~(tx /\ txRem' = 0)
        /\ txFifo' = SubSeq(fill, 1, LowOf(Len(fill), Depth * Width))
        /\ irq' = ModeIrq(busy, Len(fill) > Depth * Width)
        /\ cmd' = IF busy THEN cmd
                  ELSE [tx |-> tx, rx |-> rx, left |-> InWords(n), dma |-> useDma, k |-> xfers + 1]
        /\ pend' = IF useDma /\ ~busy THEN DmaPrep(tx, rx) ELSE pend
  /\ dma' = {}
  /\ wire' = <<>> /\ buf' = <<>>
  /\ stat' = "busy" /\ ret' = "ok" /\ snap' = {} /\ left' = Polls
  /\ xfers' = xfers + 1 /\ masked' = FALSE
  /\ step' = "poll" /\ lost' = (lost \/ LeftOver)
  /\ UNCHANGED <<busVars, rxFifo, last>>
-----------------------------------------------------------------------------
\* The end of a round of the loop.  When the rounds are used up timeout_cnt
\* has wrapped and is not 0: the call succeeds with the command running.
NextRound ==
  IF left = 0
  THEN step' = "idle" /\ left' = 0 /\ lost' = TRUE
  ELSE step' = "poll" /\ left' = left - 1 /\ UNCHANGED lost

\* geni_spi_isr: nothing is looked at when no bit is set, the DMA results
\* included.
Poll ==
  /\ step = "poll"
  /\ snap' = MIrq
  /\ stat' = IF MIrq \cap {"cmd", "fifo"} # {} THEN "err" ELSE stat
  /\ IF MIrq = {} THEN NextRound
     ELSE step' = (IF xfer.dma THEN "dma" ELSE "rx") /\ UNCHANGED <<left, lost>>
  /\ UNCHANGED <<busVars, xferVars, ret, wm, engineVars, irq, pend, dma, dataVars, xfers, masked>>

\* geni_spi_handle_rx.
HandleRx ==
  /\ step = "rx"
  /\ IF "rx" \notin snap THEN UNCHANGED <<rxFifo, last, rxRem, buf>>
     ELSE LET take == IF xfer.rx THEN LowOf(rxRem, RxBytes) ELSE RxBytes
              gone == LowOf(UpDiv(take, Width) * Width, Len(rxFifo))
          IN /\ rxFifo' = SubSeq(rxFifo, gone + 1, Len(rxFifo))
             /\ last' = (last /\ rxFifo' # <<>>)
             /\ rxRem' = IF xfer.rx THEN rxRem - take ELSE rxRem
             /\ buf' = IF xfer.rx THEN buf \o SubSeq(rxFifo, 1, take) ELSE buf
  /\ step' = "tx"
  /\ UNCHANGED <<busVars, xfer, txRem, pollVars, wm, cmd, txFifo, irq, pend, dma, wire, xfers,
                 lost, masked>>

\* geni_spi_handle_tx, from geni_spi_isr.
HandleTx ==
  /\ step = "tx"
  /\ IF "tx" \notin snap THEN UNCHANGED <<txRem, txFifo, wm, irq>>
     ELSE LET fill == txFifo \o TxBytes(xfers, xfer.n, txRem)
          IN /\ txRem' = txRem - TxTaken(txRem)
             /\ txFifo' = SubSeq(fill, 1, LowOf(Len(fill), Depth * Width))
             /\ irq' = irq \cup (IF Len(fill) > Depth * Width THEN {"fifo"} ELSE {})
             /\ wm' = (wm /\ txRem' # 0)
  /\ step' = "done"
  /\ UNCHANGED <<busVars, xfer, rxRem, pollVars, cmd, rxFifo, last, pend, dma, dataVars, xfers,
                 lost, masked>>

\* Mutant: the end of the command is the end of the transfer.
DoneAnyway == IF "done" \in snap THEN "complete" ELSE stat

\* What geni_spi_isr makes of the end of a command.
DoneStat ==
  IF "done" \notin snap THEN stat
  ELSE IF txRem # 0 \/ rxRem # 0 THEN "err" ELSE "complete"

Finish(result) ==
  /\ stat' = result
  /\ irq' = irq \ snap
  /\ masked' = (masked \/ /\ xfer.dma /\ result = "complete"
                          /\ stat = "err" \/ irq \cap {"cmd", "fifo"} # {})
  /\ IF result = "busy" THEN NextRound
     ELSE /\ step' = (IF result = "err" THEN "fail" ELSE "idle")
          /\ lost' = (lost \/ (result = "complete" /\ (cmd # None \/ pend # {})))
          /\ UNCHANGED left

IsrDone ==
  /\ step = "done"
  /\ Finish(DoneStat)
  /\ UNCHANGED <<busVars, xferVars, ret, snap, wm, engineVars, pend, dma, dataVars, xfers>>

\* The DMA results are read, cleared and counted.
IsrDma ==
  /\ step = "dma"
  /\ dma' = {}
  /\ txRem' = IF "tx" \in dma THEN 0 ELSE txRem
  /\ rxRem' = IF "rx" \in dma THEN 0 ELSE rxRem
  /\ Finish(IF txRem' = 0 /\ rxRem' = 0 THEN "complete" ELSE stat)
  /\ UNCHANGED <<busVars, xfer, ret, snap, wm, engineVars, pend, dataVars, xfers>>

\* spi_geni_handle_err: cancel, abort, reset of the channels.  An engine
\* that does not answer is taken for one that has, as the counts of the waits
\* have wrapped, and the result is ignored anyway.
HandleErr(answers) ==
  /\ step = "fail"
  /\ step' = "idle" /\ ret' = "err"
  /\ wm' = IF xfer.dma THEN wm ELSE FALSE
  /\ IF answers
     THEN /\ cmd' = None /\ txFifo' = <<>> /\ rxFifo' = <<>> /\ last' = FALSE
          /\ pend' = IF xfer.dma THEN pend \ {d \in {"tx", "rx"} : xfer[d]} ELSE pend
          /\ lost' = (pend' # {})
     ELSE lost' = TRUE /\ UNCHANGED <<engineVars, pend>>
  /\ UNCHANGED <<busVars, xferVars, stat, snap, left, irq, dma, dataVars, xfers, masked>>
-----------------------------------------------------------------------------
\* The engine: a byte each way through the FIFOs.
Shift(dropped) ==
  /\ cmd # None /\ ~cmd.dma /\ cmd.left > 0
  /\ cmd.tx => txFifo # <<>>
  /\ dropped => cmd.rx /\ Len(rxFifo) = Depth * Width
  /\ cmd.rx /\ ~dropped => Len(rxFifo) < Depth * Width
  /\ cmd' = [cmd EXCEPT !.left = @ - 1]
  /\ IF cmd.tx THEN wire' = Append(wire, Packed(Head(txFifo))) /\ txFifo' = Tail(txFifo)
     ELSE UNCHANGED <<wire, txFifo>>
  /\ rxFifo' = IF cmd.rx /\ ~dropped
               THEN Append(rxFifo, Packed(<<cmd.k, xfer.moves - cmd.left + 1>>)) ELSE rxFifo
  /\ last' = (last \/ (cmd.rx /\ cmd.left = 1))
  /\ irq' = IF dropped THEN irq \cup {"fifo"} ELSE irq
  /\ UNCHANGED <<step, busVars, xferVars, pollVars, wm, pend, dma, buf, xfers, lost, masked>>

\* The engine with both channels: the whole transfer, perhaps with a byte lost.
DmaMove(dropped) ==
  /\ cmd.dma /\ cmd.left > 0
  /\ dropped => cmd.rx
  /\ cmd' = [cmd EXCEPT !.left = 0]
  /\ IF cmd.k = xfers
     THEN LET got == [i \in 1 .. cmd.left |-> Packed(<<xfers, i>>)]
          IN /\ wire' = IF cmd.tx THEN got ELSE wire
             /\ buf' = IF cmd.rx THEN (IF dropped THEN Tail(got) ELSE got) ELSE buf
     ELSE UNCHANGED dataVars
  /\ irq' = IF dropped THEN irq \cup {"fifo"} ELSE irq
  /\ UNCHANGED <<step, busVars, xferVars, pollVars, wm, txFifo, rxFifo, last, pend, dma, xfers,
                 lost, masked>>

DmaDone(d) ==
  /\ d \in pend /\ (cmd.dma => cmd.left = 0)
  /\ pend' = pend \ {d} /\ dma' = dma \cup {d}
  /\ UNCHANGED <<step, busVars, xferVars, pollVars, wm, engineVars, irq, dataVars, xfers, lost,
                 masked>>

CmdDone ==
  /\ cmd # None /\ cmd.left = 0
  /\ cmd' = None /\ irq' = irq \cup {"done"}
  /\ UNCHANGED <<step, busVars, xferVars, pollVars, wm, txFifo, rxFifo, last, pend, dma, dataVars,
                 xfers, lost, masked>>

Next ==
  \/ ClaimBus
  \/ \E tx, rx \in BOOLEAN, n \in Lengths : (tx \/ rx) /\ Xfer(tx, rx, n)
  \/ Poll \/ HandleRx \/ HandleTx \/ IsrDone \/ IsrDma
  \/ \E answers \in BOOLEAN : HandleErr(answers)
  \/ \E dropped \in BOOLEAN : Shift(dropped) \/ DmaMove(dropped)
  \/ \E d \in {"tx", "rx"} : DmaDone(d)
  \/ CmdDone

Spec == Init /\ [][Next]_vars
-----------------------------------------------------------------------------
Whole == [i \in 1 .. xfer.moves |-> <<xfers, i>>]

\* A transfer that succeeds has moved every byte of its words once and in
\* order, both ways; bytes that do not make a word are dropped without a sign
\* when they are sent, and when a channel receives (do_spi_xfer).  Nothing is
\* said once a command was left in the engine, by a wait that ran out, by an
\* engine that did not answer (do_spi_xfer, spi_geni_handle_err) or by DMA
\* results that came first, or bytes in the FIFO by a transfer that was not of
\* whole words; nor when a FIFO error came before the last DMA result was
\* read, which hides it (geni_spi_isr).
XferTruth ==
  step = "idle" /\ xfers > 0 /\ ret = "ok" /\ ~lost /\ ~masked =>
    /\ xfer.tx => wire = Whole
    /\ xfer.rx => buf = Whole
=============================================================================
