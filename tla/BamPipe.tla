------------------------------ MODULE BamPipe -------------------------------
(***************************************************************************)
(* One pipe of the BAM DMA engine as drivers/dma/bam_dma.c drives it: the  *)
(* life of the pipe (of_xlate, request, enable, disable, rfree), the       *)
(* transfers (send, prepare_rcv_buf, receive) that write descriptors into  *)
(* a ring shared with the engine and wait for its interrupt, and the       *)
(* engine itself, which runs concurrently with every line of the driver.   *)
(*                                                                         *)
(* Lengths are counted in descriptors (a transfer of len bytes takes       *)
(* ceil(len / max_desc_len) of them) and ring offsets in slots, where the  *)
(* event register counts bytes.                                            *)
(***************************************************************************)
EXTENDS Naturals, Sequences

CONSTANTS
  N,       \* pipe->fifo_size, the descriptors in the ring
  Bufs,    \* the buffers clients transfer from or into
  NoBuf,   \* the address in a slot nothing is known of
  Sizes,   \* the transfer lengths clients ask for, in descriptors
  Heap,    \* the lengths rx_len may hold by chance, in descriptors
  Flags    \* metadata of a transfer: "int" asks for an interrupt, "plain"
           \* does not, "bad" is a combination bam_add_one_desc refuses

ASSUME BamAssumption ==
  /\ N \in Nat /\ N > 1
  /\ NoBuf \notin Bufs
  /\ Sizes \subseteq Nat \ {0} /\ Heap \subseteq Nat
  /\ Flags \subseteq {"int", "plain", "bad"}

VARIABLES
  dir,      \* pipe->dir
  inUse,    \* pipe->in_use
  enabled,  \* pipe->enabled
  rxLen,    \* pipe->rx_len
  client,   \* what the client was granted: "none", "owner" or "ready"
  pc,       \* the driver call: "idle", "fill", "notify", "wait" or "expired"
  left,     \* descriptors of the call still to write (len)
  n,        \* descriptors of the call counted so far
  flags,    \* metadata of the call
  buf,      \* data_ptr of the call
  cur,      \* pipe->fifo.current
  mem,      \* the descriptor ring
  evnt,     \* BAM_P_EVNT_REG, the slot after the last one notified
  rd,       \* the engine's own offset, the next slot it executes
  irq,      \* BAM_P_IRQ_STTS
  hwOn,     \* P_ENABLE
  exec,     \* the descriptor the engine executed last
  pend,     \* history: descriptors notified and not yet executed
  batch,    \* history: descriptors the call has written
  fault,    \* history: the client overran the ring or passed bad flags
  abandoned \* history: a call returned before its interrupt was taken

lifeVars == <<dir, inUse, enabled, client>>
callVars == <<pc, left, n, flags, buf>>
hwVars   == <<rd, irq, hwOn, exec>>
ghosts   == <<pend, batch, fault, abandoned>>
vars     == <<lifeVars, rxLen, callVars, cur, mem, evnt, hwVars, ghosts>>

Slots == 0 .. N-1
Desc  == [buf : Bufs \cup {NoBuf}, seq : Nat, int : BOOLEAN]
NoFlags == "none"
NoDesc == [buf |-> NoBuf, seq |-> 0, int |-> FALSE]

\* A slot offset below 2N brought back into the ring.
Wrap(x) == IF x < N THEN x ELSE x - N

\* Mutant: the last slot of the ring is never used.
GetNextShort(s) == IF s >= N - 2 THEN 0 ELSE s + 1

fifo_getnext(s) == IF s = N - 1 THEN 0 ELSE s + 1
-----------------------------------------------------------------------------
\* of_xlate mallocs the pipe and leaves in_use, enabled and rx_len unset: they
\* hold whatever the heap held.
Init ==
  /\ dir \in {"SYS2BAM", "BAM2SYS"}
  /\ inUse \in BOOLEAN /\ enabled \in BOOLEAN
  /\ client = "none"
  /\ rxLen \in Heap
  /\ pc = "idle" /\ left = 0 /\ n = 0
  /\ flags = NoFlags /\ buf = NoBuf
  /\ cur = 0 /\ evnt = 0 /\ rd = 0
  /\ mem = [s \in Slots |-> NoDesc]
  /\ irq = {} /\ hwOn = FALSE /\ exec = NoDesc
  /\ pend = <<>> /\ batch = <<>> /\ fault = FALSE /\ abandoned = FALSE

\* The client gives up when told the pipe is busy.
Request ==
  /\ pc = "idle" /\ client = "none"
  /\ ~inUse
  /\ inUse' = TRUE
  /\ client' = "owner"
  /\ UNCHANGED <<dir, enabled, rxLen, callVars, cur, mem, evnt, hwVars, ghosts>>

\* rfree neither disables the pipe nor stops the engine, nor frees the ring.
Rfree ==
  /\ pc = "idle" /\ client = "owner"
  /\ inUse
  /\ inUse' = FALSE
  /\ client' = "none"
  /\ UNCHANGED <<dir, enabled, rxLen, callVars, cur, mem, evnt, hwVars, ghosts>>

\* Resets the pipe, which also drops pending descriptors and interrupts.
Enable ==
  /\ pc = "idle" /\ client = "owner"
  /\ inUse /\ ~enabled
  /\ enabled' = TRUE
  /\ client' = "ready"
  /\ cur' = 0 /\ evnt' = 0 /\ rd' = 0
  /\ irq' = {} /\ hwOn' = TRUE
  /\ pend' = <<>> /\ batch' = <<>> /\ fault' = FALSE /\ abandoned' = FALSE
  /\ UNCHANGED <<dir, inUse, rxLen, callVars, mem, exec>>

\* Only the flag is cleared: the engine goes on with what is pending.
Disable ==
  /\ pc = "idle" /\ client \in {"owner", "ready"}
  /\ inUse /\ enabled
  /\ enabled' = FALSE
  /\ client' = "owner"
  /\ UNCHANGED <<dir, inUse, rxLen, callVars, cur, mem, evnt, hwVars, ghosts>>
-----------------------------------------------------------------------------
\* Enough space in the FIFO, as send and prepare_rcv_buf check it.
HasSpace(k) == k <= N

\* Mutant: every transfer starts at the head of the ring.
BeginAtHead(k, f, b) ==
  /\ pc' = "fill"
  /\ left' = k /\ n' = 0
  /\ flags' = f /\ buf' = b
  /\ cur' = 0
  /\ UNCHANGED <<lifeVars, rxLen, mem, evnt, hwVars, ghosts>>

Begin(k, f, b) ==
  /\ pc' = IF k = 0 THEN "notify" ELSE "fill"
  /\ left' = k /\ n' = 0
  /\ flags' = f /\ buf' = b
  /\ UNCHANGED <<lifeVars, rxLen, cur, mem, evnt, hwVars, ghosts>>

Send(k, f, b) ==
  /\ pc = "idle" /\ client = "ready"
  /\ dir = "SYS2BAM" /\ inUse /\ enabled
  /\ HasSpace(k)
  /\ Begin(k, f, b)

PrepareRcvBuf(k) ==
  /\ pc = "idle" /\ client = "ready"
  /\ dir = "BAM2SYS" /\ inUse /\ enabled
  /\ HasSpace(k)
  /\ rxLen' = k
  /\ UNCHANGED <<lifeVars, callVars, cur, mem, evnt, hwVars, ghosts>>

\* The length is the one prepared last, however long ago, and is not checked:
\* if none was, the call writes as many descriptors as it says, over the whole
\* ring or none, and waits all the same.
Receive(f, b) ==
  /\ pc = "idle" /\ client = "ready"
  /\ dir = "BAM2SYS" /\ inUse /\ enabled
  /\ Begin(rxLen, f, b)

\* Mutants: the flags go on the first descriptor; the last one is missed.
DescFlagsFirst == IF n = 0 THEN flags ELSE "plain"
DescFlagsLost == IF left = 0 THEN flags ELSE "plain"

\* The flags go on the last descriptor of the transfer only.
DescFlags == IF left = 1 THEN flags ELSE "plain"
NewDesc == [buf |-> buf, seq |-> n, int |-> DescFlags = "int"]

\* The slot is one the engine has been told of and has not executed.
Overruns == Len(pend) + n >= N

WriteDesc ==
  /\ DescFlags # "bad"
  /\ mem' = [mem EXCEPT ![cur] = NewDesc]
  /\ cur' = fifo_getnext(cur)
  /\ fault' = (fault \/ Overruns)
  /\ batch' = IF fault' THEN <<>> ELSE Append(batch, NewDesc)
  /\ pend' = IF fault' THEN <<>> ELSE pend

\* The error is dropped by the caller, which counts the descriptor anyway.
RefuseDesc ==
  /\ DescFlags = "bad"
  /\ fault' = TRUE /\ batch' = <<>> /\ pend' = <<>>
  /\ UNCHANGED <<mem, cur>>

AddDesc ==
  /\ pc = "fill" /\ left > 0
  /\ WriteDesc \/ RefuseDesc
  /\ n' = n + 1 /\ left' = left - 1
  /\ pc' = IF left = 1 THEN "notify" ELSE "fill"
  /\ UNCHANGED <<lifeVars, rxLen, flags, buf, evnt, hwVars, abandoned>>

\* A ring's worth of descriptors or more is refused without a word to the
\* caller, which goes on to wait all the same.
Refused == n >= N

GenEvent ==
  /\ pc = "notify"
  /\ pc' = "wait"
  /\ evnt' = IF Refused THEN evnt ELSE Wrap(evnt + n)
  /\ fault' = (fault \/ (~Refused /\ Overruns))
  /\ pend' = IF fault' THEN <<>> ELSE IF Refused THEN pend ELSE pend \o batch
  /\ batch' = <<>>
  /\ UNCHANGED <<lifeVars, rxLen, left, n, flags, buf, cur, mem, hwVars, abandoned>>
-----------------------------------------------------------------------------
\* bam_wait_for_interrupt.  The result is ignored and the call returns 0 in
\* every case.
Return ==
  /\ pc' = "idle" /\ n' = 0 /\ flags' = NoFlags /\ buf' = NoBuf
  /\ abandoned' = (abandoned \/ pend # <<>> \/ "PRCSD" \in irq')
  /\ UNCHANGED <<lifeVars, rxLen, left, cur, mem, evnt, rd, hwOn,
                 exec, pend, batch, fault>>

\* The 2 s timer is restarted whenever some interrupt of the pipe is pending,
\* so it runs out only while none is.  An interrupt may still be raised before
\* the timer is looked at: it is read and left pending.
TimerExpires ==
  /\ pc = "wait"
  /\ irq = {}
  /\ pc' = "expired"
  /\ UNCHANGED <<lifeVars, rxLen, left, n, flags, buf, cur, mem, evnt, hwVars, ghosts>>

WaitTimeout ==
  /\ pc = "expired"
  /\ UNCHANGED irq
  /\ Return

WaitError ==
  /\ pc = "wait"
  /\ "ERR" \in irq
  /\ UNCHANGED irq
  /\ Return

WaitProcessed ==
  /\ pc = "wait"
  /\ "ERR" \notin irq /\ "PRCSD" \in irq
  /\ irq' = irq \ {"OUT_OF_DESC", "PRCSD"}
  /\ Return
-----------------------------------------------------------------------------
\* The engine: executes the next descriptor it has been told of and raises
\* PRCSD when the descriptor asks for it.
HwExecute ==
  /\ hwOn
  /\ rd # evnt
  /\ exec' = mem[rd]
  /\ rd' = fifo_getnext(rd)
  /\ irq' = IF mem[rd].int THEN irq \cup {"PRCSD"} ELSE irq
  /\ pend' = IF fault THEN <<>> ELSE Tail(pend)
  /\ UNCHANGED <<lifeVars, rxLen, callVars, cur, mem, evnt, hwOn, batch, fault,
                 abandoned>>

HwRaise(i) ==
  /\ hwOn
  /\ i = "OUT_OF_DESC" => rd = evnt
  /\ irq' = irq \cup {i}
  /\ UNCHANGED <<lifeVars, rxLen, callVars, cur, mem, evnt, rd, hwOn, exec, ghosts>>
-----------------------------------------------------------------------------
Driver == AddDesc \/ GenEvent \/ TimerExpires \/ WaitTimeout \/ WaitError \/ WaitProcessed

\* The clients: none frees a pipe it has left enabled, and none is followed
\* further once it has overrun the ring, until it enables the pipe again.
Client ==
  \/ Request
  \/ ~enabled /\ Rfree
  \/ Enable
  \/ Disable
  \/ ~fault /\ \E k \in Sizes, f \in Flags, b \in Bufs : Send(k, f, b)
  \/ \E k \in Sizes : PrepareRcvBuf(k)
  \/ ~fault /\ \E f \in Flags, b \in Bufs : Receive(f, b)

Engine == HwExecute \/ \E i \in {"OUT_OF_DESC", "ERR"} : HwRaise(i)

Next == Client \/ Driver \/ Engine

\* The driver's loops run on the one CPU; the engine is assumed alive.
Spec == Init /\ [][Next]_vars
FairSpec == Spec /\ WF_vars(Driver) /\ WF_vars(HwExecute)
-----------------------------------------------------------------------------
TypeOK ==
  /\ dir \in {"SYS2BAM", "BAM2SYS"}
  /\ inUse \in BOOLEAN /\ enabled \in BOOLEAN /\ hwOn \in BOOLEAN
  /\ client \in {"none", "owner", "ready"}
  /\ pc \in {"idle", "fill", "notify", "wait", "expired"}
  /\ rxLen \in 0 .. N \cup Heap
  /\ left \in Nat /\ n \in Nat /\ n + left \in 0 .. N \cup Heap
  /\ flags \in Flags \cup {NoFlags} /\ buf \in Bufs \cup {NoBuf}
  /\ cur \in Slots /\ evnt \in Slots /\ rd \in Slots
  /\ mem \in [Slots -> Desc]
  /\ irq \subseteq {"PRCSD", "OUT_OF_DESC", "ERR"}
  /\ exec \in Desc
  /\ pend \in Seq(Desc) /\ batch \in Seq(Desc)
  /\ fault \in BOOLEAN /\ abandoned \in BOOLEAN
  /\ pc = "fill" <=> left > 0

(***************************************************************************)
(* The driver and the engine agree on the ring.  They share no lock and    *)
(* each keeps its own offset: the driver's write pointer must stand where  *)
(* the event register and the descriptors written since say it does, after *)
(* every accepted, refused, timed out or failed call, and the slots from   *)
(* the engine's offset on must hold exactly the descriptors it has yet to  *)
(* execute, whatever was written around them.                              *)
(***************************************************************************)
InStep ==
  /\ evnt = Wrap(rd + Len(pend))
  /\ cur = Wrap(evnt + Len(batch))
  /\ pc \notin {"fill", "notify"} => batch = <<>>
  /\ pc \in {"fill", "notify"} => Len(batch) = n

RingHolds ==
  /\ Len(pend) < N /\ Len(pend) + Len(batch) <= N
  /\ \A j \in 1 .. Len(pend)  : mem[Wrap(rd + (j - 1))] = pend[j]
  /\ \A j \in 1 .. Len(batch) : mem[Wrap(evnt + (j - 1))] = batch[j]

RingAgrees == ~fault => InStep /\ RingHolds

(***************************************************************************)
(* When the wait of a transfer reports that its descriptors were processed *)
(* they were, provided no earlier transfer since the pipe was enabled was  *)
(* given up before its interrupt was taken (bam_dma_send ignores a timed-  *)
(* out wait, and the late interrupt is then taken for the next one's).     *)
(***************************************************************************)
CompletionIsTrue ==
  [][WaitProcessed /\ ~abandoned /\ ~fault => pend = <<>>]_vars

(***************************************************************************)
(* What the comment "Wait for the descriptors to be processed" in          *)
(* bam_dma_send says, with no proviso: a wait that reports the processed   *)
(* interrupt leaves no descriptor of the pipe unexecuted.                  *)
(***************************************************************************)
WaitMeansProcessed == [][WaitProcessed => pend = <<>>]_vars

(***************************************************************************)
(* A transfer that asks for an interrupt and fits beside what is pending   *)
(* returns to its caller: the wait loop restarts its own timer while an    *)
(* interrupt of another kind is latched, so only the engine can end it.    *)
(***************************************************************************)
Fits == /\ pc = "fill" /\ n = 0 /\ flags = "int"
        /\ ~fault /\ Len(pend) + left < N

CallReturns == Fits ~> pc = "idle"

(***************************************************************************)
(* The pipe is the bounded queue of BamQueue: the engine executes the      *)
(* descriptors of successive transfers in order, each once, none skipped   *)
(* or torn by the wrap of the ring.                                        *)
(***************************************************************************)
Queue == INSTANCE BamQueue
  WITH Descriptors <- Desc, Capacity <- N - 1, queue <- pend, broken <- fault

ImplementsQueue == Queue!QSpec
=============================================================================
