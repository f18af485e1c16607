-------------------------- MODULE EthernetProofs ---------------------------
(***************************************************************************)
(* Proofs about EdmaRing, for every ring size and every content of frames, *)
(* about PortLink, for every board and every set of speeds, and about      *)
(* Qca8x8x, for every set of PHYs in use and of speeds.  What is invariant *)
(* of the rings adds to the types what keeps them apart: the RXFILL        *)
(* consumer and the RXDESC producer walk together, so that slot and buffer *)
(* carry the same number, and a frame being sent has a free slot of its    *)
(* own.  What is invariant of the ports is that the driver is right in     *)
(* what it believes, and why it is where ports share a serdes; and of the  *)
(* chip, which source each generator of a clock has in each mode.          *)
(***************************************************************************)
EXTENDS MCEdmaRx, TLAPS, SequenceTheorems

BufferIsSlot ==
  /\ fill.cons = rx.prod
  /\ \A s \in Slots(RxSize) : rxdesc[s].buf \in {s, NoBuf}
  /\ got # NoBuf => got = Back(rx.cons, RxSize)

SendOwnsSlot ==
  /\ send # "none" => ~TxBusy /\ frame \in TxFrames
  /\ send = "commit" => txbuf[tx.prod] = frame

IInv == TypeOK /\ BufferIsSlot /\ SendOwnsSlot

(* Stepping to the next or previous slot stays in the ring, and the two    *)
(* undo each other.                                                        *)
LEMMA StepInRing ==
  ASSUME NEW c \in Nat, c > 1, NEW i \in Slots(c)
  PROVE  /\ Bump(i, c) \in Slots(c) /\ Back(i, c) \in Slots(c)
         /\ Back(Bump(i, c), c) = i /\ Bump(Back(i, c), c) = i
         /\ Bump(i, c) # i
BY DEF Slots, Bump, Back

(* The same of the rings of this driver.                                   *)
LEMMA RingSteps ==
  /\ \A i \in Slots(RxSize) :
       /\ Bump(i, RxSize) \in Slots(RxSize) /\ Back(i, RxSize) \in Slots(RxSize)
       /\ Back(Bump(i, RxSize), RxSize) = i /\ Bump(Back(i, RxSize), RxSize) = i
  /\ \A i \in Slots(TxSize) :
       Bump(i, TxSize) \in Slots(TxSize) /\ Back(Bump(i, TxSize), TxSize) = i
BY StepInRing, EdmaAssumption

(* Every index of every ring is a slot of it.                              *)
LEMMA RingMoves ==
  ASSUME TypeOK
  PROVE  /\ rx.prod \in Slots(RxSize) /\ rx.cons \in Slots(RxSize)
         /\ fill.prod \in Slots(RxSize) /\ fill.cons \in Slots(RxSize)
         /\ tx.prod \in Slots(TxSize) /\ tx.cons \in Slots(TxSize)
         /\ cmpl.prod \in Slots(TxSize) /\ cmpl.cons \in Slots(TxSize)
BY DEF TypeOK, Index, FillCount, RxCount

(* Initially everything holds: the rings are empty.                        *)
LEMMA InitInv == Init => IInv
<1> SUFFICES ASSUME Init PROVE IInv
  OBVIOUS
<1> USE EdmaAssumption DEF FillCount, RxCount
<1>1. 0 \in Slots(RxSize) /\ 0 \in Slots(TxSize)
  BY DEF Slots
<1>2. /\ fill \in Index(RxSize) /\ rx \in Index(RxSize)
      /\ tx \in Index(TxSize) /\ cmpl \in Index(TxSize)
  BY <1>1 DEF Init, Index
<1>3. rxdesc \in [Slots(RxSize) ->
         [buf : Slots(RxSize) \cup {NoBuf}, kind : Kinds \cup {"none"}]]
  BY DEF Init
<1>4. TypeOK
  BY <1>2, <1>3 DEF Init, TypeOK
<1>5. BufferIsSlot /\ SendOwnsSlot
  BY DEF Init, BufferIsSlot, SendOwnsSlot
<1> QED BY <1>4, <1>5 DEF IInv

(* Every step keeps the types.                                             *)
LEMMA TypeStep == IInv /\ [Next]_vars => TypeOK'
<1> SUFFICES ASSUME IInv, [Next]_vars
             PROVE  TypeOK'
  OBVIOUS
<1>0. TypeOK
  BY DEF IInv
<1> USE EdmaAssumption, <1>0
    DEF FillCount, RxCount, TypeOK, rings, memory, recvVars, sendVars, outputs
<1>1. CASE RecvPoll \/ RecvPollFill
  BY <1>1 DEF RecvPoll, RecvPollFill, RxComplete
<1>2. CASE CleanRx
  <2>1. CASE RxNone
    BY <1>2, <2>1 DEF CleanRx, RxNone
  <2>2. CASE RxTake
    <3>1. rx.cons \in Slots(RxSize) /\ Bump(rx.cons, RxSize) \in Slots(RxSize)
      BY RingSteps, RingMoves
    <3>2. rx' \in Index(RxSize)
      BY <2>2, <3>1 DEF RxTake, Index
    <3>3. got' \in Slots(RxSize) \cup {NoBuf} /\ len' = TRUE /\ pc = "clean_rx"
      BY <2>2, <3>1 DEF RxTake
    <3> QED BY <1>2, <3>2, <3>3 DEF CleanRx
  <2>3. CASE RxBad
    <3>1. len' \in BOOLEAN /\ got' = got /\ got = NoBuf /\ rx' = rx /\ pc = "clean_rx"
      BY <1>2, <2>3 DEF CleanRx, RxBad
    <3> QED BY <1>2, <3>1 DEF CleanRx
  <2> QED BY <1>2, <2>1, <2>2, <2>3 DEF CleanRx
<1>3. CASE CleanTxRead
  <2>1. snap' \in Slots(TxSize)
    BY <1>3, RingMoves DEF CleanTxRead
  <2> QED BY <1>3, <2>1 DEF CleanTxRead
<1>4. CASE CleanTxWrite
  <2>1. cmpl' \in Index(TxSize)
    BY <1>4, RingMoves DEF CleanTxWrite, Index
  <2> QED BY <1>4, <2>1 DEF CleanTxWrite
<1>5. CASE AllocRead
  <2>1. snap' \in Slots(RxSize)
    BY <1>5, RingMoves DEF AllocRead
  <2> QED BY <1>5, <2>1 DEF AllocRead
<1>6. CASE AllocWrite
  <2>1. fill' \in Index(RxSize)
    BY <1>6, RingSteps, RingMoves DEF Index, AllocWrite, PostUpTo
  <2> QED BY <1>6, <2>1 DEF AllocWrite
<1>7. CASE Process
  <2>1. upper' \in RxFrames \cup {NoFrame}
    BY <1>7 DEF Process
  <2> QED BY <1>7, <2>1 DEF Process
<1>8. CASE \E f \in TxFrames : SendStart(f)
  BY <1>8 DEF SendStart
<1>9. CASE SendCopy
  <2>1. txbuf' \in [Slots(TxSize) -> TxFrames \cup {NoFrame}]
    BY <1>9 DEF SendCopy
  <2> QED BY <1>9, <2>1 DEF SendCopy
<1>10. CASE SendCommit
  <2>1. tx' \in Index(TxSize)
    BY <1>10, RingSteps, RingMoves DEF Index, SendCommit
  <2> QED BY <1>10, <2>1 DEF SendCommit
<1>11. CASE HwTransmit
  <2>1. tx' \in Index(TxSize) /\ cmpl' \in Index(TxSize)
    BY <1>11, RingSteps, RingMoves DEF Index, HwTransmit
  <2>2. wire' \in TxFrames \cup {NoFrame}
    BY <1>11, RingMoves DEF HwTransmit
  <2> QED BY <1>11, <2>1, <2>2 DEF HwTransmit
<1>12. CASE \E f \in RxFrames, k \in Kinds : HwReceive(f, k)
  <2> PICK f \in RxFrames, k \in Kinds : HwReceive(f, k)
    BY <1>12
  <2>1. fill' \in Index(RxSize) /\ rx' \in Index(RxSize)
    BY RingSteps, RingMoves DEF Index, HwReceive
  <2>2. fill.cons \in Slots(RxSize)
    BY RingMoves
  <2>3. rxbuf' \in [Slots(RxSize) -> RxFrames \cup {NoFrame}]
    BY DEF HwReceive
  <2>4. rxdesc' \in [Slots(RxSize) ->
           [buf : Slots(RxSize) \cup {NoBuf}, kind : Kinds \cup {"none"}]]
    BY <2>2 DEF HwReceive
  <2> QED BY <2>1, <2>3, <2>4 DEF HwReceive
<1>13. CASE UNCHANGED vars
  BY <1>13 DEF vars
<1> QED BY <1>1, <1>2, <1>3, <1>4, <1>5, <1>6, <1>7, <1>8, <1>9, <1>10, <1>11,
           <1>12, <1>13 DEF Next, RecvBody, SendBody

(* Every step keeps slot and buffer together.                              *)
LEMMA BufferStep == IInv /\ [Next]_vars => BufferIsSlot'
<1> SUFFICES ASSUME IInv, [Next]_vars
             PROVE  BufferIsSlot'
  OBVIOUS
<1>0. TypeOK /\ BufferIsSlot
  BY DEF IInv
<1> USE EdmaAssumption DEF FillCount, RxCount
<1>1. rx \in Index(RxSize) /\ fill \in Index(RxSize) /\ tx \in Index(TxSize)
  BY <1>0 DEF TypeOK
<1>2. ASSUME fill'.cons = fill.cons, rx' = rx, rxdesc' = rxdesc, got' \in {got, NoBuf}
      PROVE  BufferIsSlot'
  BY <1>0, <1>2 DEF BufferIsSlot
<1>3. CASE RecvPoll \/ RecvPollFill \/ CleanTxRead \/ CleanTxWrite \/ AllocRead
           \/ Process \/ (\E f \in TxFrames : SendStart(f)) \/ SendCopy \/ SendCommit
           \/ HwTransmit \/ UNCHANGED vars
  <2>1. fill' = fill /\ rx' = rx /\ rxdesc' = rxdesc /\ got' \in {got, NoBuf}
    BY <1>3 DEF RecvPoll, RecvPollFill, RxComplete, CleanTxRead, CleanTxWrite, AllocRead,
       Process, SendStart, SendCopy, SendCommit, HwTransmit, vars, rings, memory, recvVars
  <2> QED BY <2>1, <1>2
<1>4. CASE CleanRx
  <2>1. CASE RxNone \/ RxBad
    BY <1>4, <2>1, <1>2 DEF CleanRx, RxNone, RxBad, memory
  <2>2. CASE RxTake
    <3>1. /\ rx.cons \in Slots(RxSize) /\ rx'.prod = rx.prod
          /\ rx'.cons = Bump(rx.cons, RxSize)
      BY <2>2, <1>1, RingSteps, RingMoves DEF Index, RxTake
    <3>2. got' \in {rx.cons, NoBuf}
      BY <2>2, <3>1, <1>0 DEF RxTake, BufferIsSlot
    <3>3. got' # NoBuf => got' = Back(rx'.cons, RxSize)
      BY <3>1, <3>2, <1>1, <1>0, RingSteps, RingMoves
    <3>4. fill' = fill /\ rxdesc' = rxdesc
      BY <1>4 DEF CleanRx, memory
    <3> QED BY <3>1, <3>3, <3>4, <1>0 DEF BufferIsSlot
  <2> QED BY <1>4, <2>1, <2>2 DEF CleanRx
<1>5. CASE AllocWrite
  <2>1. fill'.cons = fill.cons
    BY <1>5, <1>1 DEF AllocWrite, Index
  <2> QED BY <2>1, <1>5, <1>2 DEF AllocWrite, memory
<1>6. CASE \E f \in RxFrames, k \in Kinds : HwReceive(f, k)
  <2> PICK f \in RxFrames, k \in Kinds : HwReceive(f, k)
    BY <1>6
  <2>1. /\ fill'.cons = Bump(fill.cons, RxSize) /\ rx'.prod = Bump(rx.prod, RxSize)
        /\ rx'.cons = rx.cons /\ got' = got
    BY <1>1, RingSteps, RingMoves DEF Index, HwReceive, recvVars
  <2>2. ASSUME NEW s \in Slots(RxSize) PROVE rxdesc'[s].buf \in {s, NoBuf}
    <3>1. rxdesc' = [rxdesc EXCEPT ![rx.prod] = [buf |-> fill.cons, kind |-> k]]
      BY DEF HwReceive
    <3>2. rxdesc'[s] = IF s = rx.prod THEN [buf |-> fill.cons, kind |-> k] ELSE rxdesc[s]
      BY <3>1, <1>0 DEF TypeOK
    <3> QED BY <3>2, <1>0 DEF BufferIsSlot
  <2> QED BY <2>1, <2>2, <1>0 DEF BufferIsSlot
<1> QED BY <1>3, <1>4, <1>5, <1>6 DEF Next, RecvBody, SendBody

(* Every step leaves a frame being sent its slot.                          *)
LEMMA SendStep == IInv /\ [Next]_vars => SendOwnsSlot'
<1> SUFFICES ASSUME IInv, [Next]_vars
             PROVE  SendOwnsSlot'
  OBVIOUS
<1>0. TypeOK /\ SendOwnsSlot
  BY DEF IInv
<1> USE EdmaAssumption
<1>1. tx \in Index(TxSize)
  BY <1>0 DEF TypeOK
<1>2. CASE UNCHANGED <<tx, txbuf, send, frame>>
  BY <1>0, <1>2 DEF SendOwnsSlot, TxBusy
<1>3. CASE RecvPoll \/ RecvPollFill \/ CleanRx \/ CleanTxRead \/ CleanTxWrite \/ AllocRead
           \/ AllocWrite \/ Process \/ (\E f \in RxFrames, k \in Kinds : HwReceive(f, k))
           \/ UNCHANGED vars
  BY <1>3, <1>2 DEF RecvPoll, RecvPollFill, RxComplete, CleanRx, CleanTxRead, CleanTxWrite,
     AllocRead, AllocWrite, Process, HwReceive, vars, rings, memory, sendVars
<1>4. CASE \E f \in TxFrames : SendStart(f)
  BY <1>4 DEF SendStart, SendOwnsSlot, TxBusy, rings
<1>5. CASE SendCopy
  <2>1. tx.prod \in Slots(TxSize) /\ txbuf \in [Slots(TxSize) -> TxFrames \cup {NoFrame}]
    BY <1>0, RingMoves DEF TypeOK
  <2> QED BY <1>5, <1>0, <2>1 DEF SendCopy, SendOwnsSlot, TxBusy, rings
<1>6. CASE SendCommit
  BY <1>6 DEF SendCommit, SendOwnsSlot
<1>7. CASE HwTransmit
  <2>1. tx.prod \in Slots(TxSize) /\ tx.cons \in Slots(TxSize)
        /\ tx'.cons = Bump(tx.cons, TxSize) /\ tx'.prod = tx.prod
    BY <1>7, <1>1, RingSteps, RingMoves DEF Index, HwTransmit
  <2>2. tx.cons # tx.prod
    BY <1>7 DEF HwTransmit, Empty
  <2>3. Bump(tx.prod, TxSize) # Bump(tx.cons, TxSize)
    BY <2>1, <2>2, RingSteps
  <2>4. ~TxBusy'
    BY <2>1, <2>3 DEF TxBusy
  <2> QED BY <1>7, <1>0, <2>1, <2>4 DEF HwTransmit, SendOwnsSlot, memory, sendVars
<1> QED BY <1>3, <1>4, <1>5, <1>6, <1>7 DEF Next, RecvBody, SendBody

(* The inductive invariant holds in every reachable state.                  *)
LEMMA RingStep == IInv /\ [Next]_vars => IInv'
BY TypeStep, BufferStep, SendStep DEF IInv

LEMMA Invariance == Spec => []IInv
BY InitInv, RingStep, PTL DEF Spec

(* Every variable has its type in every reachable state.                   *)
THEOREM TypeCorrect == Spec => []TypeOK
BY Invariance, PTL DEF IInv

LEMMA BufferFree == IInv => NextBufferIsFree
<1> SUFFICES ASSUME IInv, HwCanReceive
             PROVE  /\ fill.cons # got
                    /\ \A j \in 0 .. Pending(rx, RxCount) - 1 : fill.cons # Unread(j).buf
  BY DEF NextBufferIsFree
<1> USE EdmaAssumption DEF FillCount, RxCount
<1>1. /\ rx \in Index(RxSize) /\ rx.prod \in Slots(RxSize) /\ rx.cons \in Slots(RxSize)
      /\ fill.cons = rx.prod /\ Bump(rx.prod, RxSize) # rx.cons
  BY RingMoves DEF IInv, TypeOK, BufferIsSlot, HwCanReceive
<1>2. fill.cons # got
  <2>1. got # NoBuf => got = Back(rx.cons, RxSize)
    BY DEF IInv, BufferIsSlot
  <2>2. Bump(Back(rx.cons, RxSize), RxSize) = rx.cons
    BY <1>1, RingSteps
  <2>3. rx.prod # NoBuf
    BY <1>1 DEF Slots
  <2> QED BY <1>1, <2>1, <2>2, <2>3
<1>3. ASSUME NEW j \in 0 .. Pending(rx, RxCount) - 1
      PROVE  fill.cons # Unread(j).buf
  <2>1. At(rx.cons + j, RxSize) \in Slots(RxSize) /\ At(rx.cons + j, RxSize) # rx.prod
    BY <1>1, <1>3 DEF Pending, At, Slots
  <2>2. Unread(j).buf \in {At(rx.cons + j, RxSize), NoBuf}
    BY <2>1 DEF Unread, IInv, BufferIsSlot
  <2>3. rx.prod # NoBuf
    BY <1>1 DEF Slots
  <2> QED BY <1>1, <2>1, <2>2, <2>3
<1> QED BY <1>2, <1>3

(* The buffer the engine fills next is neither in the stack's hands nor    *)
(* behind an unread descriptor, although ipq_edma_alloc_rx_buffer posts    *)
(* buffers without regard to either.                                       *)
THEOREM BuffersSafe == Spec => []NextBufferIsFree
BY Invariance, BufferFree, PTL

(* The queue read out of a ring is a sequence as long as the ring is full, *)
(* of what is in its slots.                                                *)
LEMMA RingQueue ==
  ASSUME NEW c \in Nat, c > 1, NEW r \in Index(c), NEW S, NEW b \in [Slots(c) -> S]
  PROVE  /\ Pending(r, c) \in Nat
         /\ QueueOf(r, b, c) \in Seq(S)
         /\ Len(QueueOf(r, b, c)) = Pending(r, c)
         /\ \A j \in 1 .. Pending(r, c) : QueueOf(r, b, c)[j] = b[At(r.cons + (j-1), c)]
<1>1. r.prod \in Slots(c) /\ r.cons \in Slots(c)
  BY DEF Index
<1>2. Pending(r, c) \in Nat /\ Pending(r, c) < c
  BY <1>1 DEF Pending, Slots
<1>3. \A j \in 1 .. Pending(r, c) : b[At(r.cons + (j-1), c)] \in S
  <2> TAKE j \in 1 .. Pending(r, c)
  <2>1. At(r.cons + (j-1), c) \in Slots(c)
    BY <1>1, <1>2 DEF At, Slots
  <2> QED BY <2>1
<1>4. QueueOf(r, b, c) \in [1 .. Pending(r, c) -> S]
  BY <1>3 DEF QueueOf
<1>5. QueueOf(r, b, c) \in Seq(S) /\ Len(QueueOf(r, b, c)) = Pending(r, c)
  BY <1>2, <1>4
<1> QED BY <1>2, <1>5 DEF QueueOf

Puts(b, d, slot, f) == d = [b EXCEPT ![slot] = f]

(* A slot filled at the producer is one more at the end of the queue.      *)
LEMMA RingPut ==
  ASSUME NEW c \in Nat, c > 1, NEW r \in Index(c), NEW t \in Index(c),
         NEW S, NEW b \in [Slots(c) -> S], NEW d, NEW f \in S, Puts(b, d, r.prod, f),
         t.cons = r.cons, t.prod = Bump(r.prod, c), t.prod # r.cons
  PROVE  QueueOf(t, d, c) = Append(QueueOf(r, b, c), f) /\ Len(QueueOf(r, b, c)) < c - 1
<1> DEFINE Q == QueueOf(r, b, c)
           R == QueueOf(t, d, c)
           n == Pending(r, c)
<1>1. r.prod \in Slots(c) /\ r.cons \in Slots(c)
  BY DEF Index
<1>2. /\ Q \in Seq(S) /\ Len(Q) = n /\ n \in Nat
      /\ \A j \in 1 .. n : Q[j] = b[At(r.cons + (j-1), c)]
  BY RingQueue
<1>3. d \in [Slots(c) -> S]
  BY DEF Puts
<1>4. /\ R \in Seq(S) /\ Len(R) = Pending(t, c)
      /\ \A j \in 1 .. Pending(t, c) : R[j] = d[At(t.cons + (j-1), c)]
  BY <1>3, RingQueue, Zenon
<1> HIDE DEF Q, R
<1>5. Pending(t, c) = n + 1 /\ n < c - 1 /\ At(r.cons + n, c) = r.prod
  <2>1. PICK a \in 0 .. c-1, k \in 0 .. c-1 : a = r.prod /\ k = r.cons
    BY <1>1 DEF Slots
  <2>2. t.prod = Bump(a, c) /\ t.cons = k /\ t.prod # k
    BY <2>1
  <2>3. n = (IF a >= k THEN a - k ELSE a + c - k) /\ t.prod = (IF a = c - 1 THEN 0 ELSE a + 1)
    BY <2>1, <2>2 DEF Pending, Bump
  <2>4. Pending(t, c) = IF t.prod >= k THEN t.prod - k ELSE t.prod + c - k
    BY <2>2 DEF Pending
  <2> HIDE DEF n
  <2>5. CASE a = c - 1
    BY ONLY <2>1, <2>2, <2>3, <2>4, <2>5, c \in Nat, c > 1 DEF At
  <2>6. CASE a # c - 1
    BY ONLY <2>1, <2>2, <2>3, <2>4, <2>6, c \in Nat, c > 1 DEF At
  <2> QED  BY <2>5, <2>6
<1>6. \A j \in 1 .. n : At(r.cons + (j-1), c) \in Slots(c) /\ At(r.cons + (j-1), c) # r.prod
  <2>1. PICK a \in 0 .. c-1, k \in 0 .. c-1 : a = r.prod /\ k = r.cons
    BY <1>1 DEF Slots
  <2>2. n = IF a >= k THEN a - k ELSE a + c - k
    BY <2>1 DEF Pending
  <2> HIDE DEF n
  <2>3. ASSUME NEW j \in 1 .. n
        PROVE  At(k + (j-1), c) \in 0 .. c-1 /\ At(k + (j-1), c) # a
    BY <1>2, <2>2 DEF At
  <2> QED  BY ONLY <2>1, <2>3 DEF Slots
<1> HIDE DEF n
<1>7. \A j \in 1 .. n + 1 : R[j] = d[At(r.cons + (j-1), c)]
  BY <1>4, <1>5
<1>8. d[r.prod] = f /\ \A s \in Slots(c) : s # r.prod => d[s] = b[s]
  BY <1>1 DEF Puts
<1>9. /\ Append(Q, f) \in Seq(S) /\ Len(Append(Q, f)) = n + 1
      /\ \A j \in 1 .. n : Append(Q, f)[j] = Q[j]
      /\ Append(Q, f)[n + 1] = f
  BY <1>2
<1>10. ASSUME NEW j \in 1 .. n + 1
       PROVE  R[j] = Append(Q, f)[j]
  <2>1. CASE j = n + 1
    BY <1>2, <1>5, <1>7, <1>8, <1>9, <2>1
  <2>2. CASE j # n + 1
    <3>1. j \in 1 .. n
      BY <1>2, <2>2
    <3>2. R[j] = b[At(r.cons + (j-1), c)]
      BY <1>6, <1>7, <1>8, <3>1
    <3> QED  BY <1>2, <1>9, <3>1, <3>2
  <2> QED  BY <2>1, <2>2
<1>11. R = Append(Q, f)
  BY <1>4, <1>5, <1>9, <1>10, SeqEqual
<1> QED  BY <1>2, <1>5, <1>11 DEF Q, R

(* A slot passed by the consumer was the head of the queue.                *)
LEMMA RingGet ==
  ASSUME NEW c \in Nat, c > 1, NEW r \in Index(c), NEW t \in Index(c),
         NEW S, NEW b \in [Slots(c) -> S],
         r.prod # r.cons, t.prod = r.prod, t.cons = Bump(r.cons, c)
  PROVE  /\ QueueOf(r, b, c) \in Seq(S) /\ QueueOf(r, b, c) # <<>>
         /\ Head(QueueOf(r, b, c)) = b[r.cons] /\ QueueOf(t, b, c) = Tail(QueueOf(r, b, c))
<1> DEFINE Q == QueueOf(r, b, c)
           R == QueueOf(t, b, c)
           n == Pending(t, c)
<1>1. r.prod \in Slots(c) /\ r.cons \in Slots(c)
  BY DEF Index
<1>2. /\ Q \in Seq(S) /\ Len(Q) = Pending(r, c)
      /\ \A j \in 1 .. Pending(r, c) : Q[j] = b[At(r.cons + (j-1), c)]
  BY RingQueue
<1>3. /\ R \in Seq(S) /\ Len(R) = n /\ n \in Nat
      /\ \A j \in 1 .. n : R[j] = b[At(t.cons + (j-1), c)]
  BY RingQueue
<1> HIDE DEF Q, R
<1>4. Pending(r, c) = n + 1 /\ n < c - 1 /\ At(r.cons + (1-1), c) = r.cons
  <2>1. PICK a \in 0 .. c-1, k \in 0 .. c-1 : a = r.prod /\ k = r.cons
    BY <1>1 DEF Slots
  <2>2. /\ Pending(r, c) = (IF a >= k THEN a - k ELSE a + c - k)
        /\ t.cons = (IF k = c - 1 THEN 0 ELSE k + 1)
    BY <2>1 DEF Pending, Bump
  <2>3. n = IF a >= t.cons THEN a - t.cons ELSE a + c - t.cons
    BY <2>1 DEF Pending
  <2> HIDE DEF n
  <2> QED  BY <2>1, <2>2, <2>3 DEF At
<1>5. Q # <<>> /\ Q[1] = b[r.cons]
  BY <1>2, <1>3, <1>4
<1>6. /\ Tail(Q) \in Seq(S) /\ Len(Tail(Q)) = n
      /\ \A j \in 1 .. n : Tail(Q)[j] = Q[j + 1]
  BY <1>2, <1>3, <1>4, <1>5, HeadTailProperties
<1>7. ASSUME NEW j \in 1 .. n
      PROVE  R[j] = Tail(Q)[j]
  <2>1. At(t.cons + (j-1), c) = At(r.cons + ((j+1)-1), c)
    BY <1>1, <1>3, <1>4, <1>7 DEF At, Bump, Slots
  <2>2. j + 1 \in 1 .. Pending(r, c)
    BY <1>3, <1>4
  <2> QED  BY <1>2, <1>3, <1>6, <2>1, <2>2
<1>8. R = Tail(Q)
  BY <1>3, <1>6, <1>7, SeqEqual
<1> QED  BY <1>2, <1>5, <1>8 DEF Q, R

(* Committing a frame appends it to the queue.                             *)
LEMMA CommitPuts ==
  ASSUME IInv, TypeOK', SendCommit
  PROVE  TxChannel!Put(frame) /\ frame \in TxFrames
<1> DEFINE S == TxFrames \cup {NoFrame}
<1>1. /\ TxSize \in Nat /\ TxSize > 1 /\ tx \in Index(TxSize) /\ tx' \in Index(TxSize)
      /\ txbuf \in [Slots(TxSize) -> S] /\ frame \in TxFrames /\ frame \in S
  BY EdmaAssumption DEF IInv, TypeOK, SendCommit, SendOwnsSlot
<1>2. /\ tx'.cons = tx.cons /\ tx'.prod = Bump(tx.prod, TxSize) /\ txbuf' = txbuf
      /\ tx'.prod # tx.cons /\ txbuf[tx.prod] = frame
  BY DEF SendCommit, memory, IInv, TypeOK, Index, SendOwnsSlot, TxBusy
<1> HIDE DEF S
<1>3. /\ QueueOf(tx', txbuf, TxSize) = Append(QueueOf(tx, txbuf, TxSize), frame)
      /\ Len(QueueOf(tx, txbuf, TxSize)) < TxSize - 1
  <2>1. Puts(txbuf, txbuf, tx.prod, frame)
    BY <1>1, <1>2 DEF Puts
  <2>2. /\ TxSize \in Nat /\ TxSize > 1 /\ tx \in Index(TxSize) /\ tx' \in Index(TxSize)
        /\ txbuf \in [Slots(TxSize) -> S] /\ frame \in S
        /\ tx'.cons = tx.cons /\ tx'.prod = Bump(tx.prod, TxSize) /\ tx'.prod # tx.cons
    BY <1>1, <1>2
  <2> QED  BY ONLY <2>1, <2>2, RingPut, Zenon
<1>4. TxQueue' = Append(TxQueue, frame) /\ Len(TxQueue) < TxSize - 1
  BY <1>2, <1>3 DEF TxQueue
<1> QED  BY <1>1, <1>4 DEF TxChannel!Put, SendCommit, outputs

(* Sending takes the head of the queue.                                    *)
LEMMA TransmitGets ==
  ASSUME IInv, TypeOK', HwTransmit
  PROVE  TxChannel!Get
<1>1. /\ TxSize \in Nat /\ TxSize > 1 /\ tx \in Index(TxSize) /\ tx' \in Index(TxSize)
      /\ txbuf \in [Slots(TxSize) -> TxFrames \cup {NoFrame}]
  BY EdmaAssumption DEF IInv, TypeOK
<1>2. /\ tx.prod # tx.cons /\ tx'.prod = tx.prod /\ tx'.cons = Bump(tx.cons, TxSize)
      /\ txbuf' = txbuf /\ wire' = txbuf[tx.cons]
  BY DEF HwTransmit, memory, IInv, TypeOK, Index, Empty
<1>3. TxQueue # <<>> /\ Head(TxQueue) = txbuf[tx.cons] /\ TxQueue' = Tail(TxQueue)
  BY <1>1, <1>2, RingGet DEF TxQueue
<1> QED  BY <1>2, <1>3 DEF TxChannel!Get

(* Every step of the driver and the engine is a step of the channel, or    *)
(* leaves it alone.                                                        *)
LEMMA ChannelStep == IInv /\ IInv' /\ [Next]_vars => [TxChannel!CNext]_(TxChannel!cvars)
<1> SUFFICES ASSUME IInv, IInv', [Next]_vars
             PROVE  TxChannel!CNext \/ UNCHANGED TxChannel!cvars
  OBVIOUS
<1>1. CASE UNCHANGED <<tx, txbuf, wire>>
  BY <1>1 DEF TxChannel!cvars, TxQueue, QueueOf
<1>2. CASE RecvPoll \/ RecvPollFill \/ CleanRx \/ CleanTxRead \/ CleanTxWrite \/ AllocRead
           \/ AllocWrite \/ Process \/ (\E f \in RxFrames, k \in Kinds : HwReceive(f, k))
           \/ (\E f \in TxFrames : SendStart(f)) \/ UNCHANGED vars
  BY <1>2, <1>1 DEF RecvPoll, RecvPollFill, RxComplete, CleanRx, CleanTxRead, CleanTxWrite,
     AllocRead, AllocWrite, Process, HwReceive, SendStart, vars, rings, memory, outputs
<1>3. CASE SendCopy
  <2>1. tx' = tx /\ wire' = wire /\ txbuf' = [txbuf EXCEPT ![tx.prod] = frame]
    BY <1>3 DEF SendCopy, rings, outputs
  <2>2. /\ Pending(tx, TxSize) \in Nat
        /\ tx.prod \in Slots(TxSize) /\ tx.cons \in Slots(TxSize)
    BY RingMoves, EdmaAssumption DEF IInv, Pending, Slots
  <2>3. ASSUME NEW j \in 1 .. Pending(tx, TxSize)
        PROVE  txbuf'[At(tx.cons + (j-1), TxSize)] = txbuf[At(tx.cons + (j-1), TxSize)]
    <3>1. At(tx.cons + (j-1), TxSize) # tx.prod /\ At(tx.cons + (j-1), TxSize) \in Slots(TxSize)
      BY <2>2, EdmaAssumption DEF At, Slots, Pending
    <3>2. txbuf \in [Slots(TxSize) -> TxFrames \cup {NoFrame}]
      BY DEF IInv, TypeOK
    <3> QED BY <2>1, <3>1, <3>2
  <2>4. TxQueue' = TxQueue
    BY <2>1, <2>3 DEF TxQueue, QueueOf
  <2> QED BY <2>1, <2>4 DEF TxChannel!cvars
<1>4. CASE SendCommit
  BY <1>4, CommitPuts DEF TxChannel!CNext, IInv
<1>5. CASE HwTransmit
  BY <1>5, TransmitGets DEF TxChannel!CNext, IInv
<1> QED BY <1>2, <1>3, <1>4, <1>5 DEF Next, RecvBody, SendBody

(* The frames ipq_eth_send accepts are sent unaltered, in order and once,  *)
(* whatever the engine does between the driver's register accesses.        *)
THEOREM SendChannel == Spec => SendsInOrder
<1>1. Init => TxChannel!CInit
  BY DEF Init, TxChannel!CInit, TxQueue, QueueOf, Pending
<1> QED BY <1>1, Invariance, ChannelStep, PTL DEF Spec, SendsInOrder, TxChannel!CSpec

(* What one frame in front of the others makes of a queue.                 *)
LEMMA InFrontOf ==
  ASSUME NEW S, NEW q \in Seq(S), NEW x \in S, NEW f \in S
  PROVE  /\ <<x>> \o q \in Seq(S) /\ Len(<<x>> \o q) = Len(q) + 1 /\ <<x>> \o q # <<>>
         /\ Head(<<x>> \o q) = x /\ Tail(<<x>> \o q) = q
         /\ <<x>> \o Append(q, f) = Append(<<x>> \o q, f)
<1>1. <<x>> \in Seq(S) /\ Len(<<x>>) = 1 /\ <<x>>[1] = x
  OBVIOUS
<1> DEFINE o == <<x>>
           w == o \o q
           v == o \o Append(q, f)
<1> HIDE DEF o
<1>2. o \in Seq(S) /\ Len(o) = 1 /\ o[1] = x
  BY <1>1 DEF o
<1>3. /\ w \in Seq(S) /\ Len(w) = 1 + Len(q) /\ Len(q) \in Nat
      /\ \A j \in 1 .. 1 + Len(q) : w[j] = IF j <= 1 THEN o[j] ELSE q[j - 1]
  <2>1. /\ w \in Seq(S) /\ Len(w) = Len(o) + Len(q)
        /\ \A j \in 1 .. Len(o) + Len(q) : w[j] = IF j <= Len(o) THEN o[j] ELSE q[j - Len(o)]
    BY <1>2, ConcatProperties, Zenon
  <2> HIDE DEF w
  <2> QED  BY <1>2, <2>1
<1>4. /\ Append(q, f) \in Seq(S) /\ Len(Append(q, f)) = Len(q) + 1
      /\ \A j \in 1 .. Len(q) : Append(q, f)[j] = q[j]
      /\ Append(q, f)[Len(q) + 1] = f
  OBVIOUS
<1>5. /\ v \in Seq(S) /\ Len(v) = 1 + (Len(q) + 1)
      /\ \A j \in 1 .. 1 + (Len(q) + 1) : v[j] = IF j <= 1 THEN o[j] ELSE Append(q, f)[j - 1]
  <2> DEFINE a == Append(q, f)
  <2> HIDE DEF a
  <2>1. a \in Seq(S) /\ Len(a) = Len(q) + 1 /\ Len(q) \in Nat
    BY <1>3, <1>4 DEF a
  <2>2. /\ o \o a \in Seq(S) /\ Len(o \o a) = Len(o) + Len(a)
        /\ \A j \in 1 .. Len(o) + Len(a) : (o \o a)[j] = IF j <= Len(o) THEN o[j] ELSE a[j - Len(o)]
    BY <1>2, <2>1, ConcatProperties, Zenon
  <2>3. v = o \o a
    BY DEF a
  <2> HIDE DEF v
  <2>4. /\ v \in Seq(S) /\ Len(v) = Len(o) + Len(a)
        /\ \A j \in 1 .. Len(o) + Len(a) : v[j] = IF j <= Len(o) THEN o[j] ELSE a[j - Len(o)]
    BY ONLY <2>2, <2>3
  <2>5. /\ Len(v) = 1 + (Len(q) + 1)
        /\ \A j \in 1 .. 1 + (Len(q) + 1) : v[j] = IF j <= 1 THEN o[j] ELSE a[j - 1]
    BY ONLY <1>2, <2>1, <2>4
  <2> QED  BY <2>4, <2>5 DEF a
<1> HIDE DEF w, v
<1>6. w # <<>> /\ Head(w) = x
  BY <1>2, <1>3
<1>7. Tail(w) = q
  <2>1. /\ Tail(w) \in Seq(S) /\ Len(Tail(w)) = Len(q)
        /\ \A j \in 1 .. Len(q) : Tail(w)[j] = w[j + 1]
    BY <1>3, <1>6, HeadTailProperties
  <2>2. \A j \in 1 .. Len(q) : w[j + 1] = q[j]
    BY <1>3
  <2> QED  BY <2>1, <2>2, SeqEqual
<1>8. v = Append(w, f)
  <2>1. /\ Append(w, f) \in Seq(S) /\ Len(Append(w, f)) = Len(q) + 2
        /\ \A j \in 1 .. Len(q) + 1 : Append(w, f)[j] = w[j]
        /\ Append(w, f)[Len(q) + 2] = f
    BY <1>3
  <2>2. ASSUME NEW j \in 1 .. Len(q) + 2 PROVE v[j] = Append(w, f)[j]
    <3>1. CASE j = Len(q) + 2
      BY <1>3, <1>4, <1>5, <2>1, <3>1
    <3>2. CASE j # Len(q) + 2
      <4>1. j \in 1 .. Len(q) + 1
        BY <1>3, <3>2
      <4> QED  BY <1>3, <1>4, <1>5, <2>1, <4>1
    <3> QED  BY <3>1, <3>2
  <2> QED  BY <1>3, <1>5, <2>1, <2>2, SeqEqual
<1> QED  BY <1>3, <1>6, <1>7, <1>8 DEF w, v, o

(* The frame in front comes out first and leaves the others.               *)
LEMMA InFront ==
  ASSUME NEW S, NEW q \in Seq(S), NEW x \in S
  PROVE  <<x>> \o q # <<>> /\ Head(<<x>> \o q) = x /\ Tail(<<x>> \o q) = q
BY InFrontOf, ZenonT(30)

(* A frame appended behind the others is behind the one in front.          *)
LEMMA AppendBehind ==
  ASSUME NEW S, NEW q \in Seq(S), NEW x \in S, NEW f \in S
  PROVE  <<x>> \o Append(q, f) = Append(<<x>> \o q, f) /\ Len(<<x>> \o q) = Len(q) + 1
BY InFrontOf, ZenonT(30)

(* A queue is its head in front of the rest.                               *)
LEMMA HeadInFront ==
  ASSUME NEW S, NEW q \in Seq(S), q # <<>>
  PROVE  <<Head(q)>> \o Tail(q) = q
<1>1. Len(q) \in Nat \ {0} /\ 1 \in 1 .. Len(q) /\ Len(q) \in 1 .. Len(q) /\ Head(q) = q[1]
  BY EmptySeq
<1>2. SubSeq(q, 1, Len(q)) = <<q[1]>> \o SubSeq(q, 1 + 1, Len(q))
  BY <1>1, SubSeqRecursiveFirst
<1>3. SubSeq(q, 1, Len(q)) = q /\ SubSeq(q, 2, Len(q)) = Tail(q)
  BY SubSeqFull, TailIsSubSeq
<1> QED  BY <1>1, <1>2, <1>3

\* A descriptor that was written names its own slot's buffer, and a length
\* that ipq_eth_recv returns has its buffer, unless the source was a port out
\* of range.
Named == \A s \in Slots(RxSize) : rxdesc[s].kind # "none" => rxdesc[s].buf = s
Told == "range" \notin Kinds /\ len => got # NoBuf

(* At first no descriptor is written and no length returned.               *)
LEMMA NamedStart == Init => Named /\ Told
BY DEF Init, Named, Told, RxCount

(* A step keeps descriptors to their own slot's buffer, and lengths to     *)
(* their buffer.                                                           *)
LEMMA NamedStep == IInv /\ Named /\ Told /\ [Next]_vars => Named' /\ Told'
<1> SUFFICES ASSUME IInv, Named, Told, [Next]_vars PROVE Named' /\ Told'
  OBVIOUS
<1>1. CASE UNCHANGED <<rxdesc, len, got>>
  BY <1>1 DEF Named, Told
<1>2. CASE RecvPoll \/ RecvPollFill \/ CleanTxRead \/ CleanTxWrite \/ AllocRead \/ AllocWrite
           \/ (\E f \in TxFrames : SendStart(f)) \/ SendCopy \/ SendCommit \/ HwTransmit \/ UNCHANGED vars
  BY <1>1, <1>2 DEF RecvPoll, RecvPollFill, RxComplete, CleanTxRead, CleanTxWrite, AllocRead, AllocWrite,
     SendStart, SendCopy, SendCommit, HwTransmit, vars, memory, recvVars
<1>3. CASE CleanRx
  <2>1. rxdesc' = rxdesc /\ (RxNone \/ RxTake \/ RxBad)
    BY <1>3 DEF CleanRx, memory
  <2>2. rx.cons \in Slots(RxSize) /\ rxdesc[rx.cons].kind \in Kinds \cup {"none"} /\ NoBuf \notin Slots(RxSize)
    <3>1. rx.cons \in Slots(RxSize) /\ NoBuf \notin Slots(RxSize)
      BY RingMoves, EdmaAssumption DEF IInv, Slots
    <3>2. rxdesc[rx.cons] \in [buf : Slots(FillCount) \cup {NoBuf}, kind : Kinds \cup {"none"}]
      BY <3>1 DEF IInv, TypeOK, RxCount
    <3> QED  BY <3>1, <3>2
  <2>3. CASE RxNone
    BY <1>1, <2>1, <2>3 DEF RxNone
  <2>4. CASE RxTake
    BY <2>1, <2>2, <2>4 DEF RxTake, Named, Told
  <2>5. CASE RxBad
    BY <2>1, <2>2, <2>5 DEF RxBad, Named, Told
  <2> QED  BY <2>1, <2>3, <2>4, <2>5
<1>4. CASE Process
  BY <1>4 DEF Process, memory, Named, Told
<1>5. CASE \E f \in RxFrames, k \in Kinds : HwReceive(f, k)
  <2>1. PICK f \in RxFrames, k \in Kinds : HwReceive(f, k)
    BY <1>5
  <2>2. /\ rxdesc' = [rxdesc EXCEPT ![rx.prod] = [buf |-> fill.cons, kind |-> k]]
        /\ fill.cons = rx.prod /\ UNCHANGED <<len, got>>
    BY <2>1 DEF HwReceive, recvVars, IInv, BufferIsSlot
  <2>3. Named'
    BY <2>2 DEF IInv, TypeOK, RxCount, Named
  <2> QED  BY <2>2, <2>3 DEF Told
<1> QED  BY <1>2, <1>3, <1>4, <1>5 DEF Next, RecvBody, SendBody

\* What the slots of the RXDESC ring hold for the stack.
Content == [s \in DOMAIN rxdesc |-> IF rxdesc[s].buf = NoBuf THEN NoFrame ELSE rxbuf[rxdesc[s].buf]]
RxRing == QueueOf(rx, Content, RxSize)

(* The receive queue is the ring's, behind the frame in the stack's        *)
(* hands.                                                                  *)
LEMMA RxQueueIs ==
  ASSUME IInv
  PROVE  /\ RxSize \in Nat /\ RxSize > 1 /\ rx \in Index(RxSize)
         /\ Content \in [Slots(RxSize) -> RxFrames \cup {NoFrame}]
         /\ RxRing \in Seq(RxFrames \cup {NoFrame})
         /\ got = NoBuf => RxQueue = RxRing
         /\ got # NoBuf => RxQueue = <<rxbuf[got]>> \o RxRing /\ rxbuf[got] \in RxFrames \cup {NoFrame}
<1>1. /\ RxSize \in Nat /\ RxSize > 1 /\ rx \in Index(RxSize)
      /\ DOMAIN rxdesc = Slots(RxSize) /\ \A s \in Slots(RxSize) : rxdesc[s].buf \in Slots(RxSize) \cup {NoBuf}
      /\ rxbuf \in [Slots(RxSize) -> RxFrames \cup {NoFrame}] /\ got \in Slots(RxSize) \cup {NoBuf}
  BY EdmaAssumption DEF IInv, TypeOK, RxCount, FillCount
<1>2. Content \in [Slots(RxSize) -> RxFrames \cup {NoFrame}]
  BY <1>1 DEF Content
<1>3. RxRing \in Seq(RxFrames \cup {NoFrame})
  BY <1>1, <1>2, RingQueue, Zenon DEF RxRing
<1>4. RxQueue = (IF got = NoBuf THEN <<>> ELSE <<rxbuf[got]>>) \o RxRing
  BY DEF RxQueue, RxRing, Content, RxCount
<1>5. got = NoBuf => RxQueue = RxRing
  BY <1>3, <1>4, ConcatEmptySeq, Zenon
<1> QED  BY <1>1, <1>2, <1>3, <1>4, <1>5

(* The same after a step.                                                  *)
LEMMA RxQueueBecomes ==
  ASSUME IInv'
  PROVE  /\ rx' \in Index(RxSize)
         /\ Content' \in [Slots(RxSize) -> RxFrames \cup {NoFrame}]
         /\ RxRing' \in Seq(RxFrames \cup {NoFrame})
         /\ RxRing' = QueueOf(rx', Content', RxSize)
         /\ got' = NoBuf => RxQueue' = RxRing'
         /\ got' # NoBuf => RxQueue' = <<rxbuf'[got']>> \o RxRing' /\ rxbuf'[got'] \in RxFrames \cup {NoFrame}
<1>1. /\ RxSize \in Nat /\ RxSize > 1 /\ rx' \in Index(RxSize)
      /\ DOMAIN rxdesc' = Slots(RxSize) /\ \A s \in Slots(RxSize) : rxdesc'[s].buf \in Slots(RxSize) \cup {NoBuf}
      /\ rxbuf' \in [Slots(RxSize) -> RxFrames \cup {NoFrame}] /\ got' \in Slots(RxSize) \cup {NoBuf}
  BY EdmaAssumption DEF IInv, TypeOK, RxCount, FillCount
<1>2. Content' \in [Slots(RxSize) -> RxFrames \cup {NoFrame}]
  BY <1>1 DEF Content
<1>3. RxRing' = QueueOf(rx', Content', RxSize)
  BY DEF RxRing, QueueOf
<1>4. RxRing' \in Seq(RxFrames \cup {NoFrame})
  BY <1>1, <1>2, <1>3, RingQueue, Zenon
<1>5. RxQueue' = (IF got' = NoBuf THEN <<>> ELSE <<rxbuf'[got']>>) \o RxRing'
  BY DEF RxQueue, RxRing, Content, RxCount
<1>6. got' = NoBuf => RxQueue' = RxRing'
  BY <1>4, <1>5, ConcatEmptySeq, Zenon
<1> QED  BY <1>1, <1>2, <1>3, <1>4, <1>5, <1>6

(* A frame received goes to the end of the queue, and what is before it    *)
(* keeps its buffer.                                                       *)
LEMMA ReceivePuts ==
  ASSUME IInv, IInv', NEW f \in RxFrames, NEW k \in Kinds, HwReceive(f, k)
  PROVE  RxChannel!Put(f)
<1> DEFINE S == RxFrames \cup {NoFrame}
<1>1. /\ RxSize \in Nat /\ RxSize > 1 /\ rx \in Index(RxSize) /\ rx' \in Index(RxSize)
      /\ Content \in [Slots(RxSize) -> S] /\ f \in S
      /\ rx.prod \in Slots(RxSize) /\ rx.prod # NoBuf
  BY RxQueueIs, RxQueueBecomes, RingMoves, EdmaAssumption DEF IInv, Slots
<1>2. /\ rx'.cons = rx.cons /\ rx'.prod = Bump(rx.prod, RxSize) /\ rx'.prod # rx.cons
      /\ fill.cons = rx.prod /\ fill.cons # got /\ got' = got
      /\ rxbuf' = [rxbuf EXCEPT ![rx.prod] = f]
      /\ rxdesc' = [rxdesc EXCEPT ![rx.prod] = [buf |-> rx.prod, kind |-> k]]
      /\ upper' = upper
  BY <1>1, BufferFree DEF HwReceive, HwCanReceive, NextBufferIsFree, IInv, TypeOK, BufferIsSlot, Index,
     RxCount, FillCount, recvVars, outputs
<1>3. /\ rxbuf \in [Slots(RxSize) -> S] /\ DOMAIN rxdesc = Slots(RxSize)
      /\ \A s \in Slots(RxSize) : rxdesc[s].buf \in {s, NoBuf}
      /\ got \in Slots(RxSize) \cup {NoBuf}
  BY DEF IInv, TypeOK, BufferIsSlot, RxCount, FillCount
<1>4. Puts(Content, Content', rx.prod, f)
  <2>1. DOMAIN Content' = Slots(RxSize) /\ DOMAIN rxdesc' = Slots(RxSize)
    BY <1>2, <1>3 DEF Content
  <2>2. ASSUME NEW s \in Slots(RxSize)
        PROVE  Content'[s] = IF s = rx.prod THEN f ELSE Content[s]
    <3>1. CASE s = rx.prod
      BY <1>1, <1>2, <1>3, <2>1, <3>1 DEF Content
    <3>2. CASE s # rx.prod
      BY <1>1, <1>2, <1>3, <2>1, <3>2 DEF Content
    <3> QED  BY <3>1, <3>2
  <2>3. Content' = [s \in Slots(RxSize) |-> Content'[s]]
    BY <2>1 DEF Content
  <2>4. Content' \in [Slots(RxSize) -> S]
    BY RxQueueBecomes
  <2> QED  BY <1>1, <2>2, <2>4 DEF Puts
<1> HIDE DEF S
<1>5. /\ QueueOf(rx', Content', RxSize) = Append(QueueOf(rx, Content, RxSize), f)
      /\ Len(QueueOf(rx, Content, RxSize)) < RxSize - 1
  <2>1. /\ RxSize \in Nat /\ RxSize > 1 /\ rx \in Index(RxSize) /\ rx' \in Index(RxSize)
        /\ Content \in [Slots(RxSize) -> S] /\ f \in S
        /\ rx'.cons = rx.cons /\ rx'.prod = Bump(rx.prod, RxSize) /\ rx'.prod # rx.cons
    BY <1>1, <1>2
  <2> QED  BY ONLY <1>4, <2>1, RingPut, Zenon
<1>6. RxRing' = Append(RxRing, f) /\ Len(RxRing) < RxSize - 1 /\ RxRing \in Seq(S)
  BY <1>5, RxQueueIs, RxQueueBecomes DEF RxRing, S
<1>7. RxQueue' = Append(RxQueue, f) /\ Len(RxQueue) < RxSize
  <2>1. CASE got = NoBuf
    BY <1>1, <1>2, <1>6, <2>1, RxQueueIs, RxQueueBecomes
  <2>2. CASE got # NoBuf
    <3>1. RxQueue = <<rxbuf[got]>> \o RxRing /\ rxbuf[got] \in S
      BY <2>2, RxQueueIs DEF S
    <3>2. rxbuf'[got] = rxbuf[got]
      BY <1>2, <1>3, <2>2
    <3>3. RxQueue' = <<rxbuf[got]>> \o RxRing'
      BY <1>2, <2>2, <3>2, RxQueueBecomes
    <3> DEFINE x == rxbuf[got]
    <3>4. RxQueue' = <<x>> \o Append(RxRing, f) /\ RxQueue = <<x>> \o RxRing /\ x \in S
      BY <1>6, <3>1, <3>3
    <3> HIDE DEF x
    <3>5. <<x>> \o Append(RxRing, f) = Append(<<x>> \o RxRing, f) /\ Len(<<x>> \o RxRing) = Len(RxRing) + 1
      <4>1. RxRing \in Seq(S) /\ x \in S /\ f \in S
        BY <1>1, <1>6, <3>4
      <4> QED  BY ONLY <4>1, AppendBehind, Zenon
    <3>6. Len(RxRing) \in Nat
      BY <1>6
    <3>7. RxQueue' = Append(RxQueue, f) /\ Len(RxQueue) = Len(RxRing) + 1
      BY ONLY <3>4, <3>5, Zenon
    <3> QED  BY ONLY <1>1, <1>6, <3>6, <3>7
  <2> QED  BY <2>1, <2>2
<1> QED  BY <1>2, <1>7 DEF RxChannel!Put

(* ipq_edma_clean_rx moves the head of the ring into the stack's hands.    *)
LEMMA TakeHolds ==
  ASSUME IInv, IInv', Named, RxTake, CleanRx
  PROVE  RxQueue' = RxQueue
<1> DEFINE S == RxFrames \cup {NoFrame}
<1>1. /\ RxSize \in Nat /\ RxSize > 1 /\ rx \in Index(RxSize) /\ rx' \in Index(RxSize)
      /\ Content \in [Slots(RxSize) -> S] /\ rx.cons \in Slots(RxSize) /\ rx.cons # NoBuf
  BY RxQueueIs, RxQueueBecomes, RingMoves, EdmaAssumption DEF IInv, Slots
<1>2. /\ rx.prod # rx.cons /\ rx'.prod = rx.prod /\ rx'.cons = Bump(rx.cons, RxSize)
      /\ rxbuf' = rxbuf /\ rxdesc' = rxdesc /\ got = NoBuf /\ got' = rx.cons
      /\ rxdesc[rx.cons].buf = rx.cons /\ DOMAIN rxdesc = Slots(RxSize)
  BY <1>1 DEF RxTake, CleanRx, memory, Named, Empty, IInv, TypeOK, Index, RxCount
<1>3. Content' = Content /\ Content[rx.cons] = rxbuf[rx.cons]
  BY <1>1, <1>2 DEF Content
<1>4. RxQueue = RxRing /\ RxQueue' = <<Content[rx.cons]>> \o RxRing'
  BY <1>1, <1>2, <1>3, RxQueueIs, RxQueueBecomes
<1> HIDE DEF S
<1>5. /\ QueueOf(rx, Content, RxSize) \in Seq(S) /\ QueueOf(rx, Content, RxSize) # <<>>
      /\ Head(QueueOf(rx, Content, RxSize)) = Content[rx.cons]
      /\ QueueOf(rx', Content, RxSize) = Tail(QueueOf(rx, Content, RxSize))
  <2>1. /\ RxSize \in Nat /\ RxSize > 1 /\ rx \in Index(RxSize) /\ rx' \in Index(RxSize)
        /\ Content \in [Slots(RxSize) -> S]
        /\ rx.prod # rx.cons /\ rx'.prod = rx.prod /\ rx'.cons = Bump(rx.cons, RxSize)
    BY <1>1, <1>2
  <2> QED  BY ONLY <2>1, RingGet, Zenon
<1>6. /\ RxRing \in Seq(S) /\ RxRing # <<>> /\ Head(RxRing) = Content[rx.cons]
      /\ RxRing' = Tail(RxRing)
  BY <1>3, <1>5, RxQueueBecomes DEF RxRing
<1>7. <<Head(RxRing)>> \o Tail(RxRing) = RxRing
  BY <1>6, HeadInFront, Zenon
<1> QED  BY ONLY <1>4, <1>6, <1>7, Zenon

(* The stack handles the head of the queue.                                *)
LEMMA ProcessGets ==
  ASSUME IInv, IInv', Told, "range" \notin Kinds, Process
  PROVE  RxChannel!Get
<1>1. /\ got # NoBuf /\ got' = NoBuf /\ upper' = rxbuf[got]
      /\ rx' = rx /\ rxbuf' = rxbuf /\ rxdesc' = rxdesc
  BY DEF Process, Told, IInv, TypeOK, rings, memory
<1>2. RxRing' = RxRing
  BY <1>1 DEF RxRing, Content, QueueOf
<1>3. /\ RxQueue = <<upper'>> \o RxRing /\ upper' \in RxFrames \cup {NoFrame}
      /\ RxRing \in Seq(RxFrames \cup {NoFrame}) /\ RxQueue' = RxRing
  BY <1>1, <1>2, RxQueueIs, RxQueueBecomes
<1> DEFINE S == RxFrames \cup {NoFrame}
           x == upper'
<1>4. RxQueue = <<x>> \o RxRing /\ x \in S /\ RxRing \in Seq(S)
  BY <1>3
<1> HIDE DEF S, x
<1>5. <<x>> \o RxRing # <<>> /\ Head(<<x>> \o RxRing) = x /\ Tail(<<x>> \o RxRing) = RxRing
  BY ONLY <1>4, InFront, Zenon
<1>6. RxQueue # <<>> /\ x = Head(RxQueue) /\ RxQueue' = Tail(RxQueue)
  BY ONLY <1>3, <1>4, <1>5, Zenon
<1> QED  BY <1>6 DEF x, RxChannel!Get

(* Every step of the driver and the engine is a step of the receive        *)
(* channel, or leaves it alone.                                            *)
LEMMA ReceiveStep ==
  ASSUME "range" \notin Kinds
  PROVE  IInv /\ IInv' /\ Named /\ Told /\ [Next]_vars => [RxChannel!CNext]_(RxChannel!cvars)
<1> SUFFICES ASSUME IInv, IInv', Named, Told, [Next]_vars
             PROVE  RxChannel!CNext \/ UNCHANGED RxChannel!cvars
  OBVIOUS
<1>1. CASE UNCHANGED <<rx, rxdesc, rxbuf, got, upper>>
  BY <1>1 DEF RxChannel!cvars, RxQueue, QueueOf
<1>2. CASE RecvPoll \/ RecvPollFill \/ CleanTxRead \/ CleanTxWrite \/ AllocRead \/ AllocWrite
           \/ (\E f \in TxFrames : SendStart(f)) \/ SendCopy \/ SendCommit \/ HwTransmit \/ UNCHANGED vars
  BY <1>1, <1>2 DEF RecvPoll, RecvPollFill, RxComplete, CleanTxRead, CleanTxWrite, AllocRead, AllocWrite,
     SendStart, SendCopy, SendCommit, HwTransmit, vars, rings, memory, recvVars, outputs
<1>3. CASE CleanRx
  <2>1. CASE RxNone \/ RxBad
    BY <1>1, <1>3, <2>1 DEF CleanRx, RxNone, RxBad, memory, outputs
  <2>2. CASE RxTake
    BY <1>3, <2>2, TakeHolds DEF RxChannel!cvars, CleanRx, outputs
  <2> QED  BY <1>3, <2>1, <2>2 DEF CleanRx
<1>4. CASE Process
  BY <1>4, ProcessGets DEF RxChannel!CNext
<1>5. CASE \E f \in RxFrames, k \in Kinds : HwReceive(f, k)
  BY <1>5, ReceivePuts DEF RxChannel!CNext
<1> QED  BY <1>2, <1>3, <1>4, <1>5 DEF Next, RecvBody, SendBody

(* Received frames reach the stack unaltered, in order and once, though    *)
(* their buffers are posted again before the stack has seen them.  Where a *)
(* frame can report a port out of range, ipq_eth_recv returns a length     *)
(* without its buffer, and the stack reads what no descriptor named.       *)
THEOREM ReceiveChannel ==
  ASSUME "range" \notin Kinds
  PROVE  Spec => ReceivesInOrder
<1>1. Init => RxChannel!CInit
  <2> SUFFICES ASSUME Init PROVE RxChannel!CInit
    OBVIOUS
  <2>1. IInv /\ got = NoBuf /\ Pending(rx, RxSize) = 0
    BY InitInv DEF Init, Pending
  <2>2. RxQueue = RxRing /\ RxRing \in Seq(RxFrames \cup {NoFrame})
    BY <2>1, RxQueueIs
  <2>3. RxRing = <<>>
    BY <2>1 DEF RxRing, QueueOf
  <2> QED  BY <2>2, <2>3 DEF RxChannel!CInit
<1>2. Spec => [](Named /\ Told)
  BY Invariance, NamedStart, NamedStep, PTL DEF Spec
<1> QED  BY <1>1, <1>2, Invariance, ReceiveStep, PTL DEF Spec, ReceivesInOrder, RxChannel!CSpec

(***************************************************************************)
(* The ports.                                                              *)
(***************************************************************************)

\* A mode that a table offers comes with a MAC.
RowFits(row) ==
  /\ Len(row.mode) \in Nat \ {0}
  /\ \A k \in 1 .. Len(row.mode) :
       row.mac_mode[k] \in {"GMAC", "XGMAC"} \cup (IF row.mode[k] = "none" THEN {"none"} ELSE {})

LEMMA SlowFits ==
  ASSUME NEW mac \in {"GMAC", "XGMAC"}, NEW mode, NEW clk
  PROVE  RowFits(Link!Slow(mac, mode, clk))
BY DEF RowFits, Link!Slow, Link!Row

LEMMA NoneFits == RowFits(Link!Slow("none", "none", -1))
BY DEF RowFits, Link!Slow, Link!Row

LEMMA WideFits == ASSUME NEW a, NEW b PROVE RowFits(Link!Usxgmii(a, b))
BY DEF RowFits, Link!Usxgmii, Link!Row, Link!Same

LEMMA SfpFits == RowFits(Link!SfpRow)
BY DEF RowFits, Link!SfpRow, Link!Row, Link!Same

LEMMA SwitchFits == RowFits(Link!SwitchRow)
BY DEF RowFits, Link!SwitchRow, Link!Row, Link!Gap

LEMMA LateFits == RowFits(Link!QCA81xxRow)
BY DEF RowFits, Link!QCA81xxRow, Link!Row, Link!From

LEMMA TablesFit ==
  ASSUME NEW soc \in {"ipq9574", "ipq5332", "ipq5424"}, NEW t \in DOMAIN Link!ConfigOf(soc)
  PROVE  RowFits(Link!ConfigOf(soc)[t])
<1> USE SlowFits, NoneFits, WideFits, SfpFits, SwitchFits, LateFits
<1>1. /\ DOMAIN Link!ipq5424_port_config = {"QCA8x8x_SWITCH", "SFP10G", "AQ", "QCA81xx", "QCA8081"}
      /\ DOMAIN Link!ipq9574_port_config =
           {"QCA8075", "QCA8x8x_PHY", "QCA8x8x_SWITCH", "QCA8081", "SFP10G", "AQ", "QCA81xx"}
      /\ DOMAIN Link!ipq5332_port_config =
           {"QCA8x8x_BYPASS", "QCA8x8x_SWITCH", "QCA8081", "SFP10G", "AQ", "QCA81xx", "QCA8033"}
  BY DEF Link!ipq5424_port_config, Link!ipq9574_port_config, Link!ipq5332_port_config, Link!SFP
<1>2. ASSUME NEW u \in DOMAIN Link!ipq5424_port_config PROVE RowFits(Link!ipq5424_port_config[u])
  BY <1>1 DEF Link!ipq5424_port_config, Link!SFP
<1>3. ASSUME NEW u \in DOMAIN Link!ipq9574_port_config PROVE RowFits(Link!ipq9574_port_config[u])
  <2>1. CASE u = "QCA8075"
    BY <2>1 DEF Link!ipq9574_port_config, Link!SFP, RowFits, Link!Row
  <2>2. CASE u = "QCA8x8x_PHY"
    BY <2>2 DEF Link!ipq9574_port_config, Link!SFP, RowFits, Link!Row, Link!Gap
  <2>3. CASE u \notin {"QCA8075", "QCA8x8x_PHY"}
    BY <1>1, <1>2, <2>3 DEF Link!ipq9574_port_config, Link!SFP
  <2> QED  BY <2>1, <2>2, <2>3
<1>4. ASSUME NEW u \in DOMAIN Link!ipq5332_port_config PROVE RowFits(Link!ipq5332_port_config[u])
  BY <1>1, <1>2 DEF Link!ipq5332_port_config, Link!SFP
<1> QED  BY <1>2, <1>3, <1>4 DEF Link!ConfigOf

\* What a port is.
LEMMA PortFacts ==
  ASSUME board \in Boards
  PROVE  /\ Link!Ports = 1 .. Len(board.ports) /\ Len(board.ports) \in Nat \ {0}
         /\ board.config \in {"ipq9574", "ipq5332", "ipq5424"}
         /\ \A p \in Link!Ports :
              /\ Link!PhyId(p) \in DOMAIN Link!port_config
              /\ RowFits(Link!port_config[Link!PhyId(p)]) /\ Link!Uniphy(p) \in Link!Uniphys
              /\ board.ports[p].xgmac \in BOOLEAN /\ Link!Channel(p) \in 0 .. 3
         /\ \A p, q \in Link!Ports : p # q =>
              /\ Link!Uniphy(p) = Link!Uniphy(q) =>
                   Link!PhyId(p) = Link!PhyId(q) /\ Link!PhyId(p) \in {"QCA8075", "QCA8x8x_PHY"}
              /\ Link!PhyId(p) = "QCA8x8x_PHY" /\ Link!PhyId(q) = "QCA8x8x_PHY" =>
                   Link!Uniphy(p) = Link!Uniphy(q) /\ Link!Channel(p) # Link!Channel(q)
<1> USE DEF Link!Ports
<1>0. Link!BoardAssumption(board)
  BY LinkIs DEF Link!PortLinkAssumption
<1>1. /\ board.config \in {"ipq9574", "ipq5332", "ipq5424"} /\ board.ports # <<>>
      /\ board.ports \in
           Seq([phy_id : DOMAIN Link!ConfigOf(board.config), id : 1 .. 6, uniphy_id : Nat, xgmac : BOOLEAN])
  BY <1>0 DEF Link!BoardAssumption
<1>2. Link!Ports = 1 .. Len(board.ports) /\ Len(board.ports) \in Nat \ {0}
  BY <1>1
<1> DEFINE Port == [phy_id : DOMAIN Link!ConfigOf(board.config), id : 1 .. 6, uniphy_id : Nat, xgmac : BOOLEAN]
<1>3. ASSUME NEW p \in Link!Ports
      PROVE  board.ports[p] \in Port
  <2>1. board.ports \in Seq(Port)
    BY <1>1
  <2> HIDE DEF Port
  <2> QED  BY <1>2, <2>1
<1>4. ASSUME NEW p \in Link!Ports
      PROVE  /\ Link!PhyId(p) \in DOMAIN Link!port_config
             /\ RowFits(Link!port_config[Link!PhyId(p)]) /\ Link!Uniphy(p) \in Link!Uniphys
             /\ board.ports[p].xgmac \in BOOLEAN /\ Link!Channel(p) \in 0 .. 3
  <2>1. Link!PhyId(p) \in DOMAIN Link!port_config /\ RowFits(Link!port_config[Link!PhyId(p)])
    BY <1>1, <1>3, TablesFit DEF Link!PhyId, Link!port_config
  <2>2. board.ports[p].xgmac \in BOOLEAN /\ board.ports[p].id \in 1 .. 6
    BY <1>3
  <2>3. Link!Channel(p) \in 0 .. 3
    BY <2>2 DEF Link!Channel
  <2> QED  BY <2>1, <2>2, <2>3 DEF Link!Uniphys
<1>5. ASSUME NEW p \in Link!Ports, NEW q \in Link!Ports, p # q
      PROVE  /\ Link!Uniphy(p) = Link!Uniphy(q) =>
                   Link!PhyId(p) = Link!PhyId(q) /\ Link!PhyId(p) \in {"QCA8075", "QCA8x8x_PHY"}
             /\ Link!PhyId(p) = "QCA8x8x_PHY" /\ Link!PhyId(q) = "QCA8x8x_PHY" =>
                   Link!Uniphy(p) = Link!Uniphy(q) /\ Link!Channel(p) # Link!Channel(q)
  <2>1. /\ board.ports[p].id # board.ports[q].id
        /\ board.ports[p].uniphy_id = board.ports[q].uniphy_id =>
             board.ports[p].phy_id = board.ports[q].phy_id /\ board.ports[p].phy_id \in {"QCA8075", "QCA8x8x_PHY"}
    BY <1>0, <1>5 DEF Link!BoardAssumption
  <2>2. \A o \in Link!Ports : Link!PhyId(o) = "QCA8x8x_PHY" => Link!Uniphy(o) = 0 /\ board.ports[o].id \in 1 .. 4
    BY <1>0 DEF Link!BoardAssumption, Link!PhyId, Link!Uniphy
  <2> QED  BY <2>1, <2>2 DEF Link!PhyId, Link!Uniphy, Link!Channel
<1> QED  BY <1>1, <1>2, <1>4, <1>5

\* What the tables say of a port's speeds, and of a link that is down.
LEMMA ModeFacts ==
  ASSUME board \in Boards, NEW p \in Link!Ports, NEW s
  PROVE  /\ s \in Link!Offered(p) =>
              Link!Mode(p, s) # "none" /\ Link!MacMode(p, s) \in {"GMAC", "XGMAC"}
         /\ s \in Link!Offered(p) \cup {10} =>
              /\ Link!MacMode(p, s) \in {"GMAC", "XGMAC", "none"}
              /\ Link!PhyId(p) = "QCA8x8x_PHY" => Link!Mode(p, s) = "UQXGMII"
              /\ Link!PhyId(p) = "QCA8075" => Link!Mode(p, s) = "PSGMII"
         /\ Link!MacSpeed(s, board.ports[p].xgmac) \in 0 .. 5
<1> DEFINE row == Link!port_config[Link!PhyId(p)]
           k == Link!Index(p, s)
<1>1. RowFits(row)
  BY PortFacts
<1>2. Link!MacSpeed(s, board.ports[p].xgmac) \in 0 .. 5
  BY DEF Link!MacSpeed
<1>3. k \in 1 .. 6
  BY <1>2 DEF Link!Index
<1>4. ASSUME s \in Link!Offered(p)
      PROVE  k \in 1 .. Len(row.mode) /\ row.mode[k] # "none"
  BY <1>1, <1>3, <1>4 DEF Link!Offered, Link!Mode, RowFits
<1>5. s \in Link!Offered(p) => Link!Mode(p, s) # "none" /\ Link!MacMode(p, s) \in {"GMAC", "XGMAC"}
  BY <1>1, <1>4 DEF Link!Mode, Link!MacMode, RowFits
<1>6. ASSUME s \in Link!Offered(p) \cup {10}
      PROVE  k \in 1 .. Len(row.mode) /\ (row.mode[k] # "none" \/ k = 1)
  BY <1>1, <1>4, <1>6 DEF Link!Index, Link!MacSpeed, RowFits
<1>7. board.config \in {"ipq9574", "ipq5332", "ipq5424"} /\ Link!PhyId(p) \in DOMAIN Link!port_config
  BY PortFacts
<1>8. ASSUME s \in Link!Offered(p) \cup {10}, Link!PhyId(p) = "QCA8x8x_PHY"
      PROVE  Link!Mode(p, s) = "UQXGMII"
  <2>1. row.mode = <<"UQXGMII", "UQXGMII", "UQXGMII", "none", "UQXGMII">>
    BY <1>7, <1>8 DEF Link!port_config, Link!ConfigOf, Link!ipq9574_port_config, Link!ipq5332_port_config,
       Link!ipq5424_port_config, Link!SFP, Link!Row, Link!Gap
  <2> QED  BY <1>6, <1>8, <2>1 DEF Link!Mode
<1>9. ASSUME s \in Link!Offered(p) \cup {10}, Link!PhyId(p) = "QCA8075"
      PROVE  Link!Mode(p, s) = "PSGMII"
  <2>1. row.mode = <<"PSGMII", "PSGMII", "PSGMII">>
    BY <1>7, <1>9 DEF Link!port_config, Link!ConfigOf, Link!ipq9574_port_config, Link!ipq5332_port_config,
       Link!ipq5424_port_config, Link!SFP, Link!Row
  <2> QED  BY <1>6, <1>9, <2>1 DEF Link!Mode
<1>10. s \in Link!Offered(p) \cup {10} => Link!MacMode(p, s) \in {"GMAC", "XGMAC", "none"}
  BY <1>1, <1>6 DEF Link!MacMode, RowFits
<1> QED  BY <1>2, <1>5, <1>8, <1>9, <1>10

\* No start has run yet.
NotStarted == phase \in {"off", "probe"} \/ isconfigured = {}

\* Loops stay within the ports; before the first start nothing has been set
\* but what the probe sets for the PHYs it finds.
Blank ==
  /\ phase \in {"probe", "start"} => port \in Link!Ports
  /\ NotStarted =>
       /\ whole = {} /\ phase \notin {"start", "up"}
       /\ \A p \in Link!Ports :
            /\ Link!PhyId(p) \notin DOMAIN Link!FirstMode =>
                 cur_uniphy_mode[p] = "PSGMII" /\ uniphy[Link!Uniphy(p)] = "reset"
            /\ Link!PhyId(p) \notin {"QCA8x8x_PHY", "QCA81xx"} =>
                 cur_gmac_type[p] = "GMAC" /\ mux[p] = "GMAC"

\* The PHYs of a shared serdes have one mode for all speeds.
OneMode ==
  \A p \in Link!Ports :
    /\ Link!PhyId(p) = "QCA8075" => cur_uniphy_mode[p] = "PSGMII"
    /\ Link!PhyId(p) = "QCA8x8x_PHY" /\ p \in connected => cur_uniphy_mode[p] = "UQXGMII"

\* What the driver believes of a port's serdes and MAC is so, if it is
\* anything at all.
Believed ==
  \A p \in connected :
    /\ \/ cur_uniphy_mode[p] \in {uniphy[Link!Uniphy(p)], "none"}
       \/ cur_uniphy_mode[p] = "PSGMII" /\ uniphy[Link!Uniphy(p)] = "reset"
    /\ cur_gmac_type[p] \in {mux[p], "none"}

\* A port set up to the end runs at the speed the driver remembers.
RunsAsBelieved(p) == cur_speed[p] \in Link!Offered(p) => Link!RunsAt(p, cur_speed[p])
Running == \A p \in whole : p \in connected /\ RunsAsBelieved(p)

\* A link is read at most once in a start, and remembered.
ReadOnce ==
  \A p \in Link!Ports :
    /\ phase \notin {"start", "up"} \/ (phase = "start" /\ p >= port) => reading[p] = NotRead
    /\ reading[p] # NotRead /\ reading[p].link =>
         cur_speed[p] = reading[p].speed /\ reading[p].speed \in Link!Offered(p)

\* A port that is not active has been silenced once the loop is past it.
Silent ==
  \A p \in connected :
    phase = "up" \/ (phase = "start" /\ p < port) => Link!Chosen(p) \/ p \notin tx_mac

LinkInv == Link!TypeOK /\ Blank /\ OneMode /\ Believed /\ Running /\ ReadOnce /\ Silent

LEMMA LinkStart == Link!Init => LinkInv
<1> SUFFICES ASSUME Link!Init PROVE LinkInv
  OBVIOUS
<1>0. board \in Boards /\ Link!Ports = 1 .. Len(board.ports) /\ Len(board.ports) \in Nat \ {0}
  BY PortFacts DEF Link!Init
<1>1. Link!TypeOK
  BY <1>0 DEF Link!Init, Link!TypeOK
<1>2. Blank /\ OneMode
  BY PortFacts DEF Link!Init, Blank, OneMode, NotStarted
<1>3. Believed /\ Running /\ ReadOnce /\ Silent
  BY DEF Link!Init, Believed, Running, ReadOnce, Silent
<1> QED  BY <1>1, <1>2, <1>3 DEF LinkInv

\* The tables belong to the board, which never changes.
LEMMA BoardStays ==
  ASSUME board' = board
  PROVE  /\ Link!Ports' = Link!Ports /\ Link!Uniphys' = Link!Uniphys
         /\ \A p, s : /\ Link!PhyId(p)' = Link!PhyId(p) /\ Link!Uniphy(p)' = Link!Uniphy(p)
                      /\ Link!Channel(p)' = Link!Channel(p) /\ Link!Offered(p)' = Link!Offered(p)
                      /\ Link!Mode(p, s)' = Link!Mode(p, s) /\ Link!MacMode(p, s)' = Link!MacMode(p, s)
                      /\ Link!ClkRate(p, s)' = Link!ClkRate(p, s)
BY DEF Link!Ports, Link!Uniphys, Link!PhyId, Link!Uniphy, Link!Channel, Link!Offered, Link!Mode,
       Link!MacMode, Link!ClkRate, Link!Index, Link!port_config

\* A port nothing has been done to runs as it did.
LEMMA RunsOn ==
  ASSUME board' = board, NEW p, RunsAsBelieved(p), cur_speed'[p] = cur_speed[p], p \in tx_mac => p \in tx_mac',
         mux'[p] = mux[p], xgmac'[p] = xgmac[p], gmac'[p] = gmac[p], rate'[p] = rate[p],
         uniphy'[Link!Uniphy(p)] = uniphy[Link!Uniphy(p)],
         \/ channel'[Link!Uniphy(p)][Link!Channel(p)] = channel[Link!Uniphy(p)][Link!Channel(p)]
         \/ \A s \in Link!Offered(p) : Link!Mode(p, s) \notin Link!Fast
  PROVE  RunsAsBelieved(p)'
<1>1. PICK s : s = cur_speed[p]
  OBVIOUS
<1> DEFINE index == Link!MacSpeed(s, board.ports[p].xgmac)
<1>2. index' = index
  BY DEF Link!MacSpeed
<1>3. /\ Link!Mode(p, s)' = Link!Mode(p, s) /\ Link!MacMode(p, s)' = Link!MacMode(p, s)
      /\ Link!ClkRate(p, s)' = Link!ClkRate(p, s) /\ Link!Offered(p)' = Link!Offered(p)
      /\ Link!Uniphy(p)' = Link!Uniphy(p) /\ Link!Channel(p)' = Link!Channel(p)
  BY BoardStays
<1>4. Link!SpeedBits(Link!Mode(p, s), index)' = Link!SpeedBits(Link!Mode(p, s), index)
  BY <1>2, <1>3 DEF Link!SpeedBits
<1> HIDE DEF index
<1>5. ASSUME s \in Link!Offered(p)
      PROVE  Link!RunsAt(p, s)'
  <2>1. Link!RunsAt(p, s)
    BY <1>1, <1>5 DEF RunsAsBelieved
  <2> QED  BY <1>2, <1>3, <1>4, <1>5, <2>1 DEF Link!RunsAt, index
<1> QED  BY <1>1, <1>3, <1>5 DEF RunsAsBelieved, Link!RunsAt

\* Steps that leave every port as it is.
LEMMA PortsStay ==
  ASSUME LinkInv,
         UNCHANGED <<board, connected, cur_speed, cur_uniphy_mode, cur_gmac_type, uniphy, channel, mux, tx_mac,
                     xgmac, gmac, rate, whole>>
  PROVE  OneMode' /\ Believed' /\ Running'
<1>1. OneMode'
  BY BoardStays DEF LinkInv, OneMode
<1>2. Believed'
  BY BoardStays DEF LinkInv, Believed
<1>3. Running'
  BY RunsOn DEF LinkInv, Running
<1> QED  BY <1>1, <1>2, <1>3

LEMMA LinkSteps ==
  ASSUME LinkInv,
         \/ Link!Probe \/ Link!NotConnected \/ Link!Stop \/ Link!Skip
         \/ \E a \in Link!Ports \cup {All} : Link!Start(a)
         \/ UNCHANGED Link!vars
  PROVE  LinkInv'
<1> USE DEF Link!driver, Link!hardware
<1>0. /\ Link!TypeOK /\ Blank /\ OneMode /\ Believed /\ Running /\ ReadOnce /\ Silent
      /\ Link!Ports = 1 .. Len(board.ports) /\ Len(board.ports) \in Nat \ {0}
  BY PortFacts DEF LinkInv, Link!TypeOK
<1>1. UNCHANGED <<board, connected, isconfigured, cur_speed, cur_uniphy_mode, cur_gmac_type, uniphy, channel, mux,
                  tx_mac, xgmac, gmac, rate, whole>>
  BY DEF Link!Probe, Link!NotConnected, Link!Stop, Link!Skip, Link!Start, Link!vars, Link!Following, Link!Done
<1>2. OneMode' /\ Believed' /\ Running'
  BY <1>1, PortsStay
<1>3. /\ Link!Ports' = Link!Ports /\ Link!Uniphys' = Link!Uniphys
      /\ \A p : Link!PhyId(p)' = Link!PhyId(p) /\ Link!Uniphy(p)' = Link!Uniphy(p)
                /\ Link!Offered(p)' = Link!Offered(p)
  BY <1>1, BoardStays
<1>4. ASSUME phase' \in {"off", "probe", "idle", "start", "up"}, port' \in 1 .. Len(board.ports) + 1,
             active_port' \in Link!Ports \cup {All}, DOMAIN reading' = Link!Ports
      PROVE  Link!TypeOK'
  BY <1>0, <1>1, <1>3, <1>4 DEF Link!TypeOK
<1>5. ASSUME phase' \in {"probe", "start"} => port' \in Link!Ports,
             phase' \in {"start", "up"} => isconfigured # {}, NotStarted' => NotStarted
      PROVE  Blank'
  BY <1>0, <1>1, <1>3, <1>5 DEF Blank, NotStarted
<1>6. CASE Link!Probe
  <2>1. phase = "off" /\ phase' = "probe" /\ port' = 1 /\ UNCHANGED <<active_port, reading>>
    BY <1>6 DEF Link!Probe
  <2>2. Link!TypeOK' /\ Blank'
    BY <1>0, <1>1, <1>4, <1>5, <2>1 DEF Link!TypeOK, NotStarted
  <2>3. ReadOnce' /\ Silent'
    BY <1>0, <1>1, <1>3, <2>1 DEF ReadOnce, Silent
  <2> QED  BY <1>2, <2>2, <2>3 DEF LinkInv
<1>7. CASE Link!NotConnected
  <2>1. /\ phase = "probe" /\ port' = port + 1 /\ UNCHANGED <<active_port, reading>>
        /\ phase' = (IF port = Len(board.ports) THEN "idle" ELSE phase)
    BY <1>7 DEF Link!NotConnected, Link!Following
  <2>2. port \in Link!Ports
    BY <1>0, <2>1 DEF Blank
  <2>3. Link!TypeOK'
    BY <1>0, <1>4, <2>1, <2>2 DEF Link!TypeOK
  <2>4. Blank'
    BY <1>0, <1>5, <2>1, <2>2 DEF NotStarted
  <2>5. ReadOnce' /\ Silent'
    BY <1>0, <1>1, <1>3, <2>1 DEF ReadOnce, Silent
  <2> QED  BY <1>2, <2>3, <2>4, <2>5 DEF LinkInv
<1>8. CASE Link!Stop
  <2>1. /\ phase = "up" /\ phase' = "idle" /\ port' = 1 /\ active_port' = All
        /\ reading' = [p \in Link!Ports |-> NotRead]
    BY <1>8 DEF Link!Stop
  <2>2. Link!TypeOK'
    BY <1>0, <1>4, <2>1 DEF Link!TypeOK
  <2>3. Blank'
    BY <1>0, <1>1, <1>5, <2>1 DEF Blank, NotStarted
  <2>4. ReadOnce' /\ Silent'
    BY <1>3, <2>1 DEF ReadOnce, Silent
  <2> QED  BY <1>2, <2>2, <2>3, <2>4 DEF LinkInv
<1>9. CASE Link!Skip
  <2>1. /\ phase = "start" /\ port' = port + 1 /\ UNCHANGED <<active_port, reading>>
        /\ port \in connected => Link!Chosen(port)
        /\ phase' = (IF port = Len(board.ports) THEN "up" ELSE phase)
    BY <1>9 DEF Link!Skip, Link!Done
  <2>2. port \in Link!Ports
    BY <1>0, <2>1 DEF Blank
  <2>3. Link!TypeOK'
    BY <1>0, <1>4, <2>1, <2>2 DEF Link!TypeOK
  <2>4. Blank'
    BY <1>0, <1>1, <1>5, <2>1, <2>2 DEF Blank, NotStarted
  <2>5. ReadOnce'
    BY <1>0, <1>1, <1>3, <2>1, <2>2 DEF ReadOnce
  <2>6. ASSUME NEW p \in connected, phase' = "up" \/ (phase' = "start" /\ p < port')
        PROVE  Link!Chosen(p) \/ p \notin tx_mac
    <3>1. p \in Link!Ports
      BY <1>0 DEF Link!TypeOK
    <3>2. p = port \/ p < port
      BY <1>0, <2>1, <2>2, <2>6, <3>1
    <3> QED  BY <1>0, <2>1, <3>2 DEF Silent
  <2>7. Silent'
    BY <1>1, <2>1, <2>6 DEF Silent, Link!Chosen
  <2> QED  BY <1>2, <2>3, <2>4, <2>5, <2>7 DEF LinkInv
<1>10. ASSUME NEW a \in Link!Ports \cup {All}, Link!Start(a)
       PROVE  LinkInv'
  <2>1. /\ phase = "idle" /\ phase' = "start" /\ port' = 1 /\ active_port' = a /\ UNCHANGED reading
        /\ isconfigured # {}
    BY <1>10 DEF Link!Start
  <2>2. Link!TypeOK'
    BY <1>0, <1>4, <2>1 DEF Link!TypeOK
  <2>3. Blank'
    BY <1>0, <1>1, <1>5, <2>1 DEF Blank, NotStarted
  <2>4. ReadOnce'
    BY <1>0, <1>1, <1>3, <2>1 DEF ReadOnce
  <2>5. Silent'
    BY <1>0, <1>1, <2>1 DEF Silent, Link!TypeOK
  <2> QED  BY <1>2, <2>2, <2>3, <2>4, <2>5 DEF LinkInv
<1>11. CASE UNCHANGED Link!vars
  <2>1. UNCHANGED <<phase, port, active_port, reading>>
    BY <1>11 DEF Link!vars
  <2>2. Link!TypeOK' /\ Blank'
    BY <1>0, <1>1, <1>3, <2>1 DEF Link!TypeOK, Blank, NotStarted
  <2>3. ReadOnce' /\ Silent'
    BY <1>0, <1>1, <1>3, <2>1 DEF ReadOnce, Silent, Link!Chosen
  <2> QED  BY <1>2, <2>2, <2>3 DEF LinkInv
<1> QED  BY <1>6, <1>7, <1>8, <1>9, <1>10, <1>11

LEMMA FirstModes ==
  /\ DOMAIN Link!FirstMode = {"QCA8x8x_PHY", "QCA8x8x_SWITCH", "QCA81xx"}
  /\ Link!FirstMode["QCA8x8x_PHY"] = "UQXGMII"
  /\ \A t \in DOMAIN Link!FirstMode : Link!FirstMode[t] # "none"
BY DEF Link!FirstMode

\* Setting a serdes touches no other.
LEMMA ModeSetting ==
  ASSUME Link!TypeOK, NEW u \in Link!Uniphys, NEW mode
  PROVE  /\ DOMAIN Link!ModeAfter(u, mode) = Link!Uniphys
         /\ Link!ChannelAfter(u, mode) \in [Link!Uniphys -> [0 .. 3 -> 0 .. 5]]
         /\ Link!ModeAfter(u, mode)[u] = IF mode = "none" THEN uniphy[u] ELSE mode
         /\ \A v \in Link!Uniphys : v # u =>
              Link!ModeAfter(u, mode)[v] = uniphy[v] /\ Link!ChannelAfter(u, mode)[v] = channel[v]
<1>1. DOMAIN uniphy = Link!Uniphys /\ channel \in [Link!Uniphys -> [0 .. 3 -> 0 .. 5]]
  BY DEF Link!TypeOK
<1>2. Link!ModeAfter(u, mode) = (IF mode = "none" THEN uniphy ELSE [uniphy EXCEPT ![u] = mode])
  BY DEF Link!ModeAfter
<1>3. \/ Link!ChannelAfter(u, mode) = channel
      \/ Link!ChannelAfter(u, mode) = [channel EXCEPT ![u] = [c \in 0 .. 3 |-> 3]]
      \/ Link!ChannelAfter(u, mode) = [channel EXCEPT ![u][0] = 3]
  BY DEF Link!ChannelAfter
<1> QED  BY <1>1, <1>2, <1>3

LEMMA ProbeSteps ==
  ASSUME LinkInv, Link!Connect \/ Link!ProbeAgain
  PROVE  LinkInv'
<1>0. /\ Link!TypeOK /\ Blank /\ OneMode /\ Believed /\ Running /\ ReadOnce /\ Silent
      /\ Link!Ports = 1 .. Len(board.ports) /\ Len(board.ports) \in Nat \ {0}
  BY PortFacts DEF LinkInv, Link!TypeOK
<1>1. /\ NotStarted /\ whole = {} /\ phase' \notin {"start", "up"}
      /\ UNCHANGED <<board, active_port, cur_speed, tx_mac, xgmac, gmac, rate, reading, whole>>
  BY <1>0 DEF Link!Connect, Link!Following, Link!ProbeAgain, NotStarted, Blank, Link!hardware
<1>2. /\ Link!Ports' = Link!Ports /\ Link!Uniphys' = Link!Uniphys
      /\ \A p : Link!PhyId(p)' = Link!PhyId(p) /\ Link!Uniphy(p)' = Link!Uniphy(p)
                /\ Link!Offered(p)' = Link!Offered(p)
  BY <1>1, BoardStays
<1>3. Running' /\ ReadOnce' /\ Silent'
  <2>1. phase \notin {"start", "up"}
    BY <1>0, <1>1 DEF Blank
  <2> QED  BY <1>0, <1>1, <1>2, <2>1 DEF Running, ReadOnce, Silent
<1>4. CASE Link!ProbeAgain
  <2>1. /\ phase' = "off" /\ port' = 1 /\ connected' = {} /\ isconfigured = {}
        /\ cur_uniphy_mode' = [p \in Link!Ports |-> "PSGMII"] /\ cur_gmac_type' = [p \in Link!Ports |-> "GMAC"]
        /\ UNCHANGED <<isconfigured, uniphy, channel, mux>>
    BY <1>4 DEF Link!ProbeAgain, Link!hardware
  <2>2. Link!TypeOK'
    BY <1>0, <1>1, <1>2, <2>1 DEF Link!TypeOK
  <2>3. Blank'
    BY <1>0, <1>1, <1>2, <2>1 DEF Blank
  <2>4. OneMode' /\ Believed'
    BY <1>2, <2>1 DEF OneMode, Believed
  <2> QED  BY <1>3, <2>2, <2>3, <2>4 DEF LinkInv
<1>5. CASE Link!Connect
  <2> DEFINE type == Link!PhyId(port)
             mode == Link!FirstMode[type]
             u == Link!Uniphy(port)
             wide == {"QCA8x8x_PHY", "QCA81xx"}
  <2>1. /\ phase = "probe" /\ port' = port + 1 /\ port \in Link!Ports
        /\ phase' = (IF port = Len(board.ports) THEN "idle" ELSE phase)
        /\ connected' = connected \cup {port} /\ isconfigured' \in {isconfigured, isconfigured \cup {port}}
    BY <1>0, <1>5 DEF Link!Connect, Link!Following, Blank
  <2>2. u \in Link!Uniphys
    BY <1>0, <2>1, PortFacts DEF Link!TypeOK
  <2>3. /\ cur_uniphy_mode' = IF type \in DOMAIN Link!FirstMode THEN [cur_uniphy_mode EXCEPT ![port] = mode]
                              ELSE cur_uniphy_mode
        /\ IF type \in DOMAIN Link!FirstMode /\ Link!IsFirst(port)
           THEN uniphy' = Link!ModeAfter(u, mode) /\ channel' = Link!ChannelAfter(u, mode)
           ELSE UNCHANGED <<uniphy, channel>>
        /\ cur_gmac_type' = IF type \in wide THEN [cur_gmac_type EXCEPT ![port] = "XGMAC"] ELSE cur_gmac_type
        /\ mux' = IF type \in wide THEN [mux EXCEPT ![port] = "XGMAC"] ELSE mux
    BY <1>5 DEF Link!Connect, Link!ModeSet, Link!MuxSet
  <2>4. /\ DOMAIN uniphy' = Link!Uniphys /\ channel' \in [Link!Uniphys -> [0 .. 3 -> 0 .. 5]]
        /\ \A v \in Link!Uniphys : v # u => uniphy'[v] = uniphy[v]
    <3> HIDE DEF mode, u, type
    <3> QED  BY <1>0, <2>2, <2>3, ModeSetting DEF Link!TypeOK
  <2>5. /\ DOMAIN cur_uniphy_mode' = Link!Ports /\ DOMAIN cur_gmac_type' = Link!Ports
        /\ mux' \in [Link!Ports -> {"GMAC", "XGMAC"}]
    BY <1>0, <2>1, <2>3 DEF Link!TypeOK
  <2>6. /\ port' \in 1 .. Len(board.ports) + 1 /\ phase' \in {"probe", "idle"}
        /\ isconfigured' \subseteq connected' /\ connected' \subseteq Link!Ports
    BY <1>0, <2>1 DEF Link!TypeOK
  <2>7. Link!TypeOK'
    BY <1>0, <1>1, <1>2, <2>4, <2>5, <2>6 DEF Link!TypeOK
  <2>8. ASSUME NEW p \in Link!Ports, p # port
        PROVE  /\ cur_uniphy_mode'[p] = cur_uniphy_mode[p] /\ cur_gmac_type'[p] = cur_gmac_type[p]
               /\ mux'[p] = mux[p] /\ Link!Uniphy(p) \in Link!Uniphys
               /\ (p \in connected \/ Link!PhyId(p) \notin DOMAIN Link!FirstMode) =>
                    uniphy'[Link!Uniphy(p)] = uniphy[Link!Uniphy(p)]
    <3>1. board \in Boards /\ DOMAIN cur_uniphy_mode = Link!Ports /\ DOMAIN cur_gmac_type = Link!Ports
          /\ DOMAIN mux = Link!Ports
      BY <1>0 DEF Link!TypeOK
    <3>2. Link!Uniphy(p) \in Link!Uniphys
      BY <3>1, PortFacts
    <3>3. Link!Uniphy(p) = u => Link!PhyId(p) = type /\ type \in {"QCA8075", "QCA8x8x_PHY"}
      BY <2>1, <2>8, <3>1, PortFacts
    <3>4. ASSUME p \in connected \/ Link!PhyId(p) \notin DOMAIN Link!FirstMode
          PROVE  uniphy'[Link!Uniphy(p)] = uniphy[Link!Uniphy(p)]
      BY <2>3, <2>4, <3>2, <3>3, <3>4, FirstModes DEF Link!IsFirst
    <3> QED  BY <2>1, <2>3, <2>8, <3>1, <3>2, <3>4
  <2>9. /\ type \notin DOMAIN Link!FirstMode => UNCHANGED <<cur_uniphy_mode, uniphy>>
        /\ type \notin wide => UNCHANGED <<cur_gmac_type, mux>>
    BY <2>3
  <2>10. Blank'
    <3>1. phase' = "probe" => port' \in Link!Ports
      BY <1>0, <2>1
    <3>2. ASSUME NEW p \in Link!Ports, Link!PhyId(p) \notin DOMAIN Link!FirstMode
          PROVE  cur_uniphy_mode'[p] = "PSGMII" /\ uniphy'[Link!Uniphy(p)] = "reset"
      BY <1>0, <1>1, <2>8, <2>9, <3>2 DEF Blank
    <3>3. ASSUME NEW p \in Link!Ports, Link!PhyId(p) \notin wide
          PROVE  cur_gmac_type'[p] = "GMAC" /\ mux'[p] = "GMAC"
      BY <1>0, <1>1, <2>8, <2>9, <3>3 DEF Blank
    <3> QED  BY <1>1, <1>2, <2>6, <3>1, <3>2, <3>3 DEF Blank
  <2>11. OneMode'
    <3>1. ASSUME NEW p \in Link!Ports, Link!PhyId(p) = "QCA8075" PROVE cur_uniphy_mode'[p] = "PSGMII"
      BY <1>0, <2>8, <2>9, <3>1, FirstModes DEF OneMode
    <3>2. ASSUME NEW p \in Link!Ports, Link!PhyId(p) = "QCA8x8x_PHY", p \in connected'
          PROVE  cur_uniphy_mode'[p] = "UQXGMII"
      BY <1>0, <2>1, <2>3, <2>8, <3>2, FirstModes DEF OneMode, Link!TypeOK
    <3> QED  BY <1>2, <3>1, <3>2 DEF OneMode
  <2>12. ASSUME NEW p \in connected'
         PROVE  /\ \/ cur_uniphy_mode'[p] \in {uniphy'[Link!Uniphy(p)], "none"}
                   \/ cur_uniphy_mode'[p] = "PSGMII" /\ uniphy'[Link!Uniphy(p)] = "reset"
                /\ cur_gmac_type'[p] \in {mux'[p], "none"}
    <3>1. CASE p # port
      <4>1. p \in connected /\ p \in Link!Ports
        BY <1>0, <2>1, <3>1 DEF Link!TypeOK
      <4> QED  BY <1>0, <2>8, <3>1, <4>1 DEF Believed
    <3>2. CASE p = port
      <4>1. cur_gmac_type'[p] \in {mux'[p], "none"}
        BY <1>0, <1>1, <2>1, <2>3, <2>9, <3>2 DEF Blank, Link!TypeOK
      <4>2. CASE type \notin DOMAIN Link!FirstMode
        BY <1>0, <1>1, <2>1, <2>9, <3>2, <4>1, <4>2 DEF Blank
      <4>3. CASE type \in DOMAIN Link!FirstMode
        <5>1. cur_uniphy_mode'[p] = mode /\ mode # "none"
          BY <1>0, <2>1, <2>3, <3>2, <4>3, FirstModes DEF Link!TypeOK
        <5>2. CASE Link!IsFirst(port)
          <6> HIDE DEF mode, u, type
          <6>1. uniphy'[u] = mode
            BY <1>0, <2>2, <2>3, <4>3, <5>1, <5>2, ModeSetting
          <6> QED  BY <3>2, <4>1, <5>1, <6>1 DEF u
        <5>3. CASE ~Link!IsFirst(port)
          <6>1. PICK q \in connected : Link!PhyId(q) = "QCA8x8x_PHY" /\ type = "QCA8x8x_PHY"
            BY <5>3 DEF Link!IsFirst
          <6>2. q \in Link!Ports /\ Link!Uniphy(q) = u
            BY <1>0, <2>1, <6>1, PortFacts DEF Link!TypeOK
          <6>3. uniphy[u] = "UQXGMII"
            BY <1>0, <6>1, <6>2 DEF Believed, OneMode
          <6> QED  BY <2>3, <3>2, <4>1, <5>1, <5>3, <6>1, <6>3, FirstModes
        <5> QED  BY <5>2, <5>3
      <4> QED  BY <4>2, <4>3
    <3> QED  BY <3>1, <3>2
  <2>13. Believed'
    BY <1>2, <2>12 DEF Believed
  <2> QED  BY <1>3, <2>7, <2>10, <2>11, <2>13 DEF LinkInv
<1> QED  BY <1>4, <1>5

\* What a step of the start loop does to the port it is at decides whether
\* the loop's own account of the links stays true.
LEMMA LoopMoves ==
  ASSUME LinkInv, phase = "start", Link!Done,
         \A p \in Link!Ports : p # port =>
           cur_speed'[p] = cur_speed[p] /\ reading'[p] = reading[p] /\ (p \in tx_mac' => p \in tx_mac),
         port \in connected => Link!Chosen(port) \/ port \notin tx_mac',
         reading'[port] # NotRead /\ reading'[port].link =>
           cur_speed'[port] = reading'[port].speed /\ reading'[port].speed \in Link!Offered(port)
  PROVE  /\ port \in Link!Ports /\ port' \in 1 .. Len(board.ports) + 1 /\ phase' \in {"start", "up"}
         /\ Blank' /\ ReadOnce' /\ Silent'
<1>0. /\ Link!TypeOK /\ Blank /\ ReadOnce /\ Silent
      /\ Link!Ports = 1 .. Len(board.ports) /\ Len(board.ports) \in Nat \ {0}
  BY PortFacts DEF LinkInv, Link!TypeOK
<1>1. /\ port' = port + 1 /\ phase' = (IF port = Len(board.ports) THEN "up" ELSE "start")
      /\ UNCHANGED <<board, active_port, connected, isconfigured>>
  BY DEF Link!Done
<1>2. port \in Link!Ports /\ isconfigured # {}
  BY <1>0 DEF Blank, NotStarted
<1>3. port' \in 1 .. Len(board.ports) + 1 /\ (phase' = "start" => port' \in Link!Ports)
  BY <1>0, <1>1, <1>2
<1>4. Link!Ports' = Link!Ports /\ \A p : Link!Offered(p)' = Link!Offered(p)
  BY <1>1, BoardStays
<1>5. Blank'
  BY <1>1, <1>2, <1>3, <1>4 DEF Blank, NotStarted
<1>6. ASSUME NEW p \in Link!Ports
      PROVE  /\ phase' \notin {"start", "up"} \/ (phase' = "start" /\ p >= port') => reading'[p] = NotRead
             /\ reading'[p] # NotRead /\ reading'[p].link =>
                  cur_speed'[p] = reading'[p].speed /\ reading'[p].speed \in Link!Offered(p)
  <2>1. CASE p = port
    BY <1>0, <1>1, <1>2, <2>1
  <2>2. CASE p # port
    BY <1>0, <1>1, <1>2, <2>2 DEF ReadOnce
  <2> QED  BY <2>1, <2>2
<1>7. ReadOnce'
  BY <1>4, <1>6 DEF ReadOnce
<1>8. ASSUME NEW p \in connected, phase' = "up" \/ (phase' = "start" /\ p < port')
      PROVE  Link!Chosen(p) \/ p \notin tx_mac'
  <2>1. p \in Link!Ports
    BY <1>0 DEF Link!TypeOK
  <2>2. CASE p = port
    BY <2>2
  <2>3. CASE p # port
    <3>1. p < port
      BY <1>0, <1>1, <1>2, <1>8, <2>1, <2>3
    <3> QED  BY <1>0, <2>1, <2>3, <3>1 DEF Silent
  <2> QED  BY <2>2, <2>3
<1>9. Silent'
  BY <1>1, <1>8 DEF Silent, Link!Chosen
<1> QED  BY <1>1, <1>2, <1>3, <1>5, <1>7, <1>9

LEMMA LeaveSteps ==
  ASSUME LinkInv, Link!Leave
  PROVE  LinkInv'
<1>0. /\ Link!TypeOK /\ OneMode /\ Believed /\ Running /\ ReadOnce
      /\ port \in Link!Ports
  BY DEF LinkInv, Link!Leave, Blank
<1>1. /\ phase = "start" /\ port \in connected /\ Link!Done
      /\ tx_mac' = tx_mac \ {port} /\ cur_speed' = [cur_speed EXCEPT ![port] = 0]
      /\ whole' = whole \ {port}
      /\ UNCHANGED <<board, active_port, connected, isconfigured>>
      /\ UNCHANGED <<cur_uniphy_mode, cur_gmac_type, uniphy, channel, mux, xgmac, gmac, rate, reading>>
  BY DEF Link!Leave, Link!Done
<1>2. \A p \in Link!Ports : p # port => cur_speed'[p] = cur_speed[p] /\ (p \in tx_mac' <=> p \in tx_mac)
  BY <1>0, <1>1 DEF Link!TypeOK
<1>3. reading[port] = NotRead
  BY <1>0, <1>1 DEF ReadOnce, Link!TypeOK
<1>4. /\ port' \in 1 .. Len(board.ports) + 1 /\ phase' \in {"start", "up"}
      /\ Blank' /\ ReadOnce' /\ Silent'
  BY <1>1, <1>2, <1>3, LoopMoves
<1>5. /\ Link!Ports' = Link!Ports /\ Link!Uniphys' = Link!Uniphys
      /\ \A p : Link!PhyId(p)' = Link!PhyId(p) /\ Link!Uniphy(p)' = Link!Uniphy(p)
                /\ Link!Offered(p)' = Link!Offered(p)
  BY <1>1, BoardStays
<1>6. cur_speed' \in [Link!Ports -> Speeds \cup {0}] /\ tx_mac' \subseteq Link!Ports /\ whole' \subseteq Link!Ports
  BY <1>0, <1>1 DEF Link!TypeOK
<1>7. Link!TypeOK'
  BY <1>0, <1>1, <1>4, <1>5, <1>6 DEF Link!TypeOK
<1>8. OneMode' /\ Believed'
  BY <1>0, <1>1, <1>5 DEF OneMode, Believed
<1>9. ASSUME NEW p \in whole'
      PROVE  p \in connected /\ RunsAsBelieved(p)'
  <2>1. p \in whole /\ p # port /\ p \in Link!Ports /\ p \in connected /\ RunsAsBelieved(p)
    BY <1>0, <1>1 DEF Running, Link!TypeOK
  <2> QED  BY <1>1, <1>2, <2>1, RunsOn
<1>10. Running'
  BY <1>1, <1>9 DEF Running
<1> QED  BY <1>4, <1>7, <1>8, <1>10 DEF LinkInv

\* A link is read: the loop's own account of it.
LEMMA ReadSteps ==
  ASSUME LinkInv, NEW r, Link!Read(r), cur_speed' = [cur_speed EXCEPT ![port] = r.speed],
         \A p \in Link!Ports : p # port => (p \in tx_mac' => p \in tx_mac)
  PROVE  /\ port \in connected /\ port \in Link!Ports /\ r.speed \in Link!Offered(port) \cup {10}
         /\ port' \in 1 .. Len(board.ports) + 1 /\ phase' \in {"start", "up"}
         /\ UNCHANGED <<board, active_port, connected, isconfigured>> /\ DOMAIN reading' = Link!Ports
         /\ Blank' /\ ReadOnce' /\ Silent'
<1>1. /\ phase = "start" /\ Link!Chosen(port) /\ Link!Done /\ reading' = [reading EXCEPT ![port] = r]
      /\ r.speed \in (IF r.link THEN Link!Offered(port) ELSE {10})
  BY DEF Link!Read
<1>2. DOMAIN reading = Link!Ports /\ DOMAIN cur_speed = Link!Ports /\ port \in Link!Ports
  BY <1>1 DEF LinkInv, Link!TypeOK, Blank
<1>3. /\ \A p \in Link!Ports : p # port =>
           cur_speed'[p] = cur_speed[p] /\ reading'[p] = reading[p] /\ (p \in tx_mac' => p \in tx_mac)
      /\ reading'[port] = r /\ cur_speed'[port] = r.speed /\ DOMAIN reading' = Link!Ports
  BY <1>1, <1>2
<1>4. /\ port' \in 1 .. Len(board.ports) + 1 /\ phase' \in {"start", "up"}
      /\ Blank' /\ ReadOnce' /\ Silent'
  BY <1>1, <1>3, LoopMoves
<1> QED  BY <1>1, <1>2, <1>3, <1>4 DEF Link!Chosen, Link!Done

LEMMA UnchangedSteps ==
  ASSUME LinkInv, NEW r, Link!Unchanged(r)
  PROVE  LinkInv'
<1> USE DEF Link!driver, Link!hardware
<1>0. Link!TypeOK /\ Link!Read(r) /\ cur_speed[port] = r.speed
  BY DEF LinkInv, Link!Unchanged
<1>1. UNCHANGED <<cur_speed, cur_uniphy_mode, cur_gmac_type, uniphy, channel, mux, tx_mac, xgmac, gmac, rate, whole>>
  BY DEF Link!Unchanged
<1>2. cur_speed' = [cur_speed EXCEPT ![port] = r.speed]
  BY <1>0, <1>1 DEF Link!TypeOK
<1>3. /\ port' \in 1 .. Len(board.ports) + 1 /\ phase' \in {"start", "up"}
      /\ UNCHANGED <<board, active_port, connected, isconfigured>> /\ DOMAIN reading' = Link!Ports
      /\ Blank' /\ ReadOnce' /\ Silent'
  BY <1>0, <1>1, <1>2, ReadSteps
<1>4. Link!Ports' = Link!Ports /\ Link!Uniphys' = Link!Uniphys
  BY <1>3, BoardStays
<1>5. Link!TypeOK'
  BY <1>0, <1>1, <1>3, <1>4 DEF Link!TypeOK
<1> QED  BY <1>1, <1>3, <1>5, PortsStay DEF LinkInv

\* What setting up the port that is its turn does to the others: nothing they
\* can tell.
OthersKeep ==
  \A p \in Link!Ports : p # port =>
    /\ cur_uniphy_mode'[p] = cur_uniphy_mode[p] /\ cur_gmac_type'[p] = cur_gmac_type[p]
    /\ cur_speed'[p] = cur_speed[p] /\ mux'[p] = mux[p] /\ (p \in tx_mac' <=> p \in tx_mac)
    /\ xgmac'[p] = xgmac[p] /\ gmac'[p] = gmac[p] /\ rate'[p] = rate[p]
    /\ uniphy'[Link!Uniphy(p)] = uniphy[Link!Uniphy(p)]
    /\ \/ channel'[Link!Uniphy(p)][Link!Channel(p)] = channel[Link!Uniphy(p)][Link!Channel(p)]
       \/ \A s \in Link!Offered(p) : Link!Mode(p, s) \notin Link!Fast

\* The mode a port's serdes is set to, if it is set: never when another port
\* shares the serdes.
LEMMA SharedSerdes ==
  ASSUME LinkInv, port \in connected, NEW s \in Link!Offered(port) \cup {10},
         NEW p \in Link!Ports, p # port
  PROVE  /\ Link!Uniphy(p) = Link!Uniphy(port) => cur_uniphy_mode[port] = Link!Mode(port, s)
         /\ \/ Link!Uniphy(p) # Link!Uniphy(port) \/ Link!Channel(p) # Link!Channel(port)
            \/ \A t \in Link!Offered(p) : Link!Mode(p, t) \notin Link!Fast
<1>1. board \in Boards /\ port \in Link!Ports /\ OneMode
  BY DEF LinkInv, Link!TypeOK
<1>2. ASSUME Link!Uniphy(p) = Link!Uniphy(port)
      PROVE  /\ cur_uniphy_mode[port] = Link!Mode(port, s)
             /\ \/ Link!Channel(p) # Link!Channel(port)
                \/ \A t \in Link!Offered(p) : Link!Mode(p, t) \notin Link!Fast
  <2>1. Link!PhyId(p) = Link!PhyId(port) /\ Link!PhyId(port) \in {"QCA8075", "QCA8x8x_PHY"}
    BY <1>1, <1>2, PortFacts
  <2>2. CASE Link!PhyId(port) = "QCA8075"
    <3>1. cur_uniphy_mode[port] = "PSGMII" /\ Link!Mode(port, s) = "PSGMII"
      BY <1>1, <2>2, ModeFacts DEF OneMode
    <3>2. \A t \in Link!Offered(p) : Link!Mode(p, t) = "PSGMII"
      BY <1>1, <2>1, <2>2, ModeFacts
    <3> QED  BY <3>1, <3>2 DEF Link!Fast
  <2>3. CASE Link!PhyId(port) = "QCA8x8x_PHY"
    <3>1. cur_uniphy_mode[port] = "UQXGMII" /\ Link!Mode(port, s) = "UQXGMII"
      BY <1>1, <2>3, ModeFacts DEF OneMode
    <3>2. Link!Channel(p) # Link!Channel(port)
      BY <1>1, <2>1, <2>3, PortFacts
    <3> QED  BY <3>1, <3>2
  <2> QED  BY <2>1, <2>2, <2>3
<1> QED  BY <1>2

\* What a set-up does to the serdes and its channels.
LEMMA SerdesSet ==
  ASSUME LinkInv, NEW r, Link!SetUpRuns(r) \/ Link!SetUpFails(r)
  PROVE  LET mode == Link!Mode(port, r.speed)
             u == Link!Uniphy(port)
             c == Link!Channel(port)
         IN /\ DOMAIN uniphy' = Link!Uniphys /\ channel' \in [Link!Uniphys -> [0 .. 3 -> 0 .. 5]]
            /\ cur_uniphy_mode[port] = mode =>
                 uniphy' = uniphy /\ \A d \in 0 .. 3 : d # c => channel'[u][d] = channel[u][d]
            /\ cur_uniphy_mode[port] # mode /\ mode # "none" => uniphy'[u] = mode
            /\ \A v \in Link!Uniphys : v # u => uniphy'[v] = uniphy[v] /\ channel'[v] = channel[v]
            /\ Link!SetUpRuns(r) /\ mode \in Link!Fast =>
                 channel'[u][c] = Link!MacSpeed(r.speed, board.ports[port].xgmac)
<1> DEFINE mode == Link!Mode(port, r.speed)
           u == Link!Uniphy(port)
           c == Link!Channel(port)
           index == Link!MacSpeed(r.speed, board.ports[port].xgmac)
           begun == IF cur_uniphy_mode[port] # mode THEN Link!ChannelAfter(u, mode) ELSE channel
<1>1. /\ Link!TypeOK /\ board \in Boards /\ port \in Link!Ports
      /\ DOMAIN uniphy = Link!Uniphys /\ channel \in [Link!Uniphys -> [0 .. 3 -> 0 .. 5]]
  BY DEF LinkInv, Link!TypeOK, Blank, Link!SetUpRuns, Link!SetUpFails, Link!SetUp, Link!Read
<1>2. u \in Link!Uniphys /\ c \in 0 .. 3 /\ index \in 0 .. 5
  BY <1>1, PortFacts, ModeFacts
<1>3. /\ uniphy' = (IF cur_uniphy_mode[port] # mode THEN Link!ModeAfter(u, mode) ELSE uniphy)
      /\ \/ channel' = (IF mode \in Link!Fast THEN [begun EXCEPT ![u][c] = index] ELSE begun)
         \/ ~Link!SetUpRuns(r) /\ channel' = begun
  BY DEF Link!SetUpRuns, Link!SetUpFails, Link!SpeedSet, Link!Serdes, Link!ModeSet
<1> HIDE DEF mode, u, c, index
<1>4. /\ DOMAIN Link!ModeAfter(u, mode) = Link!Uniphys
      /\ Link!ChannelAfter(u, mode) \in [Link!Uniphys -> [0 .. 3 -> 0 .. 5]]
      /\ Link!ModeAfter(u, mode)[u] = IF mode = "none" THEN uniphy[u] ELSE mode
      /\ \A v \in Link!Uniphys : v # u =>
           Link!ModeAfter(u, mode)[v] = uniphy[v] /\ Link!ChannelAfter(u, mode)[v] = channel[v]
  BY <1>1, <1>2, ModeSetting
<1>5. /\ begun \in [Link!Uniphys -> [0 .. 3 -> 0 .. 5]]
      /\ cur_uniphy_mode[port] = mode => begun = channel
      /\ \A v \in Link!Uniphys : v # u => begun[v] = channel[v]
  BY <1>1, <1>4
<1> HIDE DEF begun
<1>6. /\ channel' \in [Link!Uniphys -> [0 .. 3 -> 0 .. 5]]
      /\ \A v \in Link!Uniphys : v # u => channel'[v] = channel[v]
      /\ \A d \in 0 .. 3 : d # c => channel'[u][d] = begun[u][d]
      /\ Link!SetUpRuns(r) /\ mode \in Link!Fast => channel'[u][c] = index
  BY <1>2, <1>3, <1>5
<1>7. /\ DOMAIN uniphy' = Link!Uniphys
      /\ cur_uniphy_mode[port] = mode => uniphy' = uniphy
      /\ cur_uniphy_mode[port] # mode /\ mode # "none" => uniphy'[u] = mode
      /\ \A v \in Link!Uniphys : v # u => uniphy'[v] = uniphy[v]
  BY <1>1, <1>3, <1>4
<1> QED  BY <1>5, <1>6, <1>7 DEF mode, u, c, index

LEMMA SetUpKeeps ==
  ASSUME LinkInv, NEW r \in [link : BOOLEAN, speed : Speeds], Link!SetUpRuns(r) \/ Link!SetUpFails(r)
  PROVE  /\ OthersKeep /\ Link!TypeOK' /\ Blank' /\ ReadOnce' /\ Silent'
         /\ port \in connected /\ port \in Link!Ports /\ r.speed \in Link!Offered(port) \cup {10}
         /\ UNCHANGED <<board, connected>>
         /\ cur_speed' = [cur_speed EXCEPT ![port] = r.speed]
         /\ cur_uniphy_mode'[port] = Link!Mode(port, r.speed)
<1>0. Link!TypeOK /\ board \in Boards
  BY DEF LinkInv, Link!TypeOK
<1>1. Link!SetUp(r)
  BY DEF Link!SetUpRuns, Link!SetUpFails
<1>2. /\ Link!Read(r) /\ cur_speed' = [cur_speed EXCEPT ![port] = r.speed]
      /\ cur_uniphy_mode' = [cur_uniphy_mode EXCEPT ![port] = Link!Mode(port, r.speed)]
  BY <1>1 DEF Link!SetUp
<1>3. \E mac : /\ cur_gmac_type' \in {cur_gmac_type, [cur_gmac_type EXCEPT ![port] = mac]}
               /\ mux' \in {mux, [mux EXCEPT ![port] = IF mac = "GMAC" THEN mac ELSE "XGMAC"]}
  BY DEF Link!SetUpRuns, Link!SetUpFails, Link!GmacType, Link!MuxSet
<1>4. tx_mac' \in {tx_mac, tx_mac \cup {port}} /\ whole' \in {whole \ {port}, whole \cup {port}}
  BY DEF Link!SetUpRuns, Link!SetUpFails, Link!MacSet
<1>5. \A p \in Link!Ports : p # port => (p \in tx_mac' <=> p \in tx_mac)
  BY <1>4
<1>6. /\ port \in connected /\ port \in Link!Ports /\ r.speed \in Link!Offered(port) \cup {10}
      /\ port' \in 1 .. Len(board.ports) + 1 /\ phase' \in {"start", "up"}
      /\ UNCHANGED <<board, active_port, connected, isconfigured>> /\ DOMAIN reading' = Link!Ports
      /\ Blank' /\ ReadOnce' /\ Silent'
  BY <1>2, <1>5, ReadSteps
<1>7. Link!MacSpeed(r.speed, board.ports[port].xgmac) \in 0 .. 5
  BY <1>0, <1>6, ModeFacts
<1>8. /\ \E h : rate' = [rate EXCEPT ![port] = h]
      /\ \E b \in SUBSET {29, 30}, k \in 0 .. 5 :
           xgmac' \in {xgmac, [xgmac EXCEPT ![port] = b]} /\ gmac' \in {gmac, [gmac EXCEPT ![port] = k]}
  <2>1. CASE Link!SetUpFails(r)
    BY <1>7, <2>1 DEF Link!SetUpFails
  <2>2. CASE Link!SetUpRuns(r)
    <3> DEFINE mac == Link!MacMode(port, r.speed)
               b == Link!MacReset(port) \cup
                      IF mac = "XGMAC"
                      THEN Link!SpeedBits(Link!Mode(port, r.speed), Link!MacSpeed(r.speed, board.ports[port].xgmac))
                      ELSE {}
    <3>1. b \in SUBSET {29, 30}
      BY DEF Link!MacReset, Link!SpeedBits
    <3>2. /\ xgmac' = [xgmac EXCEPT ![port] = b]
          /\ gmac' \in {gmac, [gmac EXCEPT ![port] = Link!MacSpeed(r.speed, board.ports[port].xgmac)]}
          /\ rate' = [rate EXCEPT ![port] = Link!ClkRate(port, r.speed)]
      BY <2>2 DEF Link!SetUpRuns, Link!MacSet
    <3> HIDE DEF b
    <3> QED  BY <1>7, <3>1, <3>2
  <2> QED  BY <2>1, <2>2
<1>9. /\ Link!Ports' = Link!Ports /\ Link!Uniphys' = Link!Uniphys
  BY <1>6, BoardStays
<1>10. /\ xgmac' \in [Link!Ports -> SUBSET {29, 30}] /\ gmac' \in [Link!Ports -> 0 .. 5]
       /\ tx_mac' \subseteq Link!Ports /\ whole' \subseteq Link!Ports
       /\ \A p \in Link!Ports : p # port => xgmac'[p] = xgmac[p] /\ gmac'[p] = gmac[p]
  <2>1. PICK b \in SUBSET {29, 30}, k \in 0 .. 5 :
          xgmac' \in {xgmac, [xgmac EXCEPT ![port] = b]} /\ gmac' \in {gmac, [gmac EXCEPT ![port] = k]}
    BY <1>8
  <2>2. /\ xgmac \in [Link!Ports -> SUBSET {29, 30}] /\ gmac \in [Link!Ports -> 0 .. 5]
        /\ tx_mac \subseteq Link!Ports /\ whole \subseteq Link!Ports
    BY <1>0 DEF Link!TypeOK
  <2>3. /\ xgmac' \in [Link!Ports -> SUBSET {29, 30}]
        /\ \A p \in Link!Ports : p # port => xgmac'[p] = xgmac[p]
    <3> DEFINE bits == SUBSET {29, 30}
    <3>1. port \in Link!Ports /\ b \in bits /\ xgmac \in [Link!Ports -> bits]
      BY <1>6, <2>2
    <3> HIDE DEF bits
    <3>2. /\ xgmac' \in [Link!Ports -> bits]
          /\ \A p \in Link!Ports : p # port => xgmac'[p] = xgmac[p]
      BY ONLY <2>1, <3>1
    <3> QED  BY <3>2 DEF bits
  <2>4. gmac' \in [Link!Ports -> 0 .. 5] /\ \A p \in Link!Ports : p # port => gmac'[p] = gmac[p]
    BY ONLY <1>6, <2>1, <2>2
  <2>5. tx_mac' \subseteq Link!Ports /\ whole' \subseteq Link!Ports
    BY ONLY <1>4, <1>6, <2>2
  <2> QED  BY <2>3, <2>4, <2>5
<1>11. /\ DOMAIN cur_uniphy_mode' = Link!Ports /\ DOMAIN cur_gmac_type' = Link!Ports
       /\ mux' \in [Link!Ports -> {"GMAC", "XGMAC"}] /\ cur_speed' \in [Link!Ports -> Speeds \cup {0}]
       /\ \A p \in Link!Ports : p # port =>
            /\ cur_uniphy_mode'[p] = cur_uniphy_mode[p] /\ cur_gmac_type'[p] = cur_gmac_type[p]
            /\ cur_speed'[p] = cur_speed[p] /\ mux'[p] = mux[p]
       /\ cur_uniphy_mode'[port] = Link!Mode(port, r.speed)
  BY <1>0, <1>2, <1>3, <1>6 DEF Link!TypeOK
<1>12. /\ DOMAIN uniphy' = Link!Uniphys /\ channel' \in [Link!Uniphys -> [0 .. 3 -> 0 .. 5]]
       /\ DOMAIN rate' = Link!Ports /\ \A p \in Link!Ports : p # port => rate'[p] = rate[p]
  BY <1>0, <1>6, <1>8, SerdesSet DEF Link!TypeOK
<1>13. Link!TypeOK'
  BY <1>0, <1>6, <1>9, <1>10, <1>11, <1>12 DEF Link!TypeOK
<1>14. ASSUME NEW p \in Link!Ports, p # port
       PROVE  /\ uniphy'[Link!Uniphy(p)] = uniphy[Link!Uniphy(p)]
              /\ \/ channel'[Link!Uniphy(p)][Link!Channel(p)] = channel[Link!Uniphy(p)][Link!Channel(p)]
                 \/ \A s \in Link!Offered(p) : Link!Mode(p, s) \notin Link!Fast
  <2>1. Link!Uniphy(p) \in Link!Uniphys /\ Link!Channel(p) \in 0 .. 3
    BY <1>0, PortFacts
  <2>2. CASE Link!Uniphy(p) # Link!Uniphy(port)
    BY <2>1, <2>2, SerdesSet
  <2>3. CASE Link!Uniphy(p) = Link!Uniphy(port)
    <3>1. /\ cur_uniphy_mode[port] = Link!Mode(port, r.speed)
          /\ \/ Link!Channel(p) # Link!Channel(port)
             \/ \A s \in Link!Offered(p) : Link!Mode(p, s) \notin Link!Fast
      BY <1>6, <1>14, <2>3, SharedSerdes
    <3> QED  BY <2>1, <2>3, <3>1, SerdesSet
  <2> QED  BY <2>2, <2>3
<1>15. OthersKeep
  BY <1>5, <1>10, <1>11, <1>12, <1>14 DEF OthersKeep
<1> QED  BY <1>2, <1>6, <1>11, <1>13, <1>15

LEMMA SetUpSteps ==
  ASSUME LinkInv, NEW r \in [link : BOOLEAN, speed : Speeds], Link!SetUpRuns(r) \/ Link!SetUpFails(r)
  PROVE  LinkInv'
<1> DEFINE mode == Link!Mode(port, r.speed)
           mac == Link!MacMode(port, r.speed)
           index == Link!MacSpeed(r.speed, board.ports[port].xgmac)
           u == Link!Uniphy(port)
<1>1. /\ OthersKeep /\ Link!TypeOK' /\ Blank' /\ ReadOnce' /\ Silent'
      /\ port \in connected /\ port \in Link!Ports /\ r.speed \in Link!Offered(port) \cup {10}
      /\ UNCHANGED <<board, connected>>
      /\ cur_speed' = [cur_speed EXCEPT ![port] = r.speed] /\ cur_uniphy_mode'[port] = mode
  BY SetUpKeeps
<1>2. Link!TypeOK /\ board \in Boards /\ OneMode /\ Believed /\ Running
  BY DEF LinkInv, Link!TypeOK
<1>3. /\ Link!Ports' = Link!Ports
      /\ \A p : Link!PhyId(p)' = Link!PhyId(p) /\ Link!Uniphy(p)' = Link!Uniphy(p)
  BY <1>1, BoardStays
<1>4. /\ mac \in {"GMAC", "XGMAC", "none"}
      /\ Link!PhyId(port) = "QCA8x8x_PHY" => mode = "UQXGMII"
      /\ Link!PhyId(port) = "QCA8075" => mode = "PSGMII"
      /\ r.speed \in Link!Offered(port) => mode # "none" /\ mac \in {"GMAC", "XGMAC"}
  BY <1>1, <1>2, ModeFacts
<1>5. /\ cur_uniphy_mode[port] = mode => uniphy' = uniphy
      /\ cur_uniphy_mode[port] # mode /\ mode # "none" => uniphy'[u] = mode
      /\ Link!SetUpRuns(r) /\ mode \in Link!Fast => channel'[u][Link!Channel(port)] = index
  BY SerdesSet
<1>6. \/ /\ Link!SetUpFails(r) /\ UNCHANGED <<cur_gmac_type, mux>> /\ port \notin whole'
         /\ \A p : p # port => (p \in whole' => p \in whole)
      \/ /\ Link!SetUpRuns(r) /\ cur_gmac_type' = [cur_gmac_type EXCEPT ![port] = mac]
         /\ cur_gmac_type[port] # mac => mux' = [mux EXCEPT ![port] = IF mac = "GMAC" THEN mac ELSE "XGMAC"]
         /\ cur_gmac_type[port] = mac => mux' = mux
         /\ \A p : p # port => (p \in whole' => p \in whole)
  BY DEF Link!SetUpFails, Link!SetUpRuns, Link!GmacType, Link!MuxSet
<1>7. mode = "none" \/ uniphy'[u] = mode \/ (mode = "PSGMII" /\ uniphy'[u] = "reset")
  BY <1>1, <1>2, <1>5 DEF Believed
<1>8. /\ cur_gmac_type'[port] \in {mux'[port], "none"}
      /\ port \in whole' /\ mac # "none" => mux'[port] = mac
  BY <1>1, <1>2, <1>4, <1>6 DEF Believed, Link!TypeOK
<1>9. OneMode'
  BY <1>1, <1>2, <1>3, <1>4 DEF OneMode, OthersKeep
<1>10. Believed'
  <2>1. ASSUME NEW p \in connected
        PROVE  /\ \/ cur_uniphy_mode'[p] \in {uniphy'[Link!Uniphy(p)], "none"}
                  \/ cur_uniphy_mode'[p] = "PSGMII" /\ uniphy'[Link!Uniphy(p)] = "reset"
               /\ cur_gmac_type'[p] \in {mux'[p], "none"}
    <3>1. CASE p = port
      BY <1>1, <1>7, <1>8, <3>1
    <3>2. CASE p # port
      <4>1. p \in Link!Ports
        BY <1>2 DEF Link!TypeOK
      <4> QED  BY <1>2, <1>1, <3>2, <4>1 DEF Believed, OthersKeep
    <3> QED  BY <3>1, <3>2
  <2> QED  BY <1>1, <1>3, <2>1 DEF Believed
<1>11. ASSUME NEW p \in whole'
       PROVE  p \in connected /\ RunsAsBelieved(p)'
  <2>1. CASE p = port
    <3>1. Link!SetUpRuns(r) /\ cur_speed'[port] = r.speed
      BY <1>1, <1>2, <1>6, <1>11, <2>1 DEF Link!TypeOK
    <3>2. PICK s : s = r.speed
      OBVIOUS
    <3>3. ASSUME s \in Link!Offered(port)
          PROVE  Link!RunsAt(p, s)'
      <4>1. /\ mode # "none" /\ mac \in {"GMAC", "XGMAC"}
            /\ uniphy'[u] = mode \/ (mode = "PSGMII" /\ uniphy'[u] = "reset")
        BY <1>4, <1>7, <3>2, <3>3
      <4>2. mux'[port] = mac
        BY <1>8, <1>11, <2>1, <4>1
      <4>3. /\ port \in tx_mac' /\ rate'[port] = Link!ClkRate(port, s)
            /\ IF mac = "XGMAC" THEN xgmac'[port] = Link!SpeedBits(mode, index) ELSE gmac'[port] = index
        BY <1>1, <1>2, <3>1, <3>2 DEF Link!SetUpRuns, Link!MacSet, Link!MacReset, Link!TypeOK
      <4>4. mode \in Link!Fast => channel'[u][Link!Channel(port)] = index
        BY <1>5, <3>1
      <4> DEFINE at == Link!MacSpeed(s, board.ports[p].xgmac)
      <4>5. at' = index
        BY <1>1, <2>1, <3>2 DEF Link!MacSpeed
      <4>6. /\ Link!Mode(p, s)' = mode /\ Link!MacMode(p, s)' = mac
            /\ Link!ClkRate(p, s)' = Link!ClkRate(port, s)
            /\ Link!Uniphy(p)' = u /\ Link!Channel(p)' = Link!Channel(port)
        BY <1>1, <2>1, <3>2, BoardStays
      <4>7. Link!SpeedBits(Link!Mode(p, s), at)' = Link!SpeedBits(mode, index)
        BY <4>5, <4>6 DEF Link!SpeedBits
      <4> HIDE DEF mode, mac, index, u, at
      <4> QED  BY ONLY <2>1, <4>1, <4>2, <4>3, <4>4, <4>5, <4>6, <4>7 DEF Link!RunsAt, at
    <3>4. Link!Offered(p)' = Link!Offered(p)
      BY <1>1, BoardStays
    <3> QED  BY <1>1, <2>1, <3>1, <3>2, <3>3, <3>4 DEF RunsAsBelieved, Link!RunsAt
  <2>2. CASE p # port
    <3>1. p \in whole /\ p \in connected /\ RunsAsBelieved(p) /\ p \in Link!Ports
      BY <1>2, <1>6, <1>11, <2>2 DEF Running, Link!TypeOK
    <3> QED  BY <1>1, <2>2, <3>1, RunsOn DEF OthersKeep
  <2> QED  BY <2>1, <2>2
<1>12. Running'
  BY <1>1, <1>11 DEF Running
<1> QED  BY <1>1, <1>9, <1>10, <1>12 DEF LinkInv

LEMMA LinkStep == LinkInv /\ [Link!Next]_Link!vars => LinkInv'
<1> SUFFICES ASSUME LinkInv, Link!Next \/ UNCHANGED Link!vars PROVE LinkInv'
  OBVIOUS
<1>1. CASE \/ Link!Probe \/ Link!NotConnected \/ Link!Stop \/ Link!Skip
           \/ \E a \in Link!Ports \cup {All} : Link!Start(a)
           \/ UNCHANGED Link!vars
  BY <1>1, LinkSteps
<1>2. CASE Link!Connect \/ Link!ProbeAgain
  BY <1>2, ProbeSteps
<1>3. CASE Link!Leave
  BY <1>3, LeaveSteps
<1>4. CASE \E r \in [link : BOOLEAN, speed : Speeds] :
             Link!Unchanged(r) \/ Link!SetUpRuns(r) \/ Link!SetUpFails(r)
  BY <1>4, UnchangedSteps, SetUpSteps
<1> QED  BY <1>1, <1>2, <1>3, <1>4 DEF Link!Next

LEMMA Follows == LinkInv => PortsFollowLinks
<1> SUFFICES ASSUME LinkInv, phase = "up", NEW p \in Link!Ports
             PROVE  /\ reading[p] # NotRead /\ reading[p].link /\ p \in whole => Link!RunsAt(p, reading[p].speed)
                    /\ p \in connected /\ ~Link!Chosen(p) => p \notin tx_mac
  BY DEF PortsFollowLinks, Link!PortsFollowLinks
<1>1. ASSUME reading[p] # NotRead, reading[p].link, p \in whole
      PROVE  Link!RunsAt(p, reading[p].speed)
  <2>1. cur_speed[p] = reading[p].speed /\ cur_speed[p] \in Link!Offered(p)
    BY <1>1 DEF LinkInv, ReadOnce
  <2> QED  BY <1>1, <2>1 DEF LinkInv, Running, RunsAsBelieved
<1>2. ASSUME p \in connected, ~Link!Chosen(p)
      PROVE  p \notin tx_mac
  BY <1>2 DEF LinkInv, Silent
<1> QED  BY <1>1, <1>2

(* When ipq_eth_start has returned, every port read as up runs at its      *)
(* link's speed in serdes, MAC, mux and clocks, unless its last set-up     *)
(* missed a clock, although ports share serdes and the driver remembers    *)
(* per port; and a port that is not active sends nothing.                  *)
THEOREM PortsFollow == Link!Spec => []PortsFollowLinks
BY LinkStart, LinkStep, Follows, PTL DEF Link!Spec

(* What is invariant of the QCA8x8x. Its registers have their shape. It is *)
(* in a mode the board asks for, and what that mode needs is set up: above *)
(* all the source of every generator, for a rate is made from the source   *)
(* selected when it is set, and holds only as long as that source does. A  *)
(* configured device found the chip in its mode or put it there. And the   *)
(* clocks of every PHY read since the boot fit what was read.              *)

Dirs == {"tx", "rx"}
ChipFields == {"work_mode", "rcg", "cdiv", "on", "uniphy0_sel", "serdes", "xpcs_rst", "xpcs_speed",
               "mac_on", "mac_speed", "raw"}
FullRate == 312500
AllClocks == Qca!Clocks \cup {Qca!Core, Qca!Ahb, Qca!Sys}

ChipOK(c) ==
  /\ DOMAIN c = ChipFields
  /\ c.rcg \in [Qca!Rcgs -> [src : Nat, hdiv : Nat]]
  /\ c.cdiv \in [AllClocks -> Nat]
  /\ DOMAIN c.serdes = {0, 1} /\ c.raw \in [{0, 1} -> {0, 125000, 312500}]
  /\ DOMAIN c.xpcs_speed = Phys /\ DOMAIN c.mac_speed = Qca!Ports

(* The source a generator of the chip is set to.                           *)
FromSource(c, k, parent) == <<c.rcg[k].src, parent>> \in Qca!Parents(k)

(* The frequency of a clock, as the property tells it, of any chip.        *)
RunsIn(c, clk, freq) ==
  LET k == Qca!RcgOf(clk)
      r == c.rcg[k]
  IN 2 * Qca!SourceRate(c, k) =
       freq * (IF r.hdiv = 0 THEN 2 ELSE r.hdiv + 1) * (c.cdiv[clk] + 1)
RunsTwo(c, p, kind, freq) == \A dir \in Dirs : RunsIn(c, <<p, dir, kind>>, freq)

(* What is left when four PHYs, a switch, or a bypass were set up.         *)
PhyReady(c) ==
  /\ c.serdes[1].mode = "XPCS" /\ ~c.xpcs_rst
  /\ \A p \in Phys : /\ FromSource(c, <<p, "tx">>, "UNIPHY1_RX312P5M")
                     /\ FromSource(c, <<p, "rx">>, "UNIPHY1_TX312P5M")

SwitchReady(c) ==
  /\ \A p \in Qca!SwitchPhys : /\ <<p, "mac">> \in c.on
                               /\ \A dir \in Dirs : FromSource(c, <<p, dir>>, "UNIPHY1_TX312P5M")
  /\ Qca!SwitchCore \in c.on
  /\ FromSource(c, <<Qca!Cpu, "core">>, "UNIPHY1_TX312P5M") /\ RunsIn(c, Qca!Core, FullRate)
  /\ FromSource(c, <<Qca!Cpu, "tx">>, "UNIPHY1_TX") /\ FromSource(c, <<Qca!Cpu, "rx">>, "UNIPHY1_RX")
  /\ RunsTwo(c, Qca!Cpu, "gmii", FullRate) /\ Qca!Cpu \in c.mac_on
  /\ {Qca!Cpu} \X {"mac", "uniphy"} \subseteq c.on

BypassReady(c) ==
  /\ FromSource(c, <<Qca!Bypass, "tx">>, "UNIPHY0_RX") /\ FromSource(c, <<Qca!Bypass, "rx">>, "UNIPHY0_TX")
  /\ c.uniphy0_sel = "MAC4" /\ c.serdes[0].side = "PHY"

(* The parts of the invariant.                                             *)
ChipTyped ==
  /\ dt \in {"phy", "switch", "bypass"}
  /\ dev_mode \in [Phys -> {"none", "phy", "switch", "bypass"}]
  /\ next_port \in Qca!SwitchPhys \cup {0}
  /\ last_read \in [Phys -> [up : BOOLEAN, speed : {10, 100, 1000, 2500}] \cup {NeverRead}]
  /\ ChipOK(chip)

WorkModeFits ==
  /\ dt = "phy" => chip.work_mode = "PHY_UQXGMII" /\ (Qca!SwitchCore \notin chip.on => PhyReady(chip))
  /\ dt = "switch" => chip.work_mode \in {"PHY_UQXGMII", "SWITCH"} /\ chip.serdes[0].side # "PHY"
  /\ dt = "bypass" => /\ chip.work_mode \in {"PHY_UQXGMII", "SWITCH_BYPASS_PORT5"}
                      /\ chip.work_mode = "SWITCH_BYPASS_PORT5" => BypassReady(chip)

Configured ==
  /\ \A d \in Phys :
       /\ dev_mode[d] = "phy" => dt = "phy" /\ Qca!SwitchCore \notin chip.on
       /\ dev_mode[d] = "switch" => dt # "phy" /\ d = Qca!Switch
       /\ dev_mode[d] = "bypass" => dt = "bypass" /\ chip.work_mode = "SWITCH_BYPASS_PORT5"
  /\ dev_mode[Qca!Switch] = "switch" => /\ SwitchReady(chip)
                                        /\ dt = "bypass" => chip.work_mode = "SWITCH_BYPASS_PORT5"
  /\ (\E d \in Qca!Devs : dev_mode[d] = "none") => next_port = 0 /\ last_read = [p \in Phys |-> NeverRead]
  /\ next_port # 0 => dev_mode[Qca!Switch] = "switch"

XgmiiRate(freq) == IF freq = 312500 THEN Qca!XpcsClk ELSE freq
FastSpeed == 2500
GatedIn(c, groups, up) == IF up THEN groups \subseteq c.on ELSE groups \cap c.on = {}

FitsPhy(c, p, r) ==
  /\ GatedIn(c, {p} \X {"uniphy", "ephy"}, r.up)
  /\ RunsTwo(c, p, "xgmii", XgmiiRate(Qca!GmiiClk(r.speed))) /\ c.xpcs_speed[p] = r.speed
FitsBypass(c, r) ==
  /\ GatedIn(c, {<<Qca!Bypass, "ephy">>, <<Qca!Port5, "uniphy">>}, r.up)
  /\ c.serdes[0].mode = "SGMII_PLUS" <=> r.speed = FastSpeed
FitsSwitch(c, p, r) ==
  /\ <<p, "ephy">> \in c.on <=> r.up
  /\ p \in LinkEn \/ (p \in c.mac_on <=> r.up)
  /\ c.mac_speed[p] = r.speed

(* What a PHY's link asks of the chip on each board.                       *)
ClocksFit(tree, modes, c, p, r) ==
  /\ RunsTwo(c, p, "gmii", Qca!GmiiClk(r.speed))
  /\ tree = "phy" => modes[p] = "phy" /\ FitsPhy(c, p, r)
  /\ tree = "bypass" /\ p = Qca!Bypass => modes[p] = "bypass" /\ FitsBypass(c, r)
  /\ tree # "phy" /\ ~(tree = "bypass" /\ p = Qca!Bypass) =>
       modes[Qca!Switch] = "switch" /\ FitsSwitch(c, p, r)

ChipInv ==
  /\ ChipTyped /\ WorkModeFits /\ Configured
  /\ \A p \in Phys : last_read[p] # NeverRead => ClocksFit(dt, dev_mode, chip, p, last_read[p])

(* A generator is known by its port and its direction or use.              *)
LEMMA KeyIs ==
  ASSUME NEW k \in Qca!Rcgs
  PROVE  /\ k = <<k[1], k[2]>> /\ k[1] \in Qca!Ports
         /\ k[2] \in {"tx", "rx"} \/ (k[1] = Qca!Cpu /\ k[2] \in {"core", "ahb", "sys"})
<1>1. CASE k \in Qca!Ports \X {"tx", "rx"}
  <2>1. PICK p \in Qca!Ports, dir \in {"tx", "rx"} : k = <<p, dir>>
    BY <1>1
  <2>2. k[1] = p /\ k[2] = dir
    BY <2>1
  <2> QED  BY <2>1, <2>2
<1>2. CASE k \in {Qca!Cpu} \X {"core", "ahb", "sys"}
  BY <1>2 DEF Qca!Ports
<1> QED  BY <1>1, <1>2 DEF Qca!Rcgs

(* Two sources of a generator never share a value, nor two values a        *)
(* source.                                                                 *)
LEMMA ParentsDiffer ==
  ASSUME NEW k \in Qca!Rcgs, NEW v, NEW w, NEW a, NEW b,
         <<v, a>> \in Qca!Parents(k), <<w, b>> \in Qca!Parents(k)
  PROVE  v = w <=> a = b
<1>1. /\ k = <<k[1], k[2]>> /\ k[1] \in 0 .. 5
      /\ k[2] \in {"tx", "rx"} \/ (k[1] = 0 /\ k[2] \in {"core", "ahb", "sys"})
  BY KeyIs, QcaIs DEF Qca!Qca8x8xAssumption, Qca!Ports, Qca!Cpu, Qca!Port5
<1>2. PICK n \in 0 .. 5, s \in {"tx", "rx", "core", "ahb", "sys"} : k[1] = n /\ k[2] = s /\ k = <<n, s>>
  BY <1>1
<1>3. CASE s = "core"
  BY <1>1, <1>2, <1>3 DEF Qca!Parents, Qca!Cpu, Qca!Port5, Qca!Bypass
<1>4. CASE s = "ahb"
  BY <1>1, <1>2, <1>4 DEF Qca!Parents, Qca!Cpu, Qca!Port5, Qca!Bypass
<1>5. CASE s = "sys"
  BY <1>1, <1>2, <1>5 DEF Qca!Parents, Qca!Cpu, Qca!Port5, Qca!Bypass
<1>6. CASE s = "tx"
  BY <1>1, <1>2, <1>6 DEF Qca!Parents, Qca!Cpu, Qca!Port5, Qca!Bypass
<1>7. CASE s = "rx"
  BY <1>1, <1>2, <1>7 DEF Qca!Parents, Qca!Cpu, Qca!Port5, Qca!Bypass
<1> QED  BY <1>2, <1>3, <1>4, <1>5, <1>6, <1>7

(* Every source has a value a register can hold.                           *)
LEMMA ParentsArePairs ==
  ASSUME NEW k \in Qca!Rcgs, NEW x \in Qca!Parents(k)
  PROVE  x = <<x[1], x[2]>> /\ x[1] \in Nat
<1>1. /\ k = <<k[1], k[2]>> /\ k[1] \in 0 .. 5
      /\ k[2] \in {"tx", "rx"} \/ (k[1] = 0 /\ k[2] \in {"core", "ahb", "sys"})
  BY KeyIs, QcaIs DEF Qca!Qca8x8xAssumption, Qca!Ports, Qca!Cpu, Qca!Port5
<1>2. PICK n \in 0 .. 5, s \in {"tx", "rx", "core", "ahb", "sys"} : k[1] = n /\ k[2] = s /\ k = <<n, s>>
  BY <1>1
<1> QED  BY <1>1, <1>2 DEF Qca!Parents, Qca!Cpu, Qca!Port5, Qca!Bypass

(* There are seven sources.                                                *)
LEMMA ParentNames ==
  ASSUME NEW k \in Qca!Rcgs, NEW x \in Qca!Parents(k)
  PROVE  x[2] \in {"XO", "UNIPHY1_TX312P5M", "UNIPHY1_RX312P5M", "UNIPHY0_RX", "UNIPHY0_TX",
                   "UNIPHY1_RX", "UNIPHY1_TX"}
<1>1. /\ k = <<k[1], k[2]>> /\ k[1] \in 0 .. 5
      /\ k[2] \in {"tx", "rx"} \/ (k[1] = 0 /\ k[2] \in {"core", "ahb", "sys"})
  BY KeyIs, QcaIs DEF Qca!Qca8x8xAssumption, Qca!Ports, Qca!Cpu, Qca!Port5
<1>2. PICK n \in 0 .. 5, s \in {"tx", "rx", "core", "ahb", "sys"} : k[1] = n /\ k[2] = s /\ k = <<n, s>>
  BY <1>1
<1> QED  BY <1>1, <1>2 DEF Qca!Parents, Qca!Cpu, Qca!Port5, Qca!Bypass

(* A generator set to a source runs from it.                               *)
LEMMA SourceKnown ==
  ASSUME NEW c, NEW k \in Qca!Rcgs, NEW parent, FromSource(c, k, parent)
  PROVE  Qca!SourceRate(c, k) = Qca!Prate(c, parent)
<1> DEFINE now == {x \in Qca!Parents(k) : x[1] = c.rcg[k].src}
           it == CHOOSE x \in now : TRUE
<1>1. <<c.rcg[k].src, parent>> \in now
  BY DEF FromSource
<1>2. it \in now
  BY <1>1
<1>3. it[2] = parent
  <2>1. it \in Qca!Parents(k) /\ it[1] = c.rcg[k].src
    BY <1>2
  <2>2. <<c.rcg[k].src, it[2]>> \in Qca!Parents(k)
    BY <2>1, ParentsArePairs
  <2> HIDE DEF it
  <2> QED  BY <2>2, ParentsDiffer DEF FromSource
<1> HIDE DEF it
<1>4. Qca!SourceRate(c, k) = Qca!Prate(c, it[2])
  BY <1>1 DEF Qca!SourceRate, it
<1> QED  BY <1>3, <1>4

(* Selecting a source selects it and leaves the divider; one the generator *)
(* has not is ignored.                                                     *)
LEMMA ParentSetIs ==
  ASSUME NEW rcg \in [Qca!Rcgs -> [src : Nat, hdiv : Nat]], NEW k \in Qca!Rcgs, NEW parent
  PROVE  /\ Qca!ParentSet(rcg, k, parent) \in [src : Nat, hdiv : Nat]
         /\ Qca!ParentSet(rcg, k, parent).hdiv = rcg[k].hdiv
         /\ \A v : <<v, parent>> \in Qca!Parents(k) => <<Qca!ParentSet(rcg, k, parent).src, parent>> \in Qca!Parents(k)
<1> DEFINE own == {x \in Qca!Parents(k) : x[2] = parent}
           it == CHOOSE x \in own : TRUE
<1>1. CASE own = {}
  <2>1. Qca!ParentSet(rcg, k, parent) = rcg[k]
    BY <1>1 DEF Qca!ParentSet
  <2>2. \A v : <<v, parent>> \notin Qca!Parents(k)
    BY <1>1
  <2> QED  BY <2>1, <2>2
<1>2. CASE own # {}
  <2>1. it \in own
    BY <1>2
  <2>2. it = <<it[1], it[2]>> /\ it[1] \in Nat /\ it[2] = parent /\ it \in Qca!Parents(k)
    BY <2>1, ParentsArePairs
  <2> HIDE DEF it
  <2>3. Qca!ParentSet(rcg, k, parent) = [rcg[k] EXCEPT !.src = it[1]]
    BY <1>2 DEF Qca!ParentSet, it
  <2> QED  BY <2>2, <2>3
<1> QED  BY <1>1, <1>2

(* A step of the chip that only sets rates, of generators in ks.           *)
Rated(c, n, ks) ==
  /\ ChipOK(n)
  /\ n.on = c.on /\ n.raw = c.raw /\ n.serdes = c.serdes /\ n.work_mode = c.work_mode
  /\ n.uniphy0_sel = c.uniphy0_sel /\ n.xpcs_rst = c.xpcs_rst /\ n.xpcs_speed = c.xpcs_speed
  /\ n.mac_on = c.mac_on /\ n.mac_speed = c.mac_speed
  /\ \A k \in Qca!Rcgs \ ks : n.rcg[k] = c.rcg[k]
  /\ \A clk \in AllClocks : Qca!RcgOf(clk) \notin ks => n.cdiv[clk] = c.cdiv[clk]

(* What is left of a clock that gets its own two numbers.                  *)
Programmed(c, n, clk, hdiv, div) ==
  /\ Rated(c, n, {Qca!RcgOf(clk)})
  /\ \A x \in AllClocks : x # clk => n.cdiv[x] = c.cdiv[x]
  /\ n.cdiv[clk] = div
  /\ hdiv \in 0 .. Qca!HdivMax => /\ n.rcg[Qca!RcgOf(clk)].hdiv = hdiv
                             /\ n.rcg[Qca!RcgOf(clk)].src = c.rcg[Qca!RcgOf(clk)].src

(* Every clock has its generator.                                          *)
LEMMA ClockIs ==
  ASSUME NEW clk \in AllClocks
  PROVE  Qca!RcgOf(clk) \in Qca!Rcgs
<1>1. CASE clk \in Qca!Clocks
  <2>1. PICK p \in Qca!Ports, d \in {"tx", "rx"}, x \in {"gmii", "xgmii"} : clk = <<p, d, x>>
    BY <1>1 DEF Qca!Clocks
  <2> QED  BY <2>1 DEF Qca!RcgOf, Qca!Rcgs
<1>2. CASE clk \in {Qca!Core, Qca!Ahb, Qca!Sys}
  BY <1>2 DEF Qca!RcgOf, Qca!Rcgs, Qca!Core, Qca!Ahb, Qca!Sys
<1> QED  BY <1>1, <1>2 DEF AllClocks

(* Writing divider and generator leaves the rest of the chip alone.        *)
LEMMA ProgramRates ==
  ASSUME NEW c, ChipOK(c), NEW clk \in AllClocks, NEW hdiv \in Int, NEW div \in Nat
  PROVE  Programmed(c, Qca!Program(c, clk, hdiv, div), clk, hdiv, div)
<1> DEFINE k == Qca!RcgOf(clk)
           new == IF hdiv \in 0 .. Qca!HdivMax THEN [c.rcg[k] EXCEPT !.hdiv = hdiv] ELSE Qca!AllOnes
           n == Qca!Program(c, clk, hdiv, div)
<1>1. k \in Qca!Rcgs
  BY ClockIs
<1>2. /\ new \in [src : Nat, hdiv : Nat]
      /\ hdiv \in 0 .. Qca!HdivMax => new.hdiv = hdiv /\ new.src = c.rcg[k].src
  BY <1>1 DEF ChipOK, Qca!AllOnes, Qca!HdivMax
<1>3. n = [c EXCEPT !.cdiv[clk] = div, !.rcg[k] = new]
  BY DEF Qca!Program
<1> HIDE DEF k, new, n
<1>4. /\ DOMAIN n = ChipFields
      /\ n.cdiv = [c.cdiv EXCEPT ![clk] = div] /\ n.rcg = [c.rcg EXCEPT ![k] = new]
      /\ n.on = c.on /\ n.raw = c.raw /\ n.serdes = c.serdes /\ n.work_mode = c.work_mode
      /\ n.uniphy0_sel = c.uniphy0_sel /\ n.xpcs_rst = c.xpcs_rst /\ n.xpcs_speed = c.xpcs_speed
      /\ n.mac_on = c.mac_on /\ n.mac_speed = c.mac_speed
  BY <1>3 DEF ChipOK, ChipFields
<1>5. ChipOK(n)
  BY <1>1, <1>2, <1>4 DEF ChipOK
<1>6. /\ \A x \in Qca!Rcgs \ {k} : n.rcg[x] = c.rcg[x]
      /\ n.rcg[k] = new
      /\ n.cdiv[clk] = div
      /\ \A x \in AllClocks : x # clk => n.cdiv[x] = c.cdiv[x]
  BY <1>1, <1>4 DEF ChipOK
<1>7. \A x \in AllClocks : Qca!RcgOf(x) \notin {k} => n.cdiv[x] = c.cdiv[x]
  BY <1>6 DEF k
<1>8. Rated(c, n, {k})
  BY <1>4, <1>5, <1>6, <1>7 DEF Rated
<1> QED  BY <1>2, <1>6, <1>8 DEF k, n, Programmed

(* The rates any caller asks for.                                          *)
AnyRate == {2500, 25000, 125000, 312500, 78125, 104160}

(* What a rate needs of a source that can give it.                         *)
CanGive(prate, freq) ==
  \/ prate \in {125000, 312500} /\ freq \in {2500, 25000, 125000}
  \/ prate = 312500 /\ freq = 312500
HdivFor(prate, freq) ==
  IF Qca!Hdiv(prate, freq) \in 0 .. Qca!HdivMax THEN Qca!Hdiv(prate, freq) ELSE Qca!Hdiv(prate \div 10, freq)
DivFor(prate, freq) == IF Qca!Hdiv(prate, freq) \in 0 .. Qca!HdivMax THEN 0 ELSE 9

(* The numbers the driver computes from a source that can give a rate give *)
(* it exactly: the half divider alone, or by ten when it cannot.           *)
LEMMA Divides ==
  ASSUME NEW prate, NEW freq, CanGive(prate, freq)
  PROVE  /\ HdivFor(prate, freq) \in 1 .. Qca!HdivMax /\ DivFor(prate, freq) \in Nat
         /\ 2 * prate = freq * (HdivFor(prate, freq) + 1) * (DivFor(prate, freq) + 1)
<1>1. CASE freq = 2500 /\ prate = 125000
  BY <1>1 DEF HdivFor, DivFor, Qca!Hdiv, Qca!HdivMax
<1>2. CASE freq = 25000 /\ prate = 125000
  BY <1>2 DEF HdivFor, DivFor, Qca!Hdiv, Qca!HdivMax
<1>3. CASE freq = 125000 /\ prate = 125000
  BY <1>3 DEF HdivFor, DivFor, Qca!Hdiv, Qca!HdivMax
<1>4. CASE freq = 2500 /\ prate = 312500
  BY <1>4 DEF HdivFor, DivFor, Qca!Hdiv, Qca!HdivMax
<1>5. CASE freq = 25000 /\ prate = 312500
  BY <1>5 DEF HdivFor, DivFor, Qca!Hdiv, Qca!HdivMax
<1>6. CASE freq = 125000 /\ prate = 312500
  BY <1>6 DEF HdivFor, DivFor, Qca!Hdiv, Qca!HdivMax
<1>7. CASE freq = 312500 /\ prate = 312500
  BY <1>7 DEF HdivFor, DivFor, Qca!Hdiv, Qca!HdivMax
<1> QED  BY <1>1, <1>2, <1>3, <1>4, <1>5, <1>6, <1>7 DEF CanGive

(* A source runs at one of three rates, or is not known.                   *)
LEMMA SourceRateIs ==
  ASSUME NEW c, ChipOK(c), NEW k \in Qca!Rcgs
  PROVE  Qca!SourceRate(c, k) \in {0, 50000, 125000, 312500}
<1> DEFINE now == {x \in Qca!Parents(k) : x[1] = c.rcg[k].src}
           it == CHOOSE x \in now : TRUE
<1>1. CASE now = {}
  BY <1>1 DEF Qca!SourceRate
<1>2. CASE now # {}
  <2>1. it \in Qca!Parents(k)
    BY <1>2
  <2>2. it[2] \in {"XO", "UNIPHY1_TX312P5M", "UNIPHY1_RX312P5M", "UNIPHY0_RX", "UNIPHY0_TX",
                   "UNIPHY1_RX", "UNIPHY1_TX"}
    BY <2>1, ParentNames
  <2> HIDE DEF it
  <2>3. Qca!SourceRate(c, k) = Qca!Prate(c, it[2])
    BY <1>2 DEF Qca!SourceRate, it
  <2> QED  BY <2>2, <2>3 DEF Qca!Prate, Qca!XO, ChipOK
<1> QED  BY <1>1, <1>2

MacRates == {2500, 25000, 125000, 312500}

(* Setting a rate touches one clock and its generator, whatever it runs    *)
(* from.                                                                   *)
LEMMA RateSetFrame ==
  ASSUME NEW c, ChipOK(c), NEW clk \in AllClocks, NEW freq \in AnyRate
  PROVE  Rated(c, Qca!RateSet(c, clk, freq), {Qca!RcgOf(clk)})
<1> DEFINE prate == Qca!SourceRate(c, Qca!RcgOf(clk))
<1>1. prate \in {0, 50000, 125000, 312500}
  BY ClockIs, SourceRateIs
<1> HIDE DEF prate
<1>2. Qca!Hdiv(prate, freq) \in Int /\ Qca!Hdiv(prate \div 10, freq) \in Int
  BY <1>1 DEF Qca!Hdiv, AnyRate
<1>3. \/ Qca!RateSet(c, clk, freq) = c
      \/ Qca!RateSet(c, clk, freq) = Qca!Program(c, clk, 0, 3)
      \/ Qca!RateSet(c, clk, freq) = Qca!Program(c, clk, Qca!Hdiv(prate, freq), 0)
      \/ Qca!RateSet(c, clk, freq) = Qca!Program(c, clk, Qca!Hdiv(prate \div 10, freq), 9)
  <2> DEFINE skip == prate = 0 \/ freq \notin Qca!Rates(clk) \/ (freq = Qca!XpcsClk /\ prate # 312500)
  <2>1. CASE skip
    BY <2>1, SMT DEF Qca!RateSet, prate
  <2>2. CASE ~skip /\ freq = Qca!XpcsClk
    BY <2>2 DEF Qca!RateSet, prate
  <2>3. CASE ~skip /\ freq # Qca!XpcsClk /\ Qca!Hdiv(prate, freq) \in 0 .. Qca!HdivMax
    BY <2>3 DEF Qca!RateSet, prate
  <2>4. CASE ~skip /\ freq # Qca!XpcsClk /\ Qca!Hdiv(prate, freq) \notin 0 .. Qca!HdivMax
    BY <2>4 DEF Qca!RateSet, prate
  <2> HIDE DEF skip
  <2> QED  BY <2>1, <2>2, <2>3, <2>4
<1>4. Rated(c, c, {Qca!RcgOf(clk)})
  BY DEF Rated
<1>5. \A hdiv \in Int, div \in Nat : Rated(c, Qca!Program(c, clk, hdiv, div), {Qca!RcgOf(clk)})
  <2>1. \A hdiv \in Int, div \in Nat : Programmed(c, Qca!Program(c, clk, hdiv, div), clk, hdiv, div)
    BY ProgramRates, SMT
  <2> SUFFICES ASSUME NEW hdiv \in Int, NEW div \in Nat
               PROVE  Rated(c, Qca!Program(c, clk, hdiv, div), {Qca!RcgOf(clk)})
    OBVIOUS
  <2>2. Programmed(c, Qca!Program(c, clk, hdiv, div), clk, hdiv, div)
    BY <2>1
  <2> QED  BY <2>2, SMT DEF Programmed
<1>6. 0 \in Int /\ 3 \in Nat /\ 0 \in Nat /\ 9 \in Nat
  OBVIOUS
<1> QED  BY <1>2, <1>3, <1>4, <1>5, <1>6, SMT

(* From a source that can give the rate, the numbers are those above.      *)
LEMMA RateSetGives ==
  ASSUME NEW c, ChipOK(c), NEW clk \in AllClocks, NEW prate, NEW freq \in Qca!Rates(clk),
         Qca!SourceRate(c, Qca!RcgOf(clk)) = prate, CanGive(prate, freq)
  PROVE  Programmed(c, Qca!RateSet(c, clk, freq), clk, HdivFor(prate, freq), DivFor(prate, freq))
<1>1. prate \in {125000, 312500} /\ freq \in {2500, 25000, 125000, 312500}
  BY DEF CanGive
<1>2. Qca!RateSet(c, clk, freq) = Qca!Program(c, clk, HdivFor(prate, freq), DivFor(prate, freq))
  <2>1. prate # 0 /\ freq # Qca!XpcsClk
    BY <1>1 DEF Qca!XpcsClk
  <2>2. CASE Qca!Hdiv(prate, freq) \in 0 .. Qca!HdivMax
    BY <2>1, <2>2, SMT DEF Qca!RateSet, HdivFor, DivFor
  <2>3. CASE Qca!Hdiv(prate, freq) \notin 0 .. Qca!HdivMax
    BY <2>1, <2>3, SMT DEF Qca!RateSet, HdivFor, DivFor
  <2> QED  BY <2>2, <2>3, SMT
<1>3. HdivFor(prate, freq) \in Int /\ DivFor(prate, freq) \in Nat
  BY Divides, SMT DEF Qca!HdivMax
<1> QED  BY <1>2, <1>3, ProgramRates, SMT

(* The XGMII clock at 2.5G: past the generator, divided by four.           *)
LEMMA XpcsRateSet ==
  ASSUME NEW c, ChipOK(c), NEW clk \in AllClocks, Qca!XpcsClk \in Qca!Rates(clk),
         Qca!SourceRate(c, Qca!RcgOf(clk)) = 312500
  PROVE  Programmed(c, Qca!RateSet(c, clk, Qca!XpcsClk), clk, 0, 3)
<1>1. Qca!RateSet(c, clk, Qca!XpcsClk) = Qca!Program(c, clk, 0, 3)
  BY SMT DEF Qca!RateSet, Qca!XpcsClk
<1> QED  BY <1>1, ProgramRates, SMT

(* A generator keeps its rate with its source.                             *)
LEMMA SourceStays ==
  ASSUME NEW c, NEW n, NEW k \in Qca!Rcgs, n.rcg[k].src = c.rcg[k].src, n.raw = c.raw
  PROVE  Qca!SourceRate(n, k) = Qca!SourceRate(c, k)
BY DEF Qca!SourceRate, Qca!Prate

(* Steps that only set rates compose.                                      *)
LEMMA RatedRefl == ASSUME NEW c, ChipOK(c), NEW ks PROVE Rated(c, c, ks)
BY DEF Rated

(* The same of two steps.                                                  *)
LEMMA RatedTrans ==
  ASSUME NEW c, NEW m, NEW n, NEW ks, NEW js, NEW ls, Rated(c, m, ks), Rated(m, n, js), ks \cup js \subseteq ls
  PROVE  Rated(c, n, ls)
BY DEF Rated

(* The same of more generators.                                            *)
LEMMA RatedWider ==
  ASSUME NEW c, NEW n, NEW ks, NEW ls, Rated(c, n, ks), ks \subseteq ls
  PROVE  Rated(c, n, ls)
BY DEF Rated

(* The clocks of a port and the rates its table allows them.               *)
LEMMA PortClocks ==
  ASSUME NEW p \in Qca!Ports, NEW d \in Dirs, NEW x \in {"gmii", "xgmii"}
  PROVE  /\ <<p, d, x>> \in AllClocks /\ Qca!RcgOf(<<p, d, x>>) = <<p, d>> /\ <<p, d>> \in Qca!Rcgs
         /\ <<p, d>> \in {p} \X Dirs
         /\ MacRates \subseteq Qca!Rates(<<p, d, x>>)
         /\ p \in Phys => Qca!XpcsClk \in Qca!Rates(<<p, d, x>>)
<1>1. <<p, d, x>> \in AllClocks /\ Qca!RcgOf(<<p, d, x>>) = <<p, d>> /\ <<p, d>> \in Qca!Rcgs
  BY DEF AllClocks, Qca!Clocks, Qca!RcgOf, Qca!Rcgs, Dirs
<1>2. <<p, d, x>> \notin {Qca!Core, Qca!Ahb, Qca!Sys}
  BY DEF Qca!Core, Qca!Ahb, Qca!Sys, Dirs
<1>3. p \in Phys => p \notin {Qca!Cpu, Qca!Port5}
  BY QcaIs DEF Qca!Qca8x8xAssumption, Qca!Cpu, Qca!Port5
<1> QED  BY <1>1, <1>2, <1>3, SMT DEF Qca!Rates, MacRates


(* What is asked of the MAC and XGMII clocks of a port are rates of the    *)
(* tables.                                                                 *)
LEMMA RatesAsked == ASSUME NEW freq \in MacRates PROVE freq \in AnyRate /\ XgmiiRate(freq) \in AnyRate
BY SMT DEF AnyRate, MacRates, XgmiiRate, Qca!XpcsClk

(* The two generators of a port, whatever they are fed with.               *)
LEMMA PortRatesFrame ==
  ASSUME NEW c, ChipOK(c), NEW p \in Qca!Ports, NEW freq \in MacRates
  PROVE  Rated(c, Qca!PortClkRateSet(c, p, freq), {p} \X Dirs)
<1> DEFINE ks == {p} \X Dirs
           x == XgmiiRate(freq)
           m1 == Qca!RateSet(c, <<p, "rx", "gmii">>, freq)
           m2 == Qca!RateSet(m1, <<p, "tx", "gmii">>, freq)
           m3 == Qca!RateSet(m2, <<p, "rx", "xgmii">>, x)
           m4 == Qca!RateSet(m3, <<p, "tx", "xgmii">>, x)
<1>1. Qca!PortClkRateSet(c, p, freq) \in {m2, m4}
  BY SMT DEF Qca!PortClkRateSet, XgmiiRate
<1>2. freq \in AnyRate /\ x \in AnyRate
  BY RatesAsked
<1> HIDE DEF x
<1>3. ASSUME NEW a, ChipOK(a), NEW d \in Dirs, NEW kind \in {"gmii", "xgmii"}, NEW r \in AnyRate
      PROVE  Rated(a, Qca!RateSet(a, <<p, d, kind>>, r), ks)
  <2>1. <<p, d, kind>> \in AllClocks /\ {Qca!RcgOf(<<p, d, kind>>)} \subseteq ks
    <3>1. <<p, d, kind>> \in AllClocks /\ Qca!RcgOf(<<p, d, kind>>) = <<p, d>>
      BY <1>3, PortClocks
    <3>2. {<<p, d>>} \subseteq ks
      BY <1>3
    <3> QED  BY <3>1, <3>2, Zenon
  <2>2. Rated(a, Qca!RateSet(a, <<p, d, kind>>, r), {Qca!RcgOf(<<p, d, kind>>)})
    BY <1>3, <2>1, RateSetFrame
  <2> QED  BY <2>1, <2>2, RatedWider
<1>4. "rx" \in Dirs /\ "tx" \in Dirs /\ ks \cup ks \subseteq ks /\ "gmii" \in {"gmii", "xgmii"} /\ "xgmii" \in {"gmii", "xgmii"}
  BY DEF Dirs
<1> HIDE DEF ks, m1, m2, m3, m4
<1>5. Rated(c, m1, ks) /\ ChipOK(m1)
  <2>1. Rated(c, m1, ks)
    BY <1>2, <1>3, <1>4, Zenon DEF m1
  <2> QED  BY <2>1, Zenon DEF Rated
<1>6. Rated(m1, m2, ks) /\ ChipOK(m2)
  <2>1. Rated(m1, m2, ks)
    BY <1>2, <1>3, <1>4, <1>5, Zenon DEF m2
  <2> QED  BY <2>1, Zenon DEF Rated
<1>7. Rated(m2, m3, ks) /\ ChipOK(m3)
  <2>1. Rated(m2, m3, ks)
    BY <1>2, <1>3, <1>4, <1>6, Zenon DEF m3
  <2> QED  BY <2>1, Zenon DEF Rated
<1>8. Rated(m3, m4, ks)
  <2>1. Rated(m3, m4, ks)
    BY <1>2, <1>3, <1>4, <1>7, Zenon DEF m4
  <2> QED  BY <2>1, Zenon DEF Rated
<1>9. Rated(c, m2, ks)
  BY <1>4, <1>5, <1>6, RatedTrans
<1>10. Rated(m2, m4, ks)
  BY <1>4, <1>7, <1>8, RatedTrans
<1>11. Rated(c, m4, ks)
  BY <1>4, <1>9, <1>10, RatedTrans
<1> QED  BY <1>1, <1>9, <1>11 DEF ks

(* What is left of a port whose clocks were set to a rate.                 *)
PortAt(n, c, p, freq, prate) ==
  /\ Rated(c, n, {p} \X Dirs)
  /\ \A d \in Dirs : /\ n.rcg[<<p, d>>].src = c.rcg[<<p, d>>].src
                     /\ RunsIn(n, <<p, d, "gmii">>, freq)
                     /\ p \in Phys => RunsIn(n, <<p, d, "xgmii">>, XgmiiRate(freq))

(* At the rate of its speed, from sources that can give it.                *)
LEMMA DividesBoth ==
  ASSUME NEW prate, NEW freq, CanGive(prate, freq)
  PROVE  LET h == HdivFor(prate, freq)
             v == DivFor(prate, freq)
             xh == IF freq = 312500 THEN 0 ELSE h
             xv == IF freq = 312500 THEN 3 ELSE v
         IN /\ h \in 0 .. Qca!HdivMax /\ xh \in 0 .. Qca!HdivMax /\ v \in Nat /\ xv \in Nat
            /\ 2 * prate = freq * (IF h = 0 THEN 2 ELSE h + 1) * (v + 1)
            /\ 2 * prate = freq * (IF xh = 0 THEN 2 ELSE xh + 1) * (v + 1)
            /\ 2 * prate = XgmiiRate(freq) * (IF xh = 0 THEN 2 ELSE xh + 1) * (xv + 1)
<1>1. CASE freq = 312500
  <2>1. prate = 312500
    BY <1>1, SMT DEF CanGive
  <2>2. HdivFor(prate, freq) = 1 /\ DivFor(prate, freq) = 0
    BY <1>1, <2>1, SMT DEF HdivFor, DivFor, Qca!Hdiv, Qca!HdivMax
  <2> QED  BY <1>1, <2>1, <2>2, SMT DEF XgmiiRate, Qca!XpcsClk, Qca!HdivMax
<1>2. CASE freq # 312500
  <2>1. PICK h, v : h = HdivFor(prate, freq) /\ v = DivFor(prate, freq)
    OBVIOUS
  <2>2. h \in 1 .. Qca!HdivMax /\ v \in Nat /\ 2 * prate = freq * (h + 1) * (v + 1)
    BY <2>1, Divides, SMT
  <2> QED  BY <1>2, <2>1, <2>2, SMT DEF XgmiiRate, Qca!HdivMax
<1> QED  BY <1>1, <1>2, SMT

(* What one rate changes of the four clocks of a port.                     *)
ClockHas(a, n, p, d, kind, hdiv, div) ==
  /\ n.cdiv[<<p, d, kind>>] = div /\ n.rcg[<<p, d>>].hdiv = hdiv
  /\ \A e \in Dirs : /\ n.rcg[<<p, e>>].src = a.rcg[<<p, e>>].src
                     /\ e # d => n.rcg[<<p, e>>].hdiv = a.rcg[<<p, e>>].hdiv
                     /\ Qca!SourceRate(n, <<p, e>>) = Qca!SourceRate(a, <<p, e>>)
                     /\ \A other \in {"gmii", "xgmii"} :
                          <<e, other>> # <<d, kind>> => n.cdiv[<<p, e, other>>] = a.cdiv[<<p, e, other>>]

(* A clock runs at what source, generator and divider make.                *)
LEMMA RunsAs ==
  ASSUME NEW n, NEW clk, NEW k, NEW h, NEW v, NEW prate, NEW freq,
         Qca!RcgOf(clk) = k, Qca!SourceRate(n, k) = prate, n.rcg[k].hdiv = h, n.cdiv[clk] = v,
         2 * prate = freq * (IF h = 0 THEN 2 ELSE h + 1) * (v + 1)
  PROVE  RunsIn(n, clk, freq)
BY Zenon DEF RunsIn

(* A port whose generators run from a source that can give the rate has    *)
(* all its clocks at it: the XGMII clock set last leaves the MAC clock,    *)
(* which shares its generator, at its own.                                 *)
LEMMA PortRates ==
  ASSUME NEW c, ChipOK(c), NEW p \in Qca!Ports, NEW freq \in MacRates, NEW prate, CanGive(prate, freq),
         \A d \in Dirs : Qca!SourceRate(c, <<p, d>>) = prate
  PROVE  PortAt(Qca!PortClkRateSet(c, p, freq), c, p, freq, prate)
<1> DEFINE x == XgmiiRate(freq)
           m1 == Qca!RateSet(c, <<p, "rx", "gmii">>, freq)
           m2 == Qca!RateSet(m1, <<p, "tx", "gmii">>, freq)
           m3 == Qca!RateSet(m2, <<p, "rx", "xgmii">>, x)
           m4 == Qca!RateSet(m3, <<p, "tx", "xgmii">>, x)
           h == HdivFor(prate, freq)
           v == DivFor(prate, freq)
           xh == IF freq = 312500 THEN 0 ELSE h
           xv == IF freq = 312500 THEN 3 ELSE v
<1>1. Qca!PortClkRateSet(c, p, freq) = IF p \in {Qca!Cpu, Qca!Port5} THEN m2 ELSE m4
  BY SMT DEF Qca!PortClkRateSet, XgmiiRate
<1>2. \A d \in Dirs, kind \in {"gmii", "xgmii"} :
        /\ <<p, d, kind>> \in AllClocks /\ Qca!RcgOf(<<p, d, kind>>) = <<p, d>> /\ <<p, d>> \in Qca!Rcgs
        /\ freq \in Qca!Rates(<<p, d, kind>>)
        /\ p \in Phys => Qca!XpcsClk \in Qca!Rates(<<p, d, kind>>)
  BY PortClocks
<1>3. "rx" \in Dirs /\ "tx" \in Dirs
  BY DEF Dirs
<1>4. ASSUME NEW a, ChipOK(a), NEW d \in Dirs, Qca!SourceRate(a, <<p, d>>) = prate
      PROVE  /\ Programmed(a, Qca!RateSet(a, <<p, d, "gmii">>, freq), <<p, d, "gmii">>, h, v)
             /\ p \in Phys => Programmed(a, Qca!RateSet(a, <<p, d, "xgmii">>, x), <<p, d, "xgmii">>, xh, xv)
  <2>1. ASSUME NEW kind \in {"gmii", "xgmii"}
        PROVE  Programmed(a, Qca!RateSet(a, <<p, d, kind>>, freq), <<p, d, kind>>, h, v)
    BY <1>2, <1>4, RateSetGives
  <2>2. CASE freq = 312500 /\ p \in Phys
    <3>1. prate = 312500 /\ x = Qca!XpcsClk /\ xh = 0 /\ xv = 3
      BY <2>2, SMT DEF CanGive, XgmiiRate
    <3> DEFINE clk == <<p, d, "xgmii">>
    <3>3. clk \in AllClocks /\ Qca!XpcsClk \in Qca!Rates(clk) /\ Qca!SourceRate(a, Qca!RcgOf(clk)) = 312500
      <4>1. clk \in AllClocks /\ Qca!XpcsClk \in Qca!Rates(clk) /\ Qca!RcgOf(clk) = <<p, d>>
        <5>1. "xgmii" \in {"gmii", "xgmii"} /\ p \in Phys
          BY <2>2
        <5> QED  BY <1>2, <1>4, <5>1, Zenon
      <4> QED  BY <1>4, <3>1, <4>1, SMT
    <3> HIDE DEF clk
    <3>4. Programmed(a, Qca!RateSet(a, clk, Qca!XpcsClk), clk, 0, 3)
      BY ONLY <1>4, <3>3, XpcsRateSet, SMT
    <3>2. Programmed(a, Qca!RateSet(a, <<p, d, "xgmii">>, Qca!XpcsClk), <<p, d, "xgmii">>, 0, 3)
      BY <3>4, SMT DEF clk
    <3> QED  BY <2>1, <3>1, <3>2, SMT
  <2>3. CASE freq # 312500
    BY <2>1, <2>3, SMT DEF XgmiiRate
  <2> QED  BY <2>1, <2>2, <2>3
<1>5. /\ h \in 0 .. Qca!HdivMax /\ xh \in 0 .. Qca!HdivMax /\ v \in Nat /\ xv \in Nat
      /\ 2 * prate = freq * (IF h = 0 THEN 2 ELSE h + 1) * (v + 1)
      /\ 2 * prate = freq * (IF xh = 0 THEN 2 ELSE xh + 1) * (v + 1)
      /\ 2 * prate = x * (IF xh = 0 THEN 2 ELSE xh + 1) * (xv + 1)
  BY DividesBoth DEF x
<1> HIDE DEF x, h, v, xh, xv
<1>6. ASSUME NEW a, ChipOK(a), NEW d \in Dirs, NEW kind \in {"gmii", "xgmii"}, NEW r,
             NEW hd \in 0 .. Qca!HdivMax, NEW dv,
             Programmed(a, Qca!RateSet(a, <<p, d, kind>>, r), <<p, d, kind>>, hd, dv)
      PROVE  /\ Rated(a, Qca!RateSet(a, <<p, d, kind>>, r), {<<p, d>>})
             /\ ClockHas(a, Qca!RateSet(a, <<p, d, kind>>, r), p, d, kind, hd, dv)
  <2>1. <<p, d, kind>> \in AllClocks /\ Qca!RcgOf(<<p, d, kind>>) = <<p, d>>
    BY <1>2, <1>6
  <2>2. ASSUME NEW e \in Dirs PROVE /\ <<p, e, "gmii">> \in AllClocks /\ <<p, e, "xgmii">> \in AllClocks
                                    /\ <<p, e>> \in Qca!Rcgs /\ (<<p, e>> = <<p, d>> => e = d)
    BY <1>2, <2>2
  <2> DEFINE n == Qca!RateSet(a, <<p, d, kind>>, r)
             clk == <<p, d, kind>>
  <2> HIDE DEF n
  <2>3. /\ Rated(a, n, {<<p, d>>}) /\ n.cdiv[clk] = dv
        /\ \A c1 \in AllClocks : c1 # clk => n.cdiv[c1] = a.cdiv[c1]
        /\ n.rcg[<<p, d>>].hdiv = hd /\ n.rcg[<<p, d>>].src = a.rcg[<<p, d>>].src
    BY <1>6, <2>1 DEF Programmed, n
  <2>4. \A e \in Dirs : e # d => n.rcg[<<p, e>>] = a.rcg[<<p, e>>]
    BY <2>2, <2>3 DEF Rated
  <2>5. \A e \in Dirs : n.rcg[<<p, e>>].src = a.rcg[<<p, e>>].src
    BY <2>3, <2>4
  <2>6. \A e \in Dirs : Qca!SourceRate(n, <<p, e>>) = Qca!SourceRate(a, <<p, e>>)
    BY <2>2, <2>3, <2>5, SourceStays DEF Rated
  <2>7. ASSUME NEW e \in Dirs, NEW other \in {"gmii", "xgmii"}, <<e, other>> # <<d, kind>>
        PROVE  n.cdiv[<<p, e, other>>] = a.cdiv[<<p, e, other>>]
    <3>1. <<p, e, other>> \in AllClocks /\ <<p, e, other>> # clk
      BY <2>2, <2>7
    <3> QED  BY <2>3, <3>1
  <2> QED  BY <2>3, <2>4, <2>5, <2>6, <2>7 DEF ClockHas, n
<1> HIDE DEF m1, m2, m3, m4
<1>7. /\ Rated(c, m1, {<<p, "rx">>}) /\ ClockHas(c, m1, p, "rx", "gmii", h, v)
      /\ ChipOK(m1) /\ \A d \in Dirs : Qca!SourceRate(m1, <<p, d>>) = prate
  <2>1. Programmed(c, m1, <<p, "rx", "gmii">>, h, v)
    BY <1>3, <1>4 DEF m1
  <2>2. Rated(c, m1, {<<p, "rx">>}) /\ ClockHas(c, m1, p, "rx", "gmii", h, v)
    BY <1>3, <1>5, <1>6, <2>1 DEF m1
  <2> QED  BY <2>2 DEF Rated, ClockHas
<1>8. /\ Rated(m1, m2, {<<p, "tx">>}) /\ ClockHas(m1, m2, p, "tx", "gmii", h, v)
      /\ ChipOK(m2) /\ \A d \in Dirs : Qca!SourceRate(m2, <<p, d>>) = prate
  <2>1. Programmed(m1, m2, <<p, "tx", "gmii">>, h, v)
    BY <1>3, <1>4, <1>7 DEF m2
  <2>2. Rated(m1, m2, {<<p, "tx">>}) /\ ClockHas(m1, m2, p, "tx", "gmii", h, v)
    BY <1>3, <1>5, <1>6, <1>7, <2>1 DEF m2
  <2> QED  BY <1>7, <2>2 DEF Rated, ClockHas
<1>9. CASE p \notin Phys
  <2>1. Qca!PortClkRateSet(c, p, freq) = m2
    BY <1>1, <1>9 DEF Qca!Ports
  <2>2. Rated(c, m2, {p} \X Dirs)
    BY <1>3, <1>7, <1>8, RatedTrans
  <2>3. ASSUME NEW d \in Dirs
        PROVE  /\ m2.rcg[<<p, d>>].src = c.rcg[<<p, d>>].src /\ m2.rcg[<<p, d>>].hdiv = h
               /\ m2.cdiv[<<p, d, "gmii">>] = v /\ Qca!RcgOf(<<p, d, "gmii">>) = <<p, d>>
    <3>1. m2.rcg[<<p, d>>].src = c.rcg[<<p, d>>].src
      BY <1>7, <1>8, <2>3 DEF ClockHas
    <3>2. d = "rx" \/ d = "tx"
      BY <2>3 DEF Dirs
    <3>3. m2.rcg[<<p, d>>].hdiv = h /\ m2.cdiv[<<p, d, "gmii">>] = v
      BY <1>3, <1>7, <1>8, <3>2 DEF ClockHas
    <3>4. Qca!RcgOf(<<p, d, "gmii">>) = <<p, d>>
      BY DEF Qca!RcgOf
    <3> QED  BY <3>1, <3>3, <3>4
  <2>4. \A d \in Dirs : RunsIn(m2, <<p, d, "gmii">>, freq)
    BY <1>5, <1>8, <2>3, RunsAs
  <2> QED  BY <1>9, <2>1, <2>2, <2>3, <2>4 DEF PortAt
<1>10. CASE p \in Phys
  <2>1. Qca!PortClkRateSet(c, p, freq) = m4
    BY <1>1, <1>10, QcaIs DEF Qca!Qca8x8xAssumption, Qca!Cpu, Qca!Port5
  <2>2. /\ Rated(m2, m3, {<<p, "rx">>}) /\ ClockHas(m2, m3, p, "rx", "xgmii", xh, xv)
        /\ ChipOK(m3) /\ \A d \in Dirs : Qca!SourceRate(m3, <<p, d>>) = prate
    <3>1. Programmed(m2, m3, <<p, "rx", "xgmii">>, xh, xv)
      BY <1>3, <1>4, <1>8, <1>10 DEF m3
    <3>2. Rated(m2, m3, {<<p, "rx">>}) /\ ClockHas(m2, m3, p, "rx", "xgmii", xh, xv)
      BY <1>3, <1>5, <1>6, <1>8, <3>1 DEF m3
    <3> QED  BY <1>8, <3>2 DEF Rated, ClockHas
  <2>3. /\ Rated(m3, m4, {<<p, "tx">>}) /\ ClockHas(m3, m4, p, "tx", "xgmii", xh, xv)
        /\ ChipOK(m4) /\ \A d \in Dirs : Qca!SourceRate(m4, <<p, d>>) = prate
    <3>1. Programmed(m3, m4, <<p, "tx", "xgmii">>, xh, xv)
      BY <1>3, <1>4, <1>10, <2>2 DEF m4
    <3>2. Rated(m3, m4, {<<p, "tx">>}) /\ ClockHas(m3, m4, p, "tx", "xgmii", xh, xv)
      BY <1>3, <1>5, <1>6, <2>2, <3>1 DEF m4
    <3> QED  BY <2>2, <3>2 DEF Rated, ClockHas
  <2>4. Rated(c, m4, {p} \X Dirs)
    <3>1. Rated(c, m2, {p} \X Dirs)
      BY <1>3, <1>7, <1>8, RatedTrans
    <3>2. Rated(m2, m4, {p} \X Dirs)
      BY <1>3, <2>2, <2>3, RatedTrans
    <3> QED  BY <3>1, <3>2, RatedTrans
  <2>5. ASSUME NEW d \in Dirs
        PROVE  /\ m4.rcg[<<p, d>>].src = c.rcg[<<p, d>>].src /\ m4.rcg[<<p, d>>].hdiv = xh
               /\ m4.cdiv[<<p, d, "gmii">>] = v /\ Qca!RcgOf(<<p, d, "gmii">>) = <<p, d>>
               /\ m4.cdiv[<<p, d, "xgmii">>] = xv /\ Qca!RcgOf(<<p, d, "xgmii">>) = <<p, d>>
    <3>1. m4.rcg[<<p, d>>].src = c.rcg[<<p, d>>].src
      <4>1. m2.rcg[<<p, d>>].src = c.rcg[<<p, d>>].src
        BY <1>7, <1>8, <2>5 DEF ClockHas
      <4>2. m4.rcg[<<p, d>>].src = m2.rcg[<<p, d>>].src
        BY <2>2, <2>3, <2>5 DEF ClockHas
      <4> QED  BY <4>1, <4>2
    <3>2. d = "rx" \/ d = "tx"
      BY <2>5 DEF Dirs
    <3>3. m4.rcg[<<p, d>>].hdiv = xh /\ m4.cdiv[<<p, d, "xgmii">>] = xv
      BY <1>3, <2>2, <2>3, <3>2 DEF ClockHas
    <3>4. m2.cdiv[<<p, d, "gmii">>] = v
      BY <1>3, <1>7, <1>8, <3>2 DEF ClockHas
    <3>5. m4.cdiv[<<p, d, "gmii">>] = m2.cdiv[<<p, d, "gmii">>]
      <4>1. \A e \in Dirs : <<d, "gmii">> # <<e, "xgmii">>
        OBVIOUS
      <4> QED  BY <1>3, <2>2, <2>3, <2>5, <4>1 DEF ClockHas
    <3>6. Qca!RcgOf(<<p, d, "gmii">>) = <<p, d>> /\ Qca!RcgOf(<<p, d, "xgmii">>) = <<p, d>>
      BY DEF Qca!RcgOf
    <3> QED  BY <3>1, <3>3, <3>4, <3>5, <3>6
  <2>6. \A d \in Dirs : RunsIn(m4, <<p, d, "gmii">>, freq) /\ RunsIn(m4, <<p, d, "xgmii">>, x)
    BY <1>5, <2>3, <2>5, RunsAs
  <2> QED  BY <1>10, <2>1, <2>4, <2>5, <2>6 DEF PortAt, x
<1> QED  BY <1>9, <1>10

(* What neither clocks nor their branches touch.                           *)
SameRest(c, n) ==
  /\ n.work_mode = c.work_mode /\ n.serdes = c.serdes
  /\ n.xpcs_rst = c.xpcs_rst /\ n.xpcs_speed = c.xpcs_speed
  /\ n.mac_on = c.mac_on /\ n.mac_speed = c.mac_speed

Enabled(c, n, groups, enable) ==
  /\ ChipOK(n) /\ SameRest(c, n) /\ n.on = IF enable THEN c.on \cup groups ELSE c.on \ groups
  /\ n.rcg = c.rcg /\ n.cdiv = c.cdiv /\ n.raw = c.raw /\ n.uniphy0_sel = c.uniphy0_sel

(* Gating changes which branches are on, nothing else.                     *)
LEMMA EnableIs ==
  ASSUME NEW c, ChipOK(c), NEW groups, NEW enable
  PROVE  Enabled(c, Qca!ClkEnSet(c, groups, enable), groups, enable)
<1> DEFINE on == IF enable THEN c.on \cup groups ELSE c.on \ groups
<1>1. Qca!ClkEnSet(c, groups, enable) = [c EXCEPT !.on = on]
  BY DEF Qca!ClkEnSet
<1> HIDE DEF on
<1>2. /\ DOMAIN [c EXCEPT !.on = on] = ChipFields /\ [c EXCEPT !.on = on].on = on
      /\ \A f \in ChipFields : f # "on" => [c EXCEPT !.on = on][f] = c[f]
  BY DEF ChipOK, ChipFields
<1> QED  BY <1>1, <1>2 DEF ChipOK, SameRest, ChipFields, on, Enabled

(* Generators that got another source.                                     *)
Switched(c, n) ==
  /\ ChipOK(n) /\ SameRest(c, n)
  /\ n.on = c.on /\ n.raw = c.raw /\ n.cdiv = c.cdiv
  /\ \A k \in Qca!Rcgs : n.rcg[k].hdiv = c.rcg[k].hdiv

(* Selecting the sources of ports selects those their mode asks for, where *)
(* they exist, and leaves dividers and other ports alone.                  *)
LEMMA PortsSwitched ==
  ASSUME NEW c, ChipOK(c), NEW mode, NEW ports
  PROVE  LET n == Qca!GccPortClkParentSet(c, mode, ports)
         IN /\ Switched(c, n)
            /\ n.uniphy0_sel = IF Qca!Port5 \notin ports THEN c.uniphy0_sel
                               ELSE IF mode \in {"SWITCH_BYPASS_PORT5", "PHY_SGMII_UQXGMII"}
                                    THEN "MAC4" ELSE "MAC5"
            /\ \A k \in Qca!Rcgs : k[1] \notin ports \/ k[2] \notin Dirs => n.rcg[k] = c.rcg[k]
            /\ \A p \in Qca!Ports, d \in Dirs, v \in Nat :
                 p \in ports /\ <<v, Qca!PortParent(mode, p, d)>> \in Qca!Parents(<<p, d>>) =>
                   FromSource(n, <<p, d>>, Qca!PortParent(mode, p, d))
<1> DEFINE new == [k \in Qca!Rcgs |-> IF k[1] \in ports /\ k[2] \in {"tx", "rx"}
                             THEN Qca!ParentSet(c.rcg, k, Qca!PortParent(mode, k[1], k[2]))
                             ELSE c.rcg[k]]
           sel == IF Qca!Port5 \notin ports THEN c.uniphy0_sel
                  ELSE IF mode \in {"SWITCH_BYPASS_PORT5", "PHY_SGMII_UQXGMII"}
                       THEN "MAC4" ELSE "MAC5"
           n == Qca!GccPortClkParentSet(c, mode, ports)
<1>1. n = [c EXCEPT !.rcg = new, !.uniphy0_sel = sel]
  BY DEF Qca!GccPortClkParentSet
<1>2. c.rcg \in [Qca!Rcgs -> [src : Nat, hdiv : Nat]]
  BY DEF ChipOK
<1>3. ASSUME NEW k \in Qca!Rcgs
      PROVE  new[k] \in [src : Nat, hdiv : Nat] /\ new[k].hdiv = c.rcg[k].hdiv
  <2>1. CASE k[1] \in ports /\ k[2] \in {"tx", "rx"}
    BY <1>2, <2>1, ParentSetIs
  <2>2. CASE ~(k[1] \in ports /\ k[2] \in {"tx", "rx"})
    BY <1>2, <2>2
  <2> QED  BY <2>1, <2>2
<1>4. DOMAIN new = Qca!Rcgs /\ new = [k \in Qca!Rcgs |-> new[k]]
  OBVIOUS
<1>5. \A k \in Qca!Rcgs : k[1] \notin ports \/ k[2] \notin Dirs => new[k] = c.rcg[k]
  BY DEF Dirs
<1>6. ASSUME NEW p \in Qca!Ports, NEW d \in Dirs, NEW v \in Nat, p \in ports,
             <<v, Qca!PortParent(mode, p, d)>> \in Qca!Parents(<<p, d>>)
      PROVE  <<new[<<p, d>>].src, Qca!PortParent(mode, p, d)>> \in Qca!Parents(<<p, d>>)
  <2>1. <<p, d>> \in Qca!Rcgs /\ <<p, d>>[1] = p /\ <<p, d>>[2] = d /\ d \in {"tx", "rx"}
    BY DEF Qca!Rcgs, Dirs
  <2>2. new[<<p, d>>] = Qca!ParentSet(c.rcg, <<p, d>>, Qca!PortParent(mode, p, d))
    BY <1>6, <2>1
  <2> QED  BY <1>2, <1>6, <2>1, <2>2, ParentSetIs
<1> HIDE DEF new, sel, n
<1>7. /\ DOMAIN n = ChipFields /\ n.rcg = new /\ n.uniphy0_sel = sel
      /\ n.on = c.on /\ n.raw = c.raw /\ n.cdiv = c.cdiv /\ SameRest(c, n)
  BY <1>1 DEF ChipOK, ChipFields, SameRest
<1>8. ChipOK(n)
  BY <1>3, <1>4, <1>7 DEF ChipOK, SameRest
<1> QED  BY <1>3, <1>5, <1>6, <1>7, <1>8 DEF Switched, FromSource, sel, n

(* The clock of the switch core as it is set.                              *)
CoreAt(n) ==
  /\ <<n.rcg[<<Qca!Cpu, "core">>].src, "UNIPHY1_TX312P5M">> \in Qca!Parents(<<Qca!Cpu, "core">>)
  /\ n.rcg[<<Qca!Cpu, "core">>].hdiv = 1 /\ n.cdiv[Qca!Core] = 0

(* The common clocks: what a switch runs from in every mode.               *)
LEMMA CoreRuns ==
  ASSUME NEW c, ChipOK(c), NEW mode
  PROVE  LET n == Qca!CommonClkParentEnable(c, mode)
         IN /\ ChipOK(n) /\ SameRest(c, n) /\ n.raw = c.raw /\ n.uniphy0_sel = c.uniphy0_sel
            /\ n.on = IF mode \notin Qca!PhyModes THEN c.on \cup {Qca!SwitchCore, Qca!Serdes0}
                      ELSE c.on \ {Qca!SwitchCore, Qca!Serdes0}
            /\ \A p \in Qca!Ports, d \in Dirs : n.rcg[<<p, d>>] = c.rcg[<<p, d>>]
            /\ \A clk \in Qca!Clocks : n.cdiv[clk] = c.cdiv[clk]
            /\ CoreAt(n)
<1> DEFINE rcg == [k \in Qca!Rcgs |-> CASE k[2] \in {"core", "ahb"} -> Qca!ParentSet(c.rcg, k, "UNIPHY1_TX312P5M")
                               [] k[2] = "sys" -> Qca!ParentSet(c.rcg, k, "XO")
                               [] OTHER -> c.rcg[k]]
           m0 == [c EXCEPT !.rcg = rcg]
           m1 == Qca!RateSet(m0, Qca!Core, 312500)
           m2 == Qca!RateSet(m1, Qca!Ahb, 104160)
           m3 == Qca!RateSet(m2, Qca!Sys, 25000)
           ck == <<Qca!Cpu, "core">>
           ak == <<Qca!Cpu, "ahb">>
           sk == <<Qca!Cpu, "sys">>
<1>1. Qca!CommonClkParentEnable(c, mode) = Qca!ClkEnSet(m3, {Qca!SwitchCore, Qca!Serdes0}, mode \notin Qca!PhyModes)
  BY SMT DEF Qca!CommonClkParentEnable
<1>2. /\ ck \in Qca!Rcgs /\ ak \in Qca!Rcgs /\ sk \in Qca!Rcgs /\ ck # ak /\ ck # sk
      /\ Qca!RcgOf(Qca!Core) = ck /\ Qca!RcgOf(Qca!Ahb) = ak /\ Qca!RcgOf(Qca!Sys) = sk
      /\ Qca!Core \in AllClocks /\ Qca!Ahb \in AllClocks /\ Qca!Sys \in AllClocks
      /\ \A p \in Qca!Ports, d \in Dirs : <<p, d>> \in Qca!Rcgs /\ <<p, d>> \notin {ck, ak, sk}
  BY DEF Qca!Rcgs, Qca!RcgOf, Qca!Core, Qca!Ahb, Qca!Sys, AllClocks, Dirs
<1>3. \A clk \in Qca!Clocks : clk \in AllClocks /\ Qca!RcgOf(clk) \notin {ck, ak, sk}
  <2>1. ASSUME NEW clk \in Qca!Clocks PROVE Qca!RcgOf(clk) \notin {ck, ak, sk}
    <3>1. PICK p \in Qca!Ports, d \in {"tx", "rx"}, x \in {"gmii", "xgmii"} : clk = <<p, d, x>>
      BY <2>1 DEF Qca!Clocks
    <3> QED  BY <3>1 DEF Qca!RcgOf
  <2> QED  BY <2>1 DEF AllClocks
<1>4. c.rcg \in [Qca!Rcgs -> [src : Nat, hdiv : Nat]]
  BY DEF ChipOK
<1>5. rcg \in [Qca!Rcgs -> [src : Nat, hdiv : Nat]]
  <2>1. ASSUME NEW k \in Qca!Rcgs PROVE rcg[k] \in [src : Nat, hdiv : Nat]
    BY <1>4, ParentSetIs
  <2> QED  BY <2>1
<1>6. \A p \in Qca!Ports, d \in Dirs : rcg[<<p, d>>] = c.rcg[<<p, d>>]
  BY <1>2 DEF Dirs
<1>7. <<rcg[ck].src, "UNIPHY1_TX312P5M">> \in Qca!Parents(ck)
  <2>1. <<1, "UNIPHY1_TX312P5M">> \in Qca!Parents(ck)
    BY DEF Qca!Parents
  <2>2. rcg[ck] = Qca!ParentSet(c.rcg, ck, "UNIPHY1_TX312P5M")
    BY <1>2
  <2> QED  BY <1>2, <1>4, <2>1, <2>2, ParentSetIs
<1> HIDE DEF rcg, m0
<1>8. /\ ChipOK(m0) /\ SameRest(c, m0) /\ m0.raw = c.raw /\ m0.uniphy0_sel = c.uniphy0_sel
      /\ m0.on = c.on /\ m0.cdiv = c.cdiv /\ m0.rcg = rcg
  BY <1>5 DEF m0, ChipOK, ChipFields, SameRest
<1>9. Programmed(m0, m1, Qca!Core, HdivFor(312500, 312500), DivFor(312500, 312500))
  <2>1. FromSource(m0, ck, "UNIPHY1_TX312P5M")
    BY <1>7, <1>8, Zenon DEF FromSource
  <2>2. Qca!SourceRate(m0, ck) = 312500
    BY <1>2, <2>1, SourceKnown, SMT DEF Qca!Prate
  <2>3. 312500 \in Qca!Rates(Qca!Core) /\ CanGive(312500, 312500)
    <3>1. Qca!Rates(Qca!Core) = {312500}
      BY SMT DEF Qca!Rates, Qca!Core, Qca!Ahb, Qca!Sys
    <3> QED  BY <3>1, SMT DEF CanGive
  <2> QED  BY <1>2, <1>8, <2>2, <2>3, RateSetGives, SMT
<1> HIDE DEF m1
<1>10. /\ Rated(m0, m1, {ck}) /\ ChipOK(m1)
       /\ FromSource(m1, ck, "UNIPHY1_TX312P5M") /\ m1.rcg[ck].hdiv = 1 /\ m1.cdiv[Qca!Core] = 0
  <2>1. HdivFor(312500, 312500) = 1 /\ DivFor(312500, 312500) = 0
    BY SMT DEF HdivFor, DivFor, Qca!Hdiv, Qca!HdivMax
  <2>2. Programmed(m0, m1, Qca!Core, 1, 0)
    BY <1>9, <2>1, SMT
  <2>3. 1 \in 0 .. Qca!HdivMax
    BY DEF Qca!HdivMax
  <2> QED  BY <1>2, <1>7, <1>8, <2>2, <2>3 DEF Programmed, Rated, FromSource
<1> HIDE DEF m2
<1>11. Rated(m1, m2, {ak}) /\ ChipOK(m2)
  <2>1. 104160 \in AnyRate
    BY SMT DEF AnyRate
  <2>2. Rated(m1, m2, {Qca!RcgOf(Qca!Ahb)})
    BY <1>2, <1>10, <2>1, RateSetFrame, SMT DEF m2
  <2> QED  BY <1>2, <2>2 DEF Rated
<1> HIDE DEF m3
<1>12. Rated(m2, m3, {sk}) /\ ChipOK(m3)
  <2>1. 25000 \in AnyRate
    BY SMT DEF AnyRate
  <2>2. Rated(m2, m3, {Qca!RcgOf(Qca!Sys)})
    BY <1>2, <1>11, <2>1, RateSetFrame, SMT DEF m3
  <2> QED  BY <1>2, <2>2 DEF Rated
<1>13. Rated(m1, m3, {ak, sk})
  BY <1>11, <1>12, RatedTrans
<1>14. Rated(m0, m3, {ck, ak, sk})
  BY <1>10, <1>13, RatedTrans
<1>15. /\ FromSource(m3, ck, "UNIPHY1_TX312P5M") /\ m3.rcg[ck].hdiv = 1 /\ m3.cdiv[Qca!Core] = 0
  BY <1>2, <1>10, <1>13 DEF Rated, FromSource
<1>16. CoreAt(m3)
  BY <1>15 DEF CoreAt, FromSource
<1>17. /\ SameRest(c, m3) /\ m3.raw = c.raw /\ m3.uniphy0_sel = c.uniphy0_sel /\ m3.on = c.on
       /\ \A p \in Qca!Ports, d \in Dirs : m3.rcg[<<p, d>>] = c.rcg[<<p, d>>]
       /\ \A clk \in Qca!Clocks : m3.cdiv[clk] = c.cdiv[clk]
  <2>1. \A p \in Qca!Ports, d \in Dirs : m3.rcg[<<p, d>>] = c.rcg[<<p, d>>]
    <3>1. ASSUME NEW p \in Qca!Ports, NEW d \in Dirs PROVE m3.rcg[<<p, d>>] = c.rcg[<<p, d>>]
      <4>1. <<p, d>> \in Qca!Rcgs \ {ck, ak, sk}
        BY <1>2, <3>1
      <4> QED  BY <1>6, <1>8, <1>14, <4>1 DEF Rated
    <3> QED  BY <3>1
  <2>2. \A clk \in Qca!Clocks : m3.cdiv[clk] = c.cdiv[clk]
    BY <1>3, <1>8, <1>14 DEF Rated
  <2> QED  BY <1>8, <1>14, <2>1, <2>2 DEF Rated, SameRest
<1> DEFINE n == Qca!ClkEnSet(m3, {Qca!SwitchCore, Qca!Serdes0}, mode \notin Qca!PhyModes)
<1>18. /\ ChipOK(n) /\ SameRest(m3, n) /\ n.raw = m3.raw /\ n.uniphy0_sel = m3.uniphy0_sel
       /\ n.on = IF mode \notin Qca!PhyModes THEN m3.on \cup {Qca!SwitchCore, Qca!Serdes0}
                 ELSE m3.on \ {Qca!SwitchCore, Qca!Serdes0}
       /\ n.rcg = m3.rcg /\ n.cdiv = m3.cdiv
  <2>1. Enabled(m3, n, {Qca!SwitchCore, Qca!Serdes0}, mode \notin Qca!PhyModes)
    BY <1>12, EnableIs, Zenon DEF n
  <2> QED  BY <2>1, Zenon DEF Enabled
<1> HIDE DEF n
<1>19. CoreAt(n) /\ SameRest(c, n)
  BY <1>16, <1>17, <1>18 DEF CoreAt, SameRest
<1> QED  BY <1>1, <1>17, <1>18, <1>19, Zenon DEF n

Masked(mode, bmp) == {m[1] : m \in Qca!ClkMask(mode, bmp)}

RawKnown(c) == [u \in {0, 1} |-> IF c.raw[u] = 0 THEN 312500 ELSE c.raw[u]]

(* What a clock initialisation leaves.                                     *)
Initialised(c, n, mode, bmp) ==
  /\ ChipOK(n) /\ SameRest(c, n) /\ CoreAt(n)
  /\ n.raw = RawKnown(c)
  /\ n.uniphy0_sel = IF Qca!Port5 \notin Masked(mode, bmp) THEN c.uniphy0_sel
                     ELSE IF mode \in {"SWITCH_BYPASS_PORT5", "PHY_SGMII_UQXGMII"} THEN "MAC4" ELSE "MAC5"
  /\ mode \in Qca!PhyModes => n.on = c.on \ {Qca!SwitchCore, Qca!Serdes0}
  /\ mode \notin Qca!PhyModes =>
       n.on = c.on \cup {Qca!SwitchCore, Qca!Serdes0} \cup {m \in Qca!ClkMask(mode, bmp) : m[2] # "ephy"}
  /\ \A p \in Qca!Ports, d \in Dirs :
       /\ n.rcg[<<p, d>>].hdiv = c.rcg[<<p, d>>].hdiv
       /\ p \notin Masked(mode, bmp) => n.rcg[<<p, d>>] = c.rcg[<<p, d>>]
       /\ \A v \in Nat : p \in Masked(mode, bmp) /\ <<v, Qca!PortParent(mode, p, d)>> \in Qca!Parents(<<p, d>>) =>
            FromSource(n, <<p, d>>, Qca!PortParent(mode, p, d))
  /\ \A clk \in Qca!Clocks : n.cdiv[clk] = c.cdiv[clk]

(* Initialising the clocks does that and no more.                          *)
LEMMA ClocksInitialised ==
  ASSUME NEW c, ChipOK(c), NEW mode, NEW bmp
  PROVE  Initialised(c, Qca!GccClockInit(c, mode, bmp), mode, bmp)
<1> DEFINE common == Qca!CommonClkParentEnable(c, mode)
           mask == Qca!ClkMask(mode, bmp)
           known == [common EXCEPT !.raw = [u \in {0, 1} |-> IF @[u] = 0 THEN 312500 ELSE @[u]]]
           ports == {m[1] : m \in mask}
           fed == Qca!GccPortClkParentSet(known, mode, ports)
           groups == {m \in mask : m[2] # "ephy" /\ mode \notin Qca!PhyModes}
           n == Qca!ClkEnSet(fed, groups, TRUE)
           raw == RawKnown(c)
<1>1. Qca!GccClockInit(c, mode, bmp) = n
  BY SMT DEF Qca!GccClockInit
<1>2. /\ ChipOK(common) /\ SameRest(c, common) /\ common.raw = c.raw /\ common.uniphy0_sel = c.uniphy0_sel
      /\ common.on = IF mode \notin Qca!PhyModes THEN c.on \cup {Qca!SwitchCore, Qca!Serdes0}
                     ELSE c.on \ {Qca!SwitchCore, Qca!Serdes0}
      /\ \A p \in Qca!Ports, d \in Dirs : common.rcg[<<p, d>>] = c.rcg[<<p, d>>]
      /\ \A clk \in Qca!Clocks : common.cdiv[clk] = c.cdiv[clk]
      /\ CoreAt(common)
  BY CoreRuns, Zenon
<1> HIDE DEF common
<1>3. raw \in [{0, 1} -> {0, 125000, 312500}] /\ c.raw \in [{0, 1} -> {0, 125000, 312500}]
  BY SMT DEF ChipOK, RawKnown
<1>4. known = [common EXCEPT !.raw = raw]
  BY <1>2, SMT DEF RawKnown
<1> HIDE DEF raw, known
<1>5. /\ ChipOK(known) /\ SameRest(common, known) /\ known.raw = raw /\ known.on = common.on
      /\ known.uniphy0_sel = common.uniphy0_sel /\ known.rcg = common.rcg /\ known.cdiv = common.cdiv
  <2>1. /\ DOMAIN known = ChipFields /\ known.raw = raw
        /\ \A f \in ChipFields : f # "raw" => known[f] = common[f]
    BY <1>2, <1>4 DEF ChipOK, ChipFields
  <2> QED  BY <1>2, <1>3, <2>1, SMT DEF ChipOK, SameRest, ChipFields
<1>6. /\ Switched(known, fed)
      /\ fed.uniphy0_sel = IF Qca!Port5 \notin ports THEN known.uniphy0_sel
                           ELSE IF mode \in {"SWITCH_BYPASS_PORT5", "PHY_SGMII_UQXGMII"}
                                THEN "MAC4" ELSE "MAC5"
      /\ \A k \in Qca!Rcgs : k[1] \notin ports \/ k[2] \notin Dirs => fed.rcg[k] = known.rcg[k]
      /\ \A p \in Qca!Ports, d \in Dirs, v \in Nat :
           p \in ports /\ <<v, Qca!PortParent(mode, p, d)>> \in Qca!Parents(<<p, d>>) =>
             FromSource(fed, <<p, d>>, Qca!PortParent(mode, p, d))
  BY <1>5, PortsSwitched, Zenon
<1> HIDE DEF fed
<1>7. Enabled(fed, n, groups, TRUE)
  BY <1>6, EnableIs, Zenon DEF Switched
<1> HIDE DEF n
<1>8. /\ ChipOK(n) /\ SameRest(c, n) /\ n.raw = raw /\ n.on = common.on \cup groups
      /\ n.uniphy0_sel = fed.uniphy0_sel /\ n.rcg = fed.rcg /\ n.cdiv = common.cdiv
  BY <1>2, <1>5, <1>6, <1>7 DEF Enabled, Switched, SameRest
<1>9. ASSUME NEW p \in Qca!Ports, NEW d \in Dirs
      PROVE  /\ n.rcg[<<p, d>>].hdiv = c.rcg[<<p, d>>].hdiv
             /\ p \notin ports => n.rcg[<<p, d>>] = c.rcg[<<p, d>>]
  <2>1. <<p, d>> \in Qca!Rcgs /\ <<p, d>>[1] = p
    BY DEF Qca!Rcgs, Dirs
  <2> QED  BY <1>2, <1>5, <1>6, <1>8, <2>1 DEF Switched
<1>10. ASSUME NEW p \in Qca!Ports, NEW d \in Dirs, NEW v \in Nat, p \in ports,
              <<v, Qca!PortParent(mode, p, d)>> \in Qca!Parents(<<p, d>>)
       PROVE  FromSource(n, <<p, d>>, Qca!PortParent(mode, p, d))
  <2>1. FromSource(fed, <<p, d>>, Qca!PortParent(mode, p, d))
    BY <1>6, <1>10, Zenon
  <2> QED  BY <1>8, <2>1, Zenon DEF FromSource
<1>11. CoreAt(n)
  <2>1. <<Qca!Cpu, "core">> \in Qca!Rcgs /\ <<Qca!Cpu, "core">>[2] \notin Dirs
    BY DEF Qca!Rcgs, Dirs
  <2>2. n.rcg[<<Qca!Cpu, "core">>] = common.rcg[<<Qca!Cpu, "core">>]
    BY <1>5, <1>6, <1>8, <2>1
  <2> QED  BY <1>2, <1>8, <2>2, Zenon DEF CoreAt
<1>12. /\ mode \in Qca!PhyModes => n.on = c.on \ {Qca!SwitchCore, Qca!Serdes0}
       /\ mode \notin Qca!PhyModes =>
            n.on = c.on \cup {Qca!SwitchCore, Qca!Serdes0} \cup {m \in mask : m[2] # "ephy"}
  <2>1. CASE mode \in Qca!PhyModes
    <3>1. groups = {}
      BY <2>1, Zenon
    <3> QED  BY <1>2, <1>8, <2>1, <3>1, Zenon
  <2>2. CASE mode \notin Qca!PhyModes
    <3>1. groups = {m \in mask : m[2] # "ephy"}
      BY <2>2, Zenon
    <3> QED  BY <1>2, <1>8, <2>2, <3>1, Zenon
  <2> QED  BY <2>1, <2>2
<1>13. n.uniphy0_sel = IF Qca!Port5 \notin ports THEN c.uniphy0_sel
                       ELSE IF mode \in {"SWITCH_BYPASS_PORT5", "PHY_SGMII_UQXGMII"} THEN "MAC4" ELSE "MAC5"
  BY <1>2, <1>5, <1>6, <1>8, Zenon
<1>14. \A clk \in Qca!Clocks : n.cdiv[clk] = c.cdiv[clk]
  BY <1>2, <1>8
<1>15. ports = Masked(mode, bmp)
  BY Zenon DEF Masked
<1> HIDE DEF ports
<1>16. Initialised(c, n, mode, bmp)
  BY <1>8, <1>9, <1>10, <1>11, <1>12, <1>13, <1>14, <1>15, Zenon DEF Initialised, raw
<1> QED  BY <1>1, <1>16, Zenon

ChipSpeeds == {10, 100, 1000, 2500}

(* Every speed has its MAC rate, and its XGMII rate.                       *)
LEMMA GmiiRates ==
  ASSUME NEW speed \in ChipSpeeds
  PROVE  /\ Qca!GmiiClk(speed) \in MacRates
         /\ XgmiiRate(Qca!GmiiClk(speed)) = IF speed = 2500 THEN Qca!XpcsClk ELSE Qca!GmiiClk(speed)
BY SMT DEF ChipSpeeds, Qca!GmiiClk, MacRates, XgmiiRate, Qca!XpcsClk

(* What the serdes of the bypass gives is enough for its speed.            *)
SgmiiRate(speed) == IF speed = 2500 THEN 312500 ELSE 125000
LEMMA SpeedGiven ==
  ASSUME NEW speed \in ChipSpeeds
  PROVE  CanGive(SgmiiRate(speed), Qca!GmiiClk(speed)) /\ SgmiiRate(speed) \in {0, 125000, 312500}
BY SMT DEF ChipSpeeds, Qca!GmiiClk, CanGive, SgmiiRate

(* The fixed clocks are enough for every speed.                            *)
LEMMA FullGiven ==
  ASSUME NEW speed \in ChipSpeeds PROVE CanGive(FullRate, Qca!GmiiClk(speed))
BY SMT DEF ChipSpeeds, Qca!GmiiClk, CanGive, FullRate

FixedSources == {"UNIPHY1_TX312P5M", "UNIPHY1_RX312P5M"}
(* The clocks of serdes 1 that never change.                               *)
LEMMA FixedRate ==
  ASSUME NEW c, NEW k \in Qca!Rcgs, NEW parent \in FixedSources, FromSource(c, k, parent)
  PROVE  Qca!SourceRate(c, k) = FullRate
<1>1. Qca!SourceRate(c, k) = Qca!Prate(c, parent)
  BY SourceKnown
<1> QED  BY <1>1, SMT DEF Qca!Prate, FixedSources, FullRate

(* There are two directions.                                               *)
LEMMA DirIs == ASSUME NEW d \in Dirs PROVE d = "tx" \/ d = "rx"
BY DEF Dirs
(* A port's generators and clocks.                                         *)
LEMMA PortKeys ==
  ASSUME NEW p \in Qca!Ports, NEW d \in Dirs
  PROVE  /\ <<p, d>> \in Qca!Rcgs /\ <<p, d>>[1] = p /\ <<p, d>>[2] = d
         /\ \A kind \in {"gmii", "xgmii"} :
              <<p, d, kind>> \in Qca!Clocks /\ <<p, d, kind>> \in AllClocks /\ Qca!RcgOf(<<p, d, kind>>) = <<p, d>>
BY DEF Qca!Rcgs, Dirs, Qca!Clocks, AllClocks, Qca!RcgOf

(* The source every port has in the modes that are configured.             *)
LEMMA PortSources ==
  ASSUME NEW p \in Qca!Ports, NEW d \in Dirs, NEW mode
  PROVE  /\ p \in Phys /\ mode = "PHY_UQXGMII" =>
              /\ Qca!PortParent(mode, p, d) = IF d = "tx" THEN "UNIPHY1_RX312P5M" ELSE "UNIPHY1_TX312P5M"
              /\ \E v \in Nat : <<v, Qca!PortParent(mode, p, d)>> \in Qca!Parents(<<p, d>>)
         /\ p \in Phys /\ (mode = "SWITCH" \/ (mode = "SWITCH_BYPASS_PORT5" /\ p # Qca!Bypass)) =>
              /\ Qca!PortParent(mode, p, d) = "UNIPHY1_TX312P5M"
              /\ \E v \in Nat : <<v, Qca!PortParent(mode, p, d)>> \in Qca!Parents(<<p, d>>)
         /\ p = Qca!Bypass /\ mode = "SWITCH_BYPASS_PORT5" =>
              /\ Qca!PortParent(mode, p, d) = IF d = "tx" THEN "UNIPHY0_RX" ELSE "UNIPHY0_TX"
              /\ \E v \in Nat : <<v, Qca!PortParent(mode, p, d)>> \in Qca!Parents(<<p, d>>)
         /\ p = Qca!Cpu =>
              /\ Qca!PortParent(mode, p, d) = IF d = "tx" THEN "UNIPHY1_TX" ELSE "UNIPHY1_RX"
              /\ \E v \in Nat : <<v, Qca!PortParent(mode, p, d)>> \in Qca!Parents(<<p, d>>)
<1>1. p \in 0 .. 5 /\ (p \in Phys => p \in 1 .. 4)
  BY QcaIs DEF Qca!Qca8x8xAssumption, Qca!Ports, Qca!Cpu, Qca!Port5
<1>2. p \in Phys => \E v \in Nat : <<v, "UNIPHY1_TX312P5M">> \in Qca!Parents(<<p, d>>)
  <2>1. CASE d = "tx" /\ p \in Phys
    <3>1. \A v : v \in {3, 6} => v \in Nat
      OBVIOUS
    <3>2. \E v \in {3, 6} : <<v, "UNIPHY1_TX312P5M">> \in Qca!Parents(<<p, d>>)
      BY <1>1, <2>1 DEF Qca!Parents, Qca!Cpu, Qca!Port5, Qca!Bypass
    <3> QED  BY <3>1, <3>2
  <2>2. CASE d = "rx" /\ p \in Phys
    <3>1. \A v : v \in {3, 6} => v \in Nat
      OBVIOUS
    <3>2. \E v \in {3, 6} : <<v, "UNIPHY1_TX312P5M">> \in Qca!Parents(<<p, d>>)
      BY <1>1, <2>2 DEF Qca!Parents, Qca!Cpu, Qca!Port5, Qca!Bypass
    <3> QED  BY <3>1, <3>2
  <2> QED  BY <2>1, <2>2, DirIs
<1>3. p \in Phys /\ d = "tx" => \E v \in Nat : <<v, "UNIPHY1_RX312P5M">> \in Qca!Parents(<<p, d>>)
  <2>1. p \in Phys /\ d = "tx" => <<7, "UNIPHY1_RX312P5M">> \in Qca!Parents(<<p, d>>)
    BY <1>1 DEF Qca!Parents, Qca!Cpu, Qca!Port5, Qca!Bypass
  <2> QED  BY <2>1
<1>4. p = Qca!Bypass => /\ d = "tx" => <<1, "UNIPHY0_RX">> \in Qca!Parents(<<p, d>>)
                        /\ d = "rx" => <<2, "UNIPHY0_TX">> \in Qca!Parents(<<p, d>>)
  BY DEF Qca!Parents, Qca!Cpu, Qca!Port5, Qca!Bypass
<1>5. p = Qca!Cpu => /\ d = "tx" => <<2, "UNIPHY1_TX">> \in Qca!Parents(<<p, d>>)
                     /\ d = "rx" => <<1, "UNIPHY1_RX">> \in Qca!Parents(<<p, d>>)
  BY DEF Qca!Parents, Qca!Cpu, Qca!Port5, Qca!Bypass
<1>6. /\ p \in Phys /\ mode = "PHY_UQXGMII" =>
           Qca!PortParent(mode, p, d) = IF d = "tx" THEN "UNIPHY1_RX312P5M" ELSE "UNIPHY1_TX312P5M"
      /\ p \in Phys /\ (mode = "SWITCH" \/ (mode = "SWITCH_BYPASS_PORT5" /\ p # Qca!Bypass)) =>
           Qca!PortParent(mode, p, d) = "UNIPHY1_TX312P5M"
      /\ p = Qca!Bypass /\ mode = "SWITCH_BYPASS_PORT5" =>
           Qca!PortParent(mode, p, d) = IF d = "tx" THEN "UNIPHY0_RX" ELSE "UNIPHY0_TX"
      /\ p = Qca!Cpu => Qca!PortParent(mode, p, d) = IF d = "tx" THEN "UNIPHY1_TX" ELSE "UNIPHY1_RX"
  BY <1>1, DirIs DEF Qca!PortParent, Qca!PhyModes, Qca!Cpu, Qca!Port5, Qca!Bypass
<1> HIDE DEF Qca!Bypass
<1>7. 1 \in Nat /\ 2 \in Nat
  OBVIOUS
<1>8. ASSUME p \in Phys, mode = "PHY_UQXGMII"
      PROVE  \E v \in Nat : <<v, Qca!PortParent(mode, p, d)>> \in Qca!Parents(<<p, d>>)
  BY <1>2, <1>3, <1>6, <1>8, DirIs
<1>9. ASSUME p \in Phys, mode = "SWITCH" \/ (mode = "SWITCH_BYPASS_PORT5" /\ p # Qca!Bypass)
      PROVE  \E v \in Nat : <<v, Qca!PortParent(mode, p, d)>> \in Qca!Parents(<<p, d>>)
  BY <1>2, <1>6, <1>9
<1>10. ASSUME p = Qca!Bypass, mode = "SWITCH_BYPASS_PORT5"
       PROVE  \E v \in Nat : <<v, Qca!PortParent(mode, p, d)>> \in Qca!Parents(<<p, d>>)
  BY <1>4, <1>6, <1>7, <1>10, DirIs
<1>11. ASSUME p = Qca!Cpu
       PROVE  \E v \in Nat : <<v, Qca!PortParent(mode, p, d)>> \in Qca!Parents(<<p, d>>)
  BY <1>5, <1>6, <1>7, <1>11, DirIs
<1> QED  BY <1>6, <1>8, <1>9, <1>10, <1>11

(* The ports a mode initialises.                                           *)
LEMMA MaskedPorts ==
  /\ Masked("PHY_UQXGMII", {}) = Phys
  /\ Masked("SWITCH", Phys \cup {Qca!Cpu}) = Phys \cup {Qca!Cpu}
  /\ Masked("SWITCH_BYPASS_PORT5", (Phys \ {Qca!Bypass}) \cup {Qca!Cpu}) = Phys \cup {Qca!Cpu, Qca!Port5}
<1>1. Phys \subseteq 1 .. 4 /\ Qca!Bypass \in Phys /\ Qca!Switch \in Phys
  BY QcaIs DEF Qca!Qca8x8xAssumption
<1>2. \A p \in Phys : p # Qca!Cpu /\ p # Qca!Port5
  BY <1>1 DEF Qca!Cpu, Qca!Port5
<1>3. Masked("PHY_UQXGMII", {}) = Phys
  <2>1. Qca!ClkMask("PHY_UQXGMII", {}) = Phys \X {"uniphy", "ephy"}
    BY DEF Qca!ClkMask
  <2>2. ASSUME NEW p \in Phys PROVE <<p, "ephy">> \in Phys \X {"uniphy", "ephy"} /\ <<p, "ephy">>[1] = p
    BY <2>2
  <2> HIDE DEF Qca!Switch
  <2> QED  BY <2>1, <2>2 DEF Masked
<1>4. Masked("SWITCH", Phys \cup {Qca!Cpu}) = Phys \cup {Qca!Cpu}
  <2> DEFINE bmp == Phys \cup {Qca!Cpu}
             mask == (bmp \X {"mac"}) \cup ((bmp \cap {Qca!Cpu, Qca!Port5}) \X {"uniphy"})
                       \cup ((bmp \ {Qca!Cpu, Qca!Port5}) \X {"ephy"})
  <2>1. Qca!ClkMask("SWITCH", bmp) = mask
    BY DEF Qca!ClkMask
  <2>2. ASSUME NEW p \in bmp PROVE <<p, "mac">> \in mask /\ <<p, "mac">>[1] = p
    BY <2>2
  <2>3. ASSUME NEW m \in mask PROVE m[1] \in bmp
    BY <2>3
  <2> HIDE DEF bmp, mask
  <2>4. Masked("SWITCH", bmp) = bmp
    BY <2>1, <2>2, <2>3 DEF Masked
  <2> QED  BY <2>4 DEF bmp
<1>5. Masked("SWITCH_BYPASS_PORT5", (Phys \ {Qca!Bypass}) \cup {Qca!Cpu}) = Phys \cup {Qca!Cpu, Qca!Port5}
  <2> DEFINE bmp == (Phys \ {Qca!Bypass}) \cup {Qca!Cpu}
             all == Phys \cup {Qca!Cpu, Qca!Port5}
             mask == ((bmp \ {Qca!Bypass, Qca!Port5}) \X {"mac"}) \cup {<<Qca!Cpu, "uniphy">>, <<Qca!Port5, "uniphy">>}
                       \cup (((bmp \ {Qca!Cpu, Qca!Port5}) \cup {Qca!Bypass}) \X {"ephy"})
  <2>1. Qca!ClkMask("SWITCH_BYPASS_PORT5", bmp) = mask
    BY DEF Qca!ClkMask
  <2>2. ASSUME NEW p \in Phys PROVE <<p, "ephy">> \in mask /\ <<p, "ephy">>[1] = p
    BY <1>2, <2>2
  <2>3. ASSUME NEW m \in mask PROVE m[1] \in all
    BY <1>1, <2>3
  <2>4. /\ <<Qca!Cpu, "uniphy">> \in mask /\ <<Qca!Cpu, "uniphy">>[1] = Qca!Cpu
        /\ <<Qca!Port5, "uniphy">> \in mask /\ <<Qca!Port5, "uniphy">>[1] = Qca!Port5
    OBVIOUS
  <2>5. \A p \in all : p \in Phys \/ p = Qca!Cpu \/ p = Qca!Port5
    OBVIOUS
  <2>6. Phys \subseteq all /\ Qca!Cpu \in all /\ Qca!Port5 \in all
    OBVIOUS
  <2> HIDE DEF bmp, mask, all
  <2>7. Masked("SWITCH_BYPASS_PORT5", bmp) = all
    BY <2>1, <2>2, <2>3, <2>4, <2>5 DEF Masked
  <2> QED  BY <2>7 DEF bmp, all
<1> QED  BY <1>3, <1>4, <1>5

(* Four PHYs, from a chip in any state.                                    *)
LEMMA PhysConfigured ==
  ASSUME NEW c, ChipOK(c)
  PROVE  LET n == Qca!GccClockInit(Qca!UqxgmiiModeSet(c), "PHY_UQXGMII", {})
         IN ChipOK(n) /\ PhyReady(n) /\ n.work_mode = c.work_mode /\ Qca!SwitchCore \notin n.on
<1> DEFINE off == Qca!ClkEnSet(c, Phys \X {"uniphy", "ephy"}, FALSE)
           m == Qca!UqxgmiiModeSet(c)
           n == Qca!GccClockInit(m, "PHY_UQXGMII", {})
<1>1. Enabled(c, off, Phys \X {"uniphy", "ephy"}, FALSE)
  BY EnableIs, Zenon
<1>2. m = [off EXCEPT !.serdes[1] = [mode |-> "XPCS", side |-> "none"],
                      !.xpcs_rst = FALSE, !.xpcs_speed = [p \in Phys |-> 1000]]
  BY SMT DEF Qca!UqxgmiiModeSet
<1> HIDE DEF off, m
<1>3. /\ ChipOK(off) /\ off.work_mode = c.work_mode
  BY <1>1 DEF Enabled, SameRest
<1>4. ChipOK(m) /\ m.work_mode = c.work_mode /\ m.serdes[1].mode = "XPCS" /\ m.xpcs_rst = FALSE
  <2>1. /\ DOMAIN m = ChipFields /\ m.work_mode = off.work_mode
        /\ m.serdes = [off.serdes EXCEPT ![1] = [mode |-> "XPCS", side |-> "none"]]
        /\ m.xpcs_rst = FALSE /\ m.xpcs_speed = [p \in Phys |-> 1000]
        /\ m.rcg = off.rcg /\ m.cdiv = off.cdiv /\ m.raw = off.raw /\ m.mac_speed = off.mac_speed
    BY <1>2, <1>3, SMT DEF ChipOK, ChipFields
  <2> QED  BY <1>3, <2>1, SMT DEF ChipOK
<1>5. Initialised(m, n, "PHY_UQXGMII", {})
  BY <1>4, ClocksInitialised, Zenon
<1> HIDE DEF n
<1>6. "PHY_UQXGMII" \in Qca!PhyModes
  BY DEF Qca!PhyModes
<1>7. /\ ChipOK(n) /\ n.work_mode = c.work_mode /\ n.on = m.on \ {Qca!SwitchCore, Qca!Serdes0}
      /\ n.serdes[1].mode = "XPCS" /\ ~n.xpcs_rst
  BY <1>3, <1>4, <1>5, <1>6 DEF Initialised, SameRest
<1>8. ASSUME NEW p \in Phys, NEW d \in Dirs
      PROVE  FromSource(n, <<p, d>>, IF d = "tx" THEN "UNIPHY1_RX312P5M" ELSE "UNIPHY1_TX312P5M")
  <2>1. p \in Qca!Ports /\ p \in Masked("PHY_UQXGMII", {})
    BY MaskedPorts DEF Qca!Ports
  <2>2. PICK v \in Nat : <<v, Qca!PortParent("PHY_UQXGMII", p, d)>> \in Qca!Parents(<<p, d>>)
    BY <2>1, PortSources
  <2>3. FromSource(n, <<p, d>>, Qca!PortParent("PHY_UQXGMII", p, d))
    BY <1>5, <2>1, <2>2 DEF Initialised
  <2> QED  BY <2>1, <2>3, PortSources
<1>9. PhyReady(n)
  BY <1>7, <1>8 DEF PhyReady, Dirs
<1>10. Qca!SwitchCore \notin n.on
  BY <1>7, Zenon
<1> QED  BY <1>7, <1>9, <1>10, Zenon DEF n, m

(* Branches that came on.                                                  *)
LEMMA EnabledOn == ASSUME NEW c, NEW n, NEW g, Enabled(c, n, g, TRUE) PROVE n.on = c.on \cup g
BY Zenon DEF Enabled
(* Branches that went off.                                                 *)
LEMMA EnabledOff == ASSUME NEW c, NEW n, NEW g, Enabled(c, n, g, FALSE) PROVE n.on = c.on \ g
BY Zenon DEF Enabled

BypassGroups == {<<Qca!Bypass, "ephy">>, <<Qca!Port5, "uniphy">>}

(* What changes when the fourth PHY is given the speed of its link.        *)
Bypassed(c, n, link, speed) ==
  /\ ChipOK(n) /\ n.work_mode = c.work_mode /\ n.uniphy0_sel = c.uniphy0_sel
  /\ n.mac_on = c.mac_on /\ n.mac_speed = c.mac_speed
  /\ n.serdes[1] = c.serdes[1] /\ n.raw[1] = c.raw[1]
  /\ n.serdes[0].side = "PHY" /\ (n.serdes[0].mode = "SGMII_PLUS" <=> speed = 2500)
  /\ n.on = IF link THEN c.on \cup BypassGroups ELSE c.on \ BypassGroups
  /\ \A k \in Qca!Rcgs \ ({Qca!Bypass} \X Dirs) : n.rcg[k] = c.rcg[k]
  /\ \A clk \in AllClocks : Qca!RcgOf(clk) \notin {Qca!Bypass} \X Dirs => n.cdiv[clk] = c.cdiv[clk]
  /\ BypassReady(c) => BypassReady(n) /\ RunsTwo(n, Qca!Bypass, "gmii", Qca!GmiiClk(speed))

(* Giving the fourth PHY its speed sets serdes 0 first, so that its clocks *)
(* are made from the raw clock they will have; the rest of the chip keeps  *)
(* its clocks.                                                             *)
LEMMA BypassSet ==
  ASSUME NEW c, ChipOK(c), NEW link \in BOOLEAN, NEW speed \in ChipSpeeds
  PROVE  Bypassed(c, Qca!PhySgmiiModeSet(c, link, speed), link, speed)
<1> DEFINE mode == IF speed = 2500 THEN "SGMII_PLUS" ELSE "SGMII"
           config == [mode |-> mode, side |-> "PHY", speed |-> 0]
           freq == Qca!GmiiClk(speed)
           rst == c.xpcs_rst \/ 0 = 1
           set == [c EXCEPT !.raw[0] = SgmiiRate(speed), !.xpcs_rst = rst,
                            !.serdes[0] = [mode |-> mode, side |-> "PHY"]]
           on1 == Qca!ClkEnSet(set, BypassGroups, TRUE)
           off == Qca!ClkEnSet(on1, BypassGroups, FALSE)
           rated == Qca!PortClkRateSet(off, Qca!Bypass, freq)
           on2 == Qca!ClkEnSet(rated, BypassGroups, TRUE)
           n == Qca!PhySgmiiModeSet(c, link, speed)
<1>1. Qca!SgmiiModeSet(c, 0, Qca!Bypass, config) = on1
  <2>1. config.mode = mode /\ config.side = "PHY" /\ config.speed = 0
    OBVIOUS
  <2>2. mode = "SGMII" <=> speed # 2500
    BY SMT
  <2> HIDE DEF config, mode
  <2> DEFINE raw == IF config.mode = "SGMII" THEN 125000 ELSE 312500
  <2>3. raw = SgmiiRate(speed)
    BY <2>1, <2>2, SMT DEF SgmiiRate
  <2> DEFINE groups == {<<Qca!Port5, "uniphy">>} \cup {<<Qca!Bypass, "ephy">>}
             any == [c EXCEPT !.raw[0] = raw,
                              !.xpcs_rst = @ \/ 0 = 1,
                              !.serdes[0] = [mode |-> config.mode, side |-> config.side]]
  <2>4. any = set
    <3> HIDE DEF raw
    <3> QED  BY <2>1, <2>3, Zenon
  <2>5. Qca!SgmiiModeSet(c, 0, Qca!Bypass, config) = Qca!ClkEnSet(any, groups, TRUE)
    BY <2>1, SMT DEF Qca!SgmiiModeSet
  <2>6. groups = BypassGroups
    BY DEF BypassGroups
  <2> HIDE DEF any, groups, set
  <2> QED  BY <2>4, <2>5, <2>6, Zenon
<1>2. n = IF link THEN on2 ELSE rated
  <2>1. n = Qca!SgmiiSpeedFixup(Qca!SgmiiModeSet(c, 0, Qca!Bypass, config), link, speed)
    BY SMT DEF Qca!PhySgmiiModeSet
  <2>2. n = Qca!SgmiiSpeedFixup(on1, link, speed)
    <3> HIDE DEF n, on1, config
    <3> QED  BY <1>1, <2>1, Zenon
  <2> HIDE DEF n, on1
  <2> QED  BY <2>2, Zenon DEF Qca!SgmiiSpeedFixup, Qca!PortSpeedClockSet, BypassGroups
<1>3. /\ ChipOK(set) /\ set.on = c.on /\ set.rcg = c.rcg /\ set.cdiv = c.cdiv /\ set.raw[1] = c.raw[1]
      /\ set.raw[0] = SgmiiRate(speed) /\ set.serdes[1] = c.serdes[1]
      /\ set.serdes[0] = [mode |-> mode, side |-> "PHY"]
      /\ set.xpcs_speed = c.xpcs_speed /\ set.mac_on = c.mac_on /\ set.mac_speed = c.mac_speed
      /\ set.work_mode = c.work_mode /\ set.uniphy0_sel = c.uniphy0_sel
  <2> DEFINE new == [mode |-> mode, side |-> "PHY"]
  <2>1. SgmiiRate(speed) \in {0, 125000, 312500}
    BY SpeedGiven
  <2> HIDE DEF new, mode, rst
  <2>2. /\ DOMAIN set = ChipFields /\ set.raw = [c.raw EXCEPT ![0] = SgmiiRate(speed)]
        /\ set.serdes = [c.serdes EXCEPT ![0] = new]
        /\ set.on = c.on /\ set.rcg = c.rcg /\ set.cdiv = c.cdiv
        /\ set.xpcs_speed = c.xpcs_speed /\ set.mac_on = c.mac_on /\ set.mac_speed = c.mac_speed
        /\ set.work_mode = c.work_mode /\ set.uniphy0_sel = c.uniphy0_sel
    BY SMT DEF ChipOK, ChipFields, new
  <2>3. set.raw \in [{0, 1} -> {0, 125000, 312500}] /\ set.raw[0] = SgmiiRate(speed) /\ set.raw[1] = c.raw[1]
    BY <2>1, <2>2, SMT DEF ChipOK
  <2>4. DOMAIN set.serdes = {0, 1} /\ set.serdes[0] = new /\ set.serdes[1] = c.serdes[1]
    BY <2>2, SMT DEF ChipOK
  <2> HIDE DEF set
  <2>5. ChipOK(set)
    BY <2>2, <2>3, <2>4 DEF ChipOK
  <2> HIDE DEF new
  <2>7. new = [mode |-> mode, side |-> "PHY"]
    BY DEF new
  <2> QED  BY <2>2, <2>3, <2>4, <2>5, <2>7
<1> HIDE DEF set, on1, off, rated, on2, n, freq, rst
<1>4. Enabled(set, on1, BypassGroups, TRUE) /\ ChipOK(on1)
  <2>2. Enabled(set, on1, BypassGroups, TRUE)
    <3>1. ChipOK(set)
      BY <1>3
    <3> QED  BY <3>1, EnableIs, Zenon DEF on1
  <2> QED  BY <2>2, Zenon DEF Enabled
<1>5. Enabled(on1, off, BypassGroups, FALSE) /\ ChipOK(off)
  <2>1. Enabled(on1, off, BypassGroups, FALSE)
    BY <1>4, EnableIs, Zenon DEF off
  <2> QED  BY <2>1, Zenon DEF Enabled
<1>6. Qca!Bypass \in Qca!Ports /\ Qca!Bypass \in Phys /\ freq \in MacRates
  BY QcaIs, GmiiRates DEF Qca!Qca8x8xAssumption, Qca!Ports, freq
<1>7. Rated(off, rated, {Qca!Bypass} \X Dirs) /\ ChipOK(rated)
  <2>1. Rated(off, rated, {Qca!Bypass} \X Dirs)
    BY <1>5, <1>6, PortRatesFrame, Zenon DEF rated
  <2> QED  BY <2>1, Zenon DEF Rated
<1>8. Enabled(rated, on2, BypassGroups, TRUE)
  BY <1>7, EnableIs, Zenon DEF on2
<1>9. /\ ChipOK(n) /\ SameRest(rated, n) /\ n.rcg = rated.rcg /\ n.cdiv = rated.cdiv
      /\ n.raw = rated.raw /\ n.uniphy0_sel = rated.uniphy0_sel
  BY <1>2, <1>7, <1>8, Zenon DEF Enabled, SameRest
<1>10. n.on = IF link THEN c.on \cup BypassGroups ELSE c.on \ BypassGroups
  <2>1. rated.on = off.on /\ off.on = on1.on \ BypassGroups /\ on1.on = c.on \cup BypassGroups
    <3>1. on1.on = set.on \cup BypassGroups
      BY <1>4, EnabledOn
    <3>2. off.on = on1.on \ BypassGroups
      BY <1>5, EnabledOff
    <3>3. rated.on = off.on
      BY <1>7, Zenon DEF Rated
    <3>4. set.on = c.on
      BY <1>3, Zenon
    <3> QED  BY <3>1, <3>2, <3>3, <3>4
  <2>2. n.on = IF link THEN off.on \cup BypassGroups ELSE off.on
    BY <1>2, <1>8, <2>1, Zenon DEF Enabled
  <2>3. CASE link
    BY <2>1, <2>2, <2>3
  <2>4. CASE ~link
    BY <2>1, <2>2, <2>4
  <2> QED  BY <2>3, <2>4
<1>11. off.rcg = c.rcg /\ off.cdiv = c.cdiv /\ off.raw = set.raw
  <2>1. on1.rcg = set.rcg /\ on1.cdiv = set.cdiv /\ on1.raw = set.raw
    BY <1>4, Zenon DEF Enabled
  <2>2. off.rcg = on1.rcg /\ off.cdiv = on1.cdiv /\ off.raw = on1.raw
    BY <1>5, Zenon DEF Enabled
  <2>3. set.rcg = c.rcg /\ set.cdiv = c.cdiv
    BY <1>3, Zenon
  <2> QED  BY <2>1, <2>2, <2>3
<1>12. /\ \A k \in Qca!Rcgs \ ({Qca!Bypass} \X Dirs) : n.rcg[k] = c.rcg[k]
       /\ \A clk \in AllClocks : Qca!RcgOf(clk) \notin {Qca!Bypass} \X Dirs => n.cdiv[clk] = c.cdiv[clk]
  BY <1>7, <1>9, <1>11, Zenon DEF Rated
<1>13. /\ n.serdes = set.serdes /\ n.raw = set.raw /\ n.work_mode = c.work_mode
       /\ n.uniphy0_sel = c.uniphy0_sel /\ n.mac_on = c.mac_on /\ n.mac_speed = c.mac_speed
  BY <1>3, <1>4, <1>5, <1>7, <1>9 DEF Enabled, Rated, SameRest
<1>14. n.serdes[0].side = "PHY" /\ (n.serdes[0].mode = "SGMII_PLUS" <=> speed = 2500)
  <2>1. n.serdes[0].side = "PHY" /\ n.serdes[0].mode = mode
    BY <1>3, <1>13
  <2> QED  BY <2>1, SMT
<1>15. ASSUME BypassReady(c)
       PROVE  BypassReady(n) /\ RunsTwo(n, Qca!Bypass, "gmii", freq)
  <2>1. ASSUME NEW d \in Dirs
        PROVE  Qca!SourceRate(off, <<Qca!Bypass, d>>) = SgmiiRate(speed)
    <3> DEFINE parent == IF d = "tx" THEN "UNIPHY0_RX" ELSE "UNIPHY0_TX"
    <3>1. <<Qca!Bypass, d>> \in Qca!Rcgs /\ FromSource(c, <<Qca!Bypass, d>>, parent)
      BY <1>6, <1>15, PortKeys, DirIs DEF BypassReady
    <3>2. FromSource(off, <<Qca!Bypass, d>>, parent)
      BY <1>11, <3>1 DEF FromSource
    <3>3. parent \in {"UNIPHY0_RX", "UNIPHY0_TX"}
      OBVIOUS
    <3> HIDE DEF parent
    <3>4. Qca!Prate(off, parent) = off.raw[0]
      BY <3>3 DEF Qca!Prate
    <3>5. Qca!SourceRate(off, <<Qca!Bypass, d>>) = Qca!Prate(off, parent)
      BY <3>1, <3>2, SourceKnown
    <3>6. set.raw[0] = SgmiiRate(speed)
      BY <1>3, Zenon
    <3> QED  BY <1>11, <3>4, <3>5, <3>6
  <2>2. CanGive(SgmiiRate(speed), freq)
    BY SpeedGiven DEF freq
  <2>3. PortAt(rated, off, Qca!Bypass, freq, SgmiiRate(speed))
    BY <1>5, <1>6, <2>1, <2>2, PortRates, Zenon DEF rated
  <2>4. ASSUME NEW d \in Dirs
        PROVE  n.rcg[<<Qca!Bypass, d>>].src = c.rcg[<<Qca!Bypass, d>>].src /\ RunsIn(n, <<Qca!Bypass, d, "gmii">>, freq)
    <3>1. rated.rcg[<<Qca!Bypass, d>>].src = off.rcg[<<Qca!Bypass, d>>].src /\ RunsIn(rated, <<Qca!Bypass, d, "gmii">>, freq)
      BY <2>3, Zenon DEF PortAt
    <3>2. \A k : Qca!SourceRate(n, k) = Qca!SourceRate(rated, k)
      BY <1>9, SMT DEF Qca!SourceRate, Qca!Prate
    <3> QED  BY <1>9, <1>11, <3>1, <3>2, Zenon DEF RunsIn
  <2> QED  BY <1>13, <1>14, <1>15, <2>4 DEF BypassReady, RunsTwo, FromSource, Dirs
<1>16. Bypassed(c, n, link, speed)
  BY <1>3, <1>9, <1>10, <1>12, <1>13, <1>14, <1>15 DEF Bypassed, freq
<1> QED  BY <1>16 DEF n

(* The port to the processor, set up.                                      *)
Interfaced(c, n) ==
  /\ ChipOK(n) /\ n.work_mode = c.work_mode /\ n.serdes[0] = c.serdes[0] /\ n.raw[1] = FullRate
  /\ FromSource(n, <<Qca!Cpu, "tx">>, "UNIPHY1_TX") /\ FromSource(n, <<Qca!Cpu, "rx">>, "UNIPHY1_RX")
  /\ RunsTwo(n, Qca!Cpu, "gmii", FullRate)
  /\ Qca!Cpu \in n.mac_on /\ <<Qca!Cpu, "uniphy">> \in n.on

(* The port to the processor runs from serdes 1.                           *)
LEMMA CpuSource ==
  ASSUME NEW c, NEW d \in Dirs,
         FromSource(c, <<Qca!Cpu, "tx">>, "UNIPHY1_TX"), FromSource(c, <<Qca!Cpu, "rx">>, "UNIPHY1_RX")
  PROVE  Qca!SourceRate(c, <<Qca!Cpu, d>>) = c.raw[1]
<1> DEFINE parent == IF d = "tx" THEN "UNIPHY1_TX" ELSE "UNIPHY1_RX"
<1>1. <<Qca!Cpu, d>> \in Qca!Rcgs /\ FromSource(c, <<Qca!Cpu, d>>, parent)
  BY DirIs, PortKeys DEF Qca!Ports
<1>2. parent \in {"UNIPHY1_RX", "UNIPHY1_TX"}
  OBVIOUS
<1> HIDE DEF parent
<1>3. Qca!Prate(c, parent) = c.raw[1]
  BY <1>2 DEF Qca!Prate
<1>4. Qca!SourceRate(c, <<Qca!Cpu, d>>) = Qca!Prate(c, parent)
  BY <1>1, SourceKnown
<1> QED  BY <1>3, <1>4

(* Setting up that port leaves it at 2.5G, whatever the chip was.          *)
LEMMA ProcessorPort ==
  ASSUME NEW c, ChipOK(c)
  PROVE  Interfaced(c, Qca!InterfaceModeInit(c))
<1> DEFINE config == [mode |-> "SGMII_PLUS", side |-> "MAC", speed |-> 2500]
           fast == [c EXCEPT !.mac_speed[Qca!Cpu] = 2500]
           fed == Qca!GccPortClkParentSet(fast, c.work_mode, {Qca!Cpu})
           set == [fed EXCEPT !.raw[1] = FullRate, !.xpcs_rst = @ \/ 1 = 1,
                              !.serdes[1] = [mode |-> "SGMII_PLUS", side |-> "MAC"]]
           rated == Qca!PortClkRateSet(set, Qca!Cpu, FullRate)
           on == Qca!ClkEnSet(rated, {<<Qca!Cpu, "uniphy">>}, TRUE)
           port5 == IF on.serdes[0].side = "PHY" THEN on ELSE Qca!ClkEnSet(on, {Qca!Serdes0}, FALSE)
           n == [port5 EXCEPT !.mac_on = Qca!MacStatusSet(@, {Qca!Cpu}, TRUE)]
<1>1. Qca!SgmiiModeSet(fed, 1, Qca!Cpu, config) = on
  <2>1. config.mode = "SGMII_PLUS" /\ config.side = "MAC" /\ config.speed # 0
        /\ Qca!GmiiClk(config.speed) = FullRate
    BY SMT DEF Qca!GmiiClk, FullRate
  <2> HIDE DEF config, fed
  <2> DEFINE raw == IF config.mode = "SGMII" THEN 125000 ELSE 312500
             any == [fed EXCEPT !.raw[1] = raw, !.xpcs_rst = @ \/ 1 = 1,
                                !.serdes[1] = [mode |-> config.mode, side |-> config.side]]
             groups == {<<Qca!Cpu, "uniphy">>} \cup {}
  <2>2. raw = FullRate
    BY <2>1, SMT DEF FullRate
  <2>3. any = set
    <3> HIDE DEF raw
    <3> QED  BY <2>1, <2>2, Zenon
  <2>4. Qca!SgmiiModeSet(fed, 1, Qca!Cpu, config) = Qca!ClkEnSet(Qca!PortSpeedClockSet(any, Qca!Cpu, config.speed), groups, TRUE)
    BY <2>1, SMT DEF Qca!SgmiiModeSet
  <2>5. groups = {<<Qca!Cpu, "uniphy">>}
    OBVIOUS
  <2>6. Qca!PortSpeedClockSet(any, Qca!Cpu, config.speed) = rated
    <3> HIDE DEF any, set
    <3> QED  BY <2>1, <2>3, Zenon DEF Qca!PortSpeedClockSet
  <2> HIDE DEF any, groups, rated
  <2> QED  BY <2>4, <2>5, <2>6, Zenon
<1>2. Qca!InterfaceModeInit(c) = n
  <2> DEFINE sg == Qca!SgmiiModeSet(fed, 1, Qca!Cpu, config)
             p5 == IF sg.serdes[0].side = "PHY" THEN sg ELSE Qca!ClkEnSet(sg, {Qca!Serdes0}, FALSE)
             m == [p5 EXCEPT !.mac_on = Qca!MacStatusSet(@, {Qca!Cpu}, TRUE)]
  <2>1. Qca!InterfaceModeInit(c) = m
    BY SMT DEF Qca!InterfaceModeInit
  <2> HIDE DEF config, fed, on
  <2>2. sg = on
    BY <1>1, Zenon
  <2> HIDE DEF sg
  <2>3. p5 = port5
    BY <2>2, Zenon
  <2> HIDE DEF p5, port5
  <2>4. m = n
    BY <2>3, Zenon
  <2> HIDE DEF m, n
  <2> QED  BY <2>1, <2>4, Zenon
<1>3. ChipOK(fast) /\ fast.work_mode = c.work_mode /\ fast.serdes = c.serdes
  <2>1. DOMAIN fast = ChipFields /\ fast.mac_speed = [c.mac_speed EXCEPT ![Qca!Cpu] = 2500]
        /\ \A f \in ChipFields : f # "mac_speed" => fast[f] = c[f]
    BY SMT DEF ChipOK, ChipFields
  <2> HIDE DEF fast
  <2> QED  BY <2>1 DEF ChipOK, ChipFields
<1> HIDE DEF fast, fed, set, rated, on, port5, n
<1>4. Qca!Cpu \in Qca!Ports /\ Qca!Cpu \notin Phys /\ Qca!Cpu \notin LinkEn
  BY QcaIs DEF Qca!Qca8x8xAssumption, Qca!Ports, Qca!Cpu
<1>5. /\ Switched(fast, fed)
      /\ \A d \in Dirs : FromSource(fed, <<Qca!Cpu, d>>, IF d = "tx" THEN "UNIPHY1_TX" ELSE "UNIPHY1_RX")
  <2>1. /\ Switched(fast, fed)
        /\ \A p \in Qca!Ports, d \in Dirs, v \in Nat :
             p \in {Qca!Cpu} /\ <<v, Qca!PortParent(c.work_mode, p, d)>> \in Qca!Parents(<<p, d>>) =>
               FromSource(fed, <<p, d>>, Qca!PortParent(c.work_mode, p, d))
    BY <1>3, PortsSwitched, Zenon DEF fed
  <2>2. ASSUME NEW d \in Dirs
        PROVE  FromSource(fed, <<Qca!Cpu, d>>, IF d = "tx" THEN "UNIPHY1_TX" ELSE "UNIPHY1_RX")
    <3>1. PICK v \in Nat : <<v, Qca!PortParent(c.work_mode, Qca!Cpu, d)>> \in Qca!Parents(<<Qca!Cpu, d>>)
      BY <1>4, PortSources, Zenon
    <3>2. FromSource(fed, <<Qca!Cpu, d>>, Qca!PortParent(c.work_mode, Qca!Cpu, d))
      BY <1>4, <2>1, <3>1, Zenon
    <3> QED  BY <1>4, <3>2, PortSources, Zenon
  <2> QED  BY <2>1, <2>2
<1>6. FullRate \in MacRates /\ CanGive(FullRate, FullRate)
  BY SMT DEF FullRate, MacRates, CanGive
<1>7. /\ ChipOK(set) /\ set.work_mode = c.work_mode /\ set.serdes[0] = c.serdes[0]
      /\ set.raw[1] = FullRate /\ set.rcg = fed.rcg
  <2>1. ChipOK(fed) /\ fed.work_mode = c.work_mode /\ fed.serdes = c.serdes
    BY <1>3, <1>5 DEF Switched, SameRest
  <2> DEFINE new == [mode |-> "SGMII_PLUS", side |-> "MAC"]
             rst == fed.xpcs_rst \/ 1 = 1
  <2> HIDE DEF new, rst
  <2>2. set = [fed EXCEPT !.raw[1] = FullRate, !.xpcs_rst = rst, !.serdes[1] = new]
    BY Zenon DEF set, new, rst
  <2>3. /\ DOMAIN set = ChipFields /\ set.raw = [fed.raw EXCEPT ![1] = FullRate]
        /\ set.serdes = [fed.serdes EXCEPT ![1] = new]
        /\ set.rcg = fed.rcg /\ set.cdiv = fed.cdiv /\ set.xpcs_speed = fed.xpcs_speed
        /\ set.mac_speed = fed.mac_speed /\ set.work_mode = fed.work_mode
    BY <2>1, <2>2, SMT DEF ChipOK, ChipFields
  <2>4. set.raw \in [{0, 1} -> {0, 125000, 312500}] /\ set.raw[1] = FullRate
    BY <2>1, <2>3, SMT DEF ChipOK, FullRate
  <2>5. DOMAIN set.serdes = {0, 1} /\ set.serdes[0] = fed.serdes[0]
    BY <2>1, <2>3, SMT DEF ChipOK
  <2> QED  BY <2>1, <2>3, <2>4, <2>5 DEF ChipOK
<1>8. PortAt(rated, set, Qca!Cpu, FullRate, FullRate)
  <2>1. ASSUME NEW d \in Dirs PROVE Qca!SourceRate(set, <<Qca!Cpu, d>>) = FullRate
    <3>1. FromSource(set, <<Qca!Cpu, "tx">>, "UNIPHY1_TX") /\ FromSource(set, <<Qca!Cpu, "rx">>, "UNIPHY1_RX")
      BY <1>5, <1>7 DEF FromSource, Dirs
    <3> QED  BY <1>7, <3>1, CpuSource
  <2>2. ChipOK(set)
    BY <1>7
  <2> QED  BY <1>4, <1>6, <2>1, <2>2, PortRates, Zenon DEF rated
<1>9. Rated(set, rated, {Qca!Cpu} \X Dirs) /\ ChipOK(rated)
  BY <1>8, Zenon DEF PortAt, Rated
<1>10. Enabled(rated, on, {<<Qca!Cpu, "uniphy">>}, TRUE) /\ ChipOK(on)
  <2>1. Enabled(rated, on, {<<Qca!Cpu, "uniphy">>}, TRUE)
    BY <1>9, EnableIs, Zenon DEF on
  <2> QED  BY <2>1, Zenon DEF Enabled
<1>11. /\ ChipOK(port5) /\ SameRest(on, port5) /\ port5.rcg = on.rcg /\ port5.cdiv = on.cdiv
       /\ port5.raw = on.raw /\ <<Qca!Cpu, "uniphy">> \in port5.on
  <2>1. on.on = rated.on \cup {<<Qca!Cpu, "uniphy">>}
    BY <1>10, EnabledOn
  <2>2. CASE on.serdes[0].side = "PHY"
    BY <1>10, <2>1, <2>2 DEF port5, SameRest
  <2>3. CASE on.serdes[0].side # "PHY"
    <3>1. Enabled(on, port5, {Qca!Serdes0}, FALSE)
      BY <1>10, <2>3, EnableIs, Zenon DEF port5
    <3>2. port5.on = on.on \ {Qca!Serdes0}
      BY <3>1, EnabledOff
    <3>3. <<Qca!Cpu, "uniphy">> # Qca!Serdes0
      BY DEF Qca!Serdes0
    <3> QED  BY <2>1, <3>1, <3>2, <3>3, Zenon DEF Enabled
  <2> QED  BY <2>2, <2>3
<1>12. /\ DOMAIN n = ChipFields /\ Qca!Cpu \in n.mac_on /\ n.work_mode = port5.work_mode
       /\ n.serdes = port5.serdes /\ n.rcg = port5.rcg /\ n.cdiv = port5.cdiv /\ n.raw = port5.raw
       /\ n.on = port5.on /\ n.xpcs_speed = port5.xpcs_speed /\ n.mac_speed = port5.mac_speed
  BY <1>4, <1>11 DEF n, ChipOK, ChipFields, Qca!MacStatusSet
<1>13. ChipOK(n)
  BY <1>11, <1>12 DEF ChipOK
<1>14. /\ n.work_mode = c.work_mode /\ n.serdes[0] = c.serdes[0] /\ n.raw = rated.raw
       /\ n.raw[1] = FullRate /\ n.rcg = rated.rcg /\ n.cdiv = rated.cdiv /\ <<Qca!Cpu, "uniphy">> \in n.on
  <2>1. SameRest(rated, on) /\ on.rcg = rated.rcg /\ on.cdiv = rated.cdiv /\ on.raw = rated.raw
    BY <1>10, Zenon DEF Enabled
  <2>2. rated.work_mode = set.work_mode /\ rated.serdes = set.serdes /\ rated.raw = set.raw
    BY <1>9 DEF Rated
  <2> QED  BY <1>7, <1>11, <1>12, <2>1, <2>2 DEF SameRest
<1>15. ASSUME NEW d \in Dirs
       PROVE  n.rcg[<<Qca!Cpu, d>>].src = set.rcg[<<Qca!Cpu, d>>].src /\ RunsIn(n, <<Qca!Cpu, d, "gmii">>, FullRate)
  <2>1. rated.rcg[<<Qca!Cpu, d>>].src = set.rcg[<<Qca!Cpu, d>>].src /\ RunsIn(rated, <<Qca!Cpu, d, "gmii">>, FullRate)
    BY <1>8, Zenon DEF PortAt
  <2>2. \A k : Qca!SourceRate(n, k) = Qca!SourceRate(rated, k)
    BY <1>14, SMT DEF Qca!SourceRate, Qca!Prate
  <2> QED  BY <1>14, <2>1, <2>2, Zenon DEF RunsIn
<1>16. /\ FromSource(n, <<Qca!Cpu, "tx">>, "UNIPHY1_TX") /\ FromSource(n, <<Qca!Cpu, "rx">>, "UNIPHY1_RX")
  BY <1>5, <1>7, <1>15 DEF FromSource, Dirs
<1>17. Interfaced(c, n)
  BY <1>12, <1>13, <1>14, <1>15, <1>16, Zenon DEF Interfaced, RunsTwo
<1> QED  BY <1>2, <1>17, Zenon

(* The switch core's clock, once set, is at its rate.                      *)
LEMMA CoreRate ==
  ASSUME NEW n, CoreAt(n)
  PROVE  FromSource(n, <<Qca!Cpu, "core">>, "UNIPHY1_TX312P5M") /\ RunsIn(n, Qca!Core, FullRate)
<1> DEFINE k == <<Qca!Cpu, "core">>
<1>1. k \in Qca!Rcgs /\ Qca!RcgOf(Qca!Core) = k
  BY DEF Qca!Rcgs, Qca!RcgOf, Qca!Core
<1>2. FromSource(n, k, "UNIPHY1_TX312P5M") /\ n.rcg[k].hdiv = 1 /\ n.cdiv[Qca!Core] = 0
  BY DEF CoreAt, FromSource
<1> HIDE DEF k
<1>3. Qca!SourceRate(n, k) = FullRate
  BY <1>1, <1>2, FixedRate DEF FixedSources
<1>4. 2 * FullRate = FullRate * (IF 1 = 0 THEN 2 ELSE 1 + 1) * (0 + 1)
  BY SMT DEF FullRate
<1>5. RunsIn(n, Qca!Core, FullRate)
  <2> HIDE DEF FullRate
  <2> QED  BY <1>1, <1>2, <1>3, <1>4, RunsAs, Zenon
<1> QED  BY <1>2, <1>5 DEF k

(* A switch, as its configuration leaves it.                               *)
SwitchedOn(c, n) ==
  /\ ChipOK(n) /\ SwitchReady(n) /\ n.serdes[0] = c.serdes[0]
  /\ n.work_mode = IF dt = "bypass" THEN "SWITCH_BYPASS_PORT5" ELSE "SWITCH"
  /\ dt = "bypass" => BypassReady(n)

SwitchMode == IF dt = "bypass" THEN "SWITCH_BYPASS_PORT5" ELSE "SWITCH"
SwitchPorts == Qca!SwitchPhys \cup {Qca!Cpu}

(* What the mode of a switch uses.                                         *)
LEMMA SwitchMask ==
  ASSUME dt \in {"switch", "bypass"}
  PROVE  /\ SwitchMode \notin Qca!PhyModes
         /\ Masked(SwitchMode, SwitchPorts) = IF dt = "bypass" THEN Phys \cup {Qca!Cpu, Qca!Port5} ELSE Phys \cup {Qca!Cpu}
         /\ \A p \in SwitchPorts : <<p, "mac">> \in {m \in Qca!ClkMask(SwitchMode, SwitchPorts) : m[2] # "ephy"}
         /\ <<Qca!Cpu, "uniphy">> \in {m \in Qca!ClkMask(SwitchMode, SwitchPorts) : m[2] # "ephy"}
<1>1. SwitchMode \notin Qca!PhyModes
  BY DEF SwitchMode, Qca!PhyModes
<1>2. Masked(SwitchMode, SwitchPorts) = IF dt = "bypass" THEN Phys \cup {Qca!Cpu, Qca!Port5} ELSE Phys \cup {Qca!Cpu}
  <2>1. CASE dt = "bypass"
    BY <2>1, MaskedPorts, Zenon DEF SwitchMode, SwitchPorts, Qca!SwitchPhys
  <2>2. CASE dt # "bypass"
    BY <2>2, MaskedPorts, Zenon DEF SwitchMode, SwitchPorts, Qca!SwitchPhys
  <2> QED  BY <2>1, <2>2
<1>3. \A p \in SwitchPorts : p # Qca!Port5 /\ (dt = "bypass" => p # Qca!Bypass)
  BY QcaIs DEF SwitchPorts, Qca!SwitchPhys, Qca!Qca8x8xAssumption, Qca!Cpu, Qca!Port5, Qca!Bypass
<1>4. ASSUME NEW p \in SwitchPorts
      PROVE  <<p, "mac">> \in Qca!ClkMask(SwitchMode, SwitchPorts) /\ <<p, "mac">>[2] # "ephy"
  <2> HIDE DEF Qca!Port5, Qca!Bypass, SwitchPorts
  <2>1. CASE dt = "bypass"
    BY <1>3, <2>1 DEF Qca!ClkMask, SwitchMode
  <2>2. CASE dt = "switch"
    BY <2>2 DEF Qca!ClkMask, SwitchMode
  <2> QED  BY <2>1, <2>2
<1>5. <<Qca!Cpu, "uniphy">> \in Qca!ClkMask(SwitchMode, SwitchPorts) /\ <<Qca!Cpu, "uniphy">>[2] # "ephy"
  BY DEF Qca!ClkMask, SwitchMode, SwitchPorts
<1> QED  BY <1>1, <1>2, <1>4, <1>5

(* Configuring a switch leaves it ready, and in the mode serdes 0 tells:   *)
(* the clock initialisation after the set-up of the processor's port keeps *)
(* the rates of that port.                                                 *)
LEMMA SwitchesOn ==
  ASSUME NEW c, ChipOK(c), dt \in {"switch", "bypass"}, dt = "bypass" <=> c.serdes[0].side = "PHY"
  PROVE  SwitchedOn(c, Qca!SwitchInit(c))
<1> DEFINE found == Qca!WorkModeInit(c)
           quiet == Qca!SwitchConfig(found, SwitchPorts)
           ready == Qca!InterfaceModeInit(quiet)
           n == Qca!GccClockInit(ready, ready.work_mode, SwitchPorts)
<1>1. Qca!SwitchInit(c) = n
  BY SMT DEF Qca!SwitchInit, SwitchPorts
<1>2. /\ ChipOK(found) /\ found.work_mode = SwitchMode /\ found.serdes = c.serdes
  <2> DEFINE mode == IF c.serdes[0].side = "PHY" THEN "SWITCH_BYPASS_PORT5" ELSE "SWITCH"
  <2>1. found = [c EXCEPT !.work_mode = mode] /\ mode = SwitchMode
    BY DEF Qca!WorkModeInit, SwitchMode
  <2> HIDE DEF mode, found
  <2>2. DOMAIN found = ChipFields /\ found.work_mode = mode /\ \A f \in ChipFields : f # "work_mode" => found[f] = c[f]
    BY <2>1 DEF ChipOK, ChipFields
  <2> QED  BY <2>1, <2>2 DEF ChipOK, ChipFields
<1> HIDE DEF found
<1>3. /\ ChipOK(quiet) /\ quiet.work_mode = SwitchMode /\ quiet.serdes = c.serdes
  <2> DEFINE mac == Qca!MacStatusSet(found.mac_on, SwitchPorts, FALSE)
  <2>1. quiet = [found EXCEPT !.mac_on = mac]
    BY DEF Qca!SwitchConfig
  <2> HIDE DEF mac, quiet
  <2>2. DOMAIN quiet = ChipFields /\ \A f \in ChipFields : f # "mac_on" => quiet[f] = found[f]
    BY <1>2, <2>1 DEF ChipOK, ChipFields
  <2> QED  BY <1>2, <2>2 DEF ChipOK, ChipFields
<1> HIDE DEF quiet
<1>4. Interfaced(quiet, ready)
  BY <1>3, ProcessorPort, Zenon
<1> HIDE DEF ready
<1>5. /\ ChipOK(ready) /\ ready.work_mode = SwitchMode /\ ready.serdes[0] = c.serdes[0]
      /\ ready.raw[1] = FullRate
  BY <1>3, <1>4, Zenon DEF Interfaced
<1>6. Initialised(ready, n, SwitchMode, SwitchPorts)
  BY <1>5, ClocksInitialised, Zenon
<1> HIDE DEF n
<1>7. /\ ChipOK(n) /\ SameRest(ready, n) /\ CoreAt(n) /\ n.raw = RawKnown(ready)
      /\ n.on = ready.on \cup {Qca!SwitchCore, Qca!Serdes0} \cup {m \in Qca!ClkMask(SwitchMode, SwitchPorts) : m[2] # "ephy"}
  BY <1>6, SwitchMask, Zenon DEF Initialised
<1>8. n.raw[1] = FullRate
  BY <1>5, <1>7, SMT DEF RawKnown, FullRate
<1>9. ASSUME NEW p \in Qca!Ports, NEW d \in Dirs, p \in Masked(SwitchMode, SwitchPorts),
             \E v \in Nat : <<v, Qca!PortParent(SwitchMode, p, d)>> \in Qca!Parents(<<p, d>>)
      PROVE  FromSource(n, <<p, d>>, Qca!PortParent(SwitchMode, p, d))
  BY <1>6, <1>9, Zenon DEF Initialised
<1>10. /\ Qca!Cpu \in Qca!Ports /\ Qca!Cpu \in Masked(SwitchMode, SwitchPorts) /\ Qca!Cpu \in SwitchPorts
       /\ Phys \subseteq Qca!Ports /\ Phys \subseteq Masked(SwitchMode, SwitchPorts)
       /\ Qca!SwitchPhys \subseteq Phys /\ Qca!SwitchPhys \subseteq SwitchPorts
       /\ dt = "bypass" => Qca!Bypass \notin Qca!SwitchPhys /\ Qca!Port5 \in Masked(SwitchMode, SwitchPorts)
       /\ Qca!Bypass \in Phys
  BY SwitchMask, QcaIs DEF Qca!Ports, SwitchPorts, Qca!SwitchPhys, Qca!Qca8x8xAssumption
<1>11. ASSUME NEW p \in Qca!SwitchPhys
       PROVE  <<p, "mac">> \in n.on /\ \A d \in Dirs : FromSource(n, <<p, d>>, "UNIPHY1_TX312P5M")
  <2>1. <<p, "mac">> \in n.on
    BY <1>7, <1>10, SwitchMask
  <2>2. SwitchMode = "SWITCH" \/ (SwitchMode = "SWITCH_BYPASS_PORT5" /\ p # Qca!Bypass)
    BY <1>10 DEF SwitchMode
  <2>3. ASSUME NEW d \in Dirs PROVE FromSource(n, <<p, d>>, "UNIPHY1_TX312P5M")
    <3>1. p \in Phys /\ p \in Qca!Ports /\ p \in Masked(SwitchMode, SwitchPorts)
      BY <1>10
    <3>2. /\ Qca!PortParent(SwitchMode, p, d) = "UNIPHY1_TX312P5M"
          /\ \E v \in Nat : <<v, Qca!PortParent(SwitchMode, p, d)>> \in Qca!Parents(<<p, d>>)
      BY <2>2, <3>1, PortSources, Zenon
    <3>3. FromSource(n, <<p, d>>, Qca!PortParent(SwitchMode, p, d))
      BY <1>9, <3>1, <3>2, Zenon
    <3> QED  BY <3>2, <3>3, Zenon
  <2> QED  BY <2>1, <2>3
<1>12. /\ Qca!SwitchCore \in n.on /\ <<Qca!Cpu, "mac">> \in n.on /\ <<Qca!Cpu, "uniphy">> \in n.on
       /\ Qca!Cpu \in n.mac_on
  BY <1>4, <1>7, <1>10, SwitchMask DEF SameRest, Interfaced
<1>13. ASSUME NEW d \in Dirs
       PROVE  FromSource(n, <<Qca!Cpu, d>>, IF d = "tx" THEN "UNIPHY1_TX" ELSE "UNIPHY1_RX")
  <2>1. /\ Qca!PortParent(SwitchMode, Qca!Cpu, d) = IF d = "tx" THEN "UNIPHY1_TX" ELSE "UNIPHY1_RX"
        /\ \E v \in Nat : <<v, Qca!PortParent(SwitchMode, Qca!Cpu, d)>> \in Qca!Parents(<<Qca!Cpu, d>>)
    BY <1>10, PortSources, Zenon
  <2>2. FromSource(n, <<Qca!Cpu, d>>, Qca!PortParent(SwitchMode, Qca!Cpu, d))
    BY <1>9, <1>10, <2>1, Zenon
  <2> QED  BY <2>1, <2>2, Zenon
<1>14. FromSource(n, <<Qca!Cpu, "tx">>, "UNIPHY1_TX") /\ FromSource(n, <<Qca!Cpu, "rx">>, "UNIPHY1_RX")
  BY <1>13 DEF Dirs
<1>15. ASSUME NEW d \in Dirs PROVE RunsIn(n, <<Qca!Cpu, d, "gmii">>, FullRate)
  <2>1. Qca!SourceRate(n, <<Qca!Cpu, d>>) = n.raw[1]
    BY <1>14, CpuSource, Zenon
  <2>2. Qca!SourceRate(ready, <<Qca!Cpu, d>>) = ready.raw[1]
    BY <1>4, CpuSource, Zenon DEF Interfaced
  <2>3. n.rcg[<<Qca!Cpu, d>>].hdiv = ready.rcg[<<Qca!Cpu, d>>].hdiv
    BY <1>6, <1>10, Zenon DEF Initialised
  <2>4. n.cdiv[<<Qca!Cpu, d, "gmii">>] = ready.cdiv[<<Qca!Cpu, d, "gmii">>]
    <3>1. <<Qca!Cpu, d, "gmii">> \in Qca!Clocks
      BY <1>10, PortKeys, Zenon
    <3> QED  BY <1>6, <3>1, Zenon DEF Initialised
  <2>5. RunsIn(ready, <<Qca!Cpu, d, "gmii">>, FullRate)
    BY <1>4, Zenon DEF Interfaced, RunsTwo
  <2>6. Qca!RcgOf(<<Qca!Cpu, d, "gmii">>) = <<Qca!Cpu, d>>
    BY <1>10, PortKeys, Zenon
  <2>7. Qca!SourceRate(n, <<Qca!Cpu, d>>) = Qca!SourceRate(ready, <<Qca!Cpu, d>>)
    BY <1>5, <1>8, <2>1, <2>2, Zenon
  <2> QED  BY <2>3, <2>4, <2>5, <2>6, <2>7, Zenon DEF RunsIn
<1>16. SwitchReady(n)
  <2>1. FromSource(n, <<Qca!Cpu, "core">>, "UNIPHY1_TX312P5M") /\ RunsIn(n, Qca!Core, FullRate)
    BY <1>7, CoreRate, Zenon
  <2>2. {Qca!Cpu} \X {"mac", "uniphy"} \subseteq n.on
    BY <1>12
  <2>3. RunsTwo(n, Qca!Cpu, "gmii", FullRate)
    BY <1>15, Zenon DEF RunsTwo
  <2> QED  BY <1>11, <1>12, <1>14, <2>1, <2>2, <2>3, Zenon DEF SwitchReady
<1>17. n.serdes[0] = c.serdes[0] /\ n.work_mode = SwitchMode
  BY <1>5, <1>7 DEF SameRest
<1>18. ASSUME dt = "bypass" PROVE BypassReady(n)
  <2>1. SwitchMode = "SWITCH_BYPASS_PORT5" /\ Qca!Bypass \in Qca!Ports /\ Qca!Bypass \in Masked(SwitchMode, SwitchPorts)
    BY <1>10, <1>18 DEF SwitchMode
  <2>2. ASSUME NEW d \in Dirs
        PROVE  FromSource(n, <<Qca!Bypass, d>>, IF d = "tx" THEN "UNIPHY0_RX" ELSE "UNIPHY0_TX")
    <3>1. /\ Qca!PortParent(SwitchMode, Qca!Bypass, d) = IF d = "tx" THEN "UNIPHY0_RX" ELSE "UNIPHY0_TX"
          /\ \E v \in Nat : <<v, Qca!PortParent(SwitchMode, Qca!Bypass, d)>> \in Qca!Parents(<<Qca!Bypass, d>>)
      BY <2>1, PortSources, Zenon
    <3>2. FromSource(n, <<Qca!Bypass, d>>, Qca!PortParent(SwitchMode, Qca!Bypass, d))
      BY <1>9, <2>1, <3>1, Zenon
    <3> QED  BY <3>1, <3>2, Zenon
  <2>3. FromSource(n, <<Qca!Bypass, "tx">>, "UNIPHY0_RX") /\ FromSource(n, <<Qca!Bypass, "rx">>, "UNIPHY0_TX")
    BY <2>2 DEF Dirs
  <2>4. n.uniphy0_sel = "MAC4"
    BY <1>6, <1>10, <1>18, <2>1 DEF Initialised
  <2> QED  BY <1>17, <1>18, <2>3, <2>4 DEF BypassReady
<1>19. SwitchedOn(c, n)
  BY <1>7, <1>16, <1>17, <1>18, Zenon DEF SwitchedOn, SwitchMode
<1> QED  BY <1>1, <1>19, Zenon

(* The clocks of a port keep what makes their rate.                        *)
Untouched(c, n, q) ==
  \A d \in Dirs : /\ n.rcg[<<q, d>>] = c.rcg[<<q, d>>]
                  /\ Qca!SourceRate(n, <<q, d>>) = Qca!SourceRate(c, <<q, d>>)
                  /\ \A kind \in {"gmii", "xgmii"} : n.cdiv[<<q, d, kind>>] = c.cdiv[<<q, d, kind>>]

(* A port whose numbers stay runs as it did.                               *)
LEMMA StillRuns ==
  ASSUME NEW c, NEW n, NEW q \in Qca!Ports, NEW kind \in {"gmii", "xgmii"}, NEW freq,
         Untouched(c, n, q), RunsTwo(c, q, kind, freq)
  PROVE  RunsTwo(n, q, kind, freq)
<1>1. ASSUME NEW d \in Dirs PROVE RunsIn(n, <<q, d, kind>>, freq)
  <2>1. Qca!RcgOf(<<q, d, kind>>) = <<q, d>>
    BY PortKeys
  <2>2. RunsIn(c, <<q, d, kind>>, freq)
    BY Zenon DEF RunsTwo
  <2> QED  BY <2>1, <2>2, Zenon DEF Untouched, RunsIn
<1> QED  BY <1>1, Zenon DEF RunsTwo

(* The same of its sources.                                                *)
LEMMA StillFed ==
  ASSUME NEW c, NEW n, NEW q, NEW d \in Dirs, NEW parent,
         Untouched(c, n, q), FromSource(c, <<q, d>>, parent)
  PROVE  FromSource(n, <<q, d>>, parent)
BY Zenon DEF Untouched, FromSource

(* Setting the rates of one port leaves every other port as it is.         *)
LEMMA OthersUntouched ==
  ASSUME NEW c, NEW n, NEW p, NEW q \in Qca!Ports, q # p, Rated(c, n, {p} \X Dirs)
  PROVE  Untouched(c, n, q)
<1>1. ASSUME NEW d \in Dirs
      PROVE  /\ n.rcg[<<q, d>>] = c.rcg[<<q, d>>]
             /\ Qca!SourceRate(n, <<q, d>>) = Qca!SourceRate(c, <<q, d>>)
             /\ \A kind \in {"gmii", "xgmii"} : n.cdiv[<<q, d, kind>>] = c.cdiv[<<q, d, kind>>]
  <2>1. <<q, d>> \in Qca!Rcgs /\ <<q, d>> \notin {p} \X Dirs
    BY PortKeys
  <2>2. n.rcg[<<q, d>>] = c.rcg[<<q, d>>]
    BY <2>1 DEF Rated
  <2>3. Qca!SourceRate(n, <<q, d>>) = Qca!SourceRate(c, <<q, d>>)
    BY <2>1, <2>2, SourceStays DEF Rated
  <2>4. ASSUME NEW kind \in {"gmii", "xgmii"} PROVE n.cdiv[<<q, d, kind>>] = c.cdiv[<<q, d, kind>>]
    BY <2>1, PortKeys DEF Rated
  <2> QED  BY <2>2, <2>3, <2>4
<1> QED  BY <1>1, Zenon DEF Untouched

(* The switch core is none of the ports.                                   *)
LEMMA CoreStays ==
  ASSUME NEW c, NEW n,
         FromSource(c, <<Qca!Cpu, "core">>, "UNIPHY1_TX312P5M"), RunsIn(c, Qca!Core, FullRate),
         n.rcg[<<Qca!Cpu, "core">>] = c.rcg[<<Qca!Cpu, "core">>], n.cdiv[Qca!Core] = c.cdiv[Qca!Core]
  PROVE  FromSource(n, <<Qca!Cpu, "core">>, "UNIPHY1_TX312P5M") /\ RunsIn(n, Qca!Core, FullRate)
<1>1. <<Qca!Cpu, "core">> \in Qca!Rcgs /\ Qca!RcgOf(Qca!Core) = <<Qca!Cpu, "core">>
  BY DEF Qca!Rcgs, Qca!RcgOf, Qca!Core
<1>2. FromSource(n, <<Qca!Cpu, "core">>, "UNIPHY1_TX312P5M")
  BY Zenon DEF FromSource
<1>3. Qca!SourceRate(n, <<Qca!Cpu, "core">>) = Qca!SourceRate(c, <<Qca!Cpu, "core">>)
  BY <1>1, <1>2, FixedRate DEF FixedSources
<1> QED  BY <1>1, <1>2, <1>3, Zenon DEF RunsIn

(* The switch core's generator is no port's.                               *)
LEMMA CoreElsewhere ==
  ASSUME NEW p
  PROVE  /\ <<Qca!Cpu, "core">> \in Qca!Rcgs \ ({p} \X Dirs)
         /\ Qca!Core \in AllClocks /\ Qca!RcgOf(Qca!Core) = <<Qca!Cpu, "core">>
BY DEF Qca!Rcgs, Dirs, AllClocks, Qca!RcgOf, Qca!Core

(* One of four PHYs, given the speed of its link.                          *)
PhyGroups(p) == {p} \X {"uniphy", "ephy"}
PhyAt(c, n, p, link, speed) ==
  /\ ChipOK(n) /\ n.work_mode = c.work_mode /\ PhyReady(n)
  /\ n.on = IF link THEN c.on \cup PhyGroups(p) ELSE c.on \ PhyGroups(p)
  /\ RunsTwo(n, p, "gmii", Qca!GmiiClk(speed)) /\ RunsTwo(n, p, "xgmii", XgmiiRate(Qca!GmiiClk(speed)))
  /\ n.xpcs_speed[p] = speed
  /\ \A q \in Phys : q # p => n.xpcs_speed[q] = c.xpcs_speed[q] /\ Untouched(c, n, q)

(* Following the link of one of four PHYs gives it the rates of its speed  *)
(* and leaves the other three theirs.                                      *)
LEMMA PhySet ==
  ASSUME NEW c, ChipOK(c), PhyReady(c), NEW p \in Phys, NEW link \in BOOLEAN, NEW speed \in ChipSpeeds
  PROVE  PhyAt(c, Qca!UqxgmiiSpeedFixup(c, p, link, speed), p, link, speed)
<1> DEFINE freq == Qca!GmiiClk(speed)
           rated == Qca!PortClkRateSet(c, p, freq)
           gated == Qca!ClkEnSet(rated, PhyGroups(p), link)
           n == [gated EXCEPT !.xpcs_speed[p] = speed]
<1>1. Qca!UqxgmiiSpeedFixup(c, p, link, speed) = n
  BY Zenon DEF Qca!UqxgmiiSpeedFixup, PhyGroups, Qca!PortSpeedClockSet
<1> HIDE DEF freq, rated, gated
<1>2. p \in Qca!Ports /\ freq \in MacRates /\ CanGive(FullRate, freq)
  BY GmiiRates, FullGiven DEF Qca!Ports, freq
<1>3. ASSUME NEW d \in Dirs PROVE Qca!SourceRate(c, <<p, d>>) = FullRate
  <2> DEFINE parent == IF d = "tx" THEN "UNIPHY1_RX312P5M" ELSE "UNIPHY1_TX312P5M"
  <2>1. FromSource(c, <<p, d>>, parent) /\ parent \in FixedSources
    BY DirIs DEF PhyReady, FixedSources
  <2> HIDE DEF parent
  <2>2. <<p, d>> \in Qca!Rcgs
    BY <1>2, PortKeys
  <2> QED  BY <2>1, <2>2, FixedRate
<1>4. PortAt(rated, c, p, freq, FullRate)
  BY <1>2, <1>3, PortRates, Zenon DEF rated
<1>5. Rated(c, rated, {p} \X Dirs) /\ ChipOK(rated)
  BY <1>4, Zenon DEF PortAt, Rated
<1>6. Enabled(rated, gated, PhyGroups(p), link)
  BY <1>5, EnableIs, Zenon DEF gated
<1>7. /\ ChipOK(gated) /\ SameRest(rated, gated) /\ gated.rcg = rated.rcg /\ gated.cdiv = rated.cdiv
      /\ gated.raw = rated.raw
  BY <1>6, Zenon DEF Enabled
<1>8. gated.on = IF link THEN c.on \cup PhyGroups(p) ELSE c.on \ PhyGroups(p)
  BY <1>5, <1>6, Zenon DEF Enabled, Rated
<1>9. /\ DOMAIN n = ChipFields /\ n.xpcs_speed = [gated.xpcs_speed EXCEPT ![p] = speed]
      /\ \A f \in ChipFields : f # "xpcs_speed" => n[f] = gated[f]
  BY <1>7 DEF ChipOK, ChipFields
<1> HIDE DEF n
<1>10. /\ n.work_mode = gated.work_mode /\ n.serdes = gated.serdes /\ n.raw = gated.raw /\ n.on = gated.on
       /\ n.rcg = gated.rcg /\ n.cdiv = gated.cdiv /\ n.mac_speed = gated.mac_speed
       /\ n.xpcs_rst = gated.xpcs_rst
  BY <1>9 DEF ChipFields
<1>11. ChipOK(n)
  BY <1>7, <1>9, <1>10 DEF ChipOK
<1>12. n.xpcs_speed[p] = speed /\ \A q \in Phys : q # p => n.xpcs_speed[q] = c.xpcs_speed[q]
  BY <1>5, <1>7, <1>9 DEF ChipOK, SameRest, Rated
<1>13. \A k : Qca!SourceRate(n, k) = Qca!SourceRate(rated, k)
  BY <1>7, <1>10, SMT DEF Qca!SourceRate, Qca!Prate
<1>14. ASSUME NEW q \in Phys, q # p PROVE Untouched(c, n, q)
  <2>1. Untouched(c, rated, q)
    BY <1>5, <1>14, OthersUntouched DEF Qca!Ports
  <2> QED  BY <1>7, <1>10, <1>13, <2>1, Zenon DEF Untouched
<1>15. ASSUME NEW d \in Dirs
       PROVE  /\ n.rcg[<<p, d>>].src = c.rcg[<<p, d>>].src
              /\ RunsIn(n, <<p, d, "gmii">>, freq) /\ RunsIn(n, <<p, d, "xgmii">>, XgmiiRate(freq))
  <2>1. /\ rated.rcg[<<p, d>>].src = c.rcg[<<p, d>>].src
        /\ RunsIn(rated, <<p, d, "gmii">>, freq) /\ RunsIn(rated, <<p, d, "xgmii">>, XgmiiRate(freq))
    BY <1>4, Zenon DEF PortAt
  <2> QED  BY <1>7, <1>10, <1>13, <2>1, Zenon DEF RunsIn
<1>16. PhyReady(n)
  <2>1. n.serdes[1].mode = "XPCS" /\ ~n.xpcs_rst
    BY <1>5, <1>7, <1>10 DEF PhyReady, SameRest, Rated
  <2>2. ASSUME NEW q \in Phys
        PROVE  FromSource(n, <<q, "tx">>, "UNIPHY1_RX312P5M") /\ FromSource(n, <<q, "rx">>, "UNIPHY1_TX312P5M")
    <3>1. "tx" \in Dirs /\ "rx" \in Dirs
      BY DEF Dirs
    <3>2. CASE q = p
      BY <1>15, <3>1, <3>2, Zenon DEF PhyReady, FromSource
    <3>3. CASE q # p
      BY <1>14, <3>1, <3>3, StillFed, Zenon DEF PhyReady
    <3> QED  BY <3>2, <3>3
  <2> QED  BY <2>1, <2>2, Zenon DEF PhyReady
<1>17. n.work_mode = c.work_mode
  BY <1>5, <1>7, <1>10 DEF SameRest, Rated
<1>18. RunsTwo(n, p, "gmii", freq) /\ RunsTwo(n, p, "xgmii", XgmiiRate(freq))
  BY <1>15, Zenon DEF RunsTwo
<1>19. PhyAt(c, n, p, link, speed)
  BY <1>8, <1>10, <1>11, <1>12, <1>14, <1>16, <1>17, <1>18, Zenon DEF PhyAt, freq
<1> QED  BY <1>1, <1>19, Zenon

(* A switch runs on as long as these do.                                   *)
LEMMA SwitchStays ==
  ASSUME NEW c, NEW n, SwitchReady(c),
         n.rcg[<<Qca!Cpu, "core">>] = c.rcg[<<Qca!Cpu, "core">>], n.cdiv[Qca!Core] = c.cdiv[Qca!Core],
         Untouched(c, n, Qca!Cpu), Qca!Cpu \in c.mac_on => Qca!Cpu \in n.mac_on,
         \A g : g \in c.on /\ g[2] # "ephy" => g \in n.on \/ g[1] = Qca!Port5,
         \A p \in Qca!SwitchPhys, d \in Dirs : n.rcg[<<p, d>>].src = c.rcg[<<p, d>>].src
  PROVE  SwitchReady(n)
<1>1. FromSource(n, <<Qca!Cpu, "core">>, "UNIPHY1_TX312P5M") /\ RunsIn(n, Qca!Core, FullRate)
  BY CoreStays, Zenon DEF SwitchReady
<1>2. "tx" \in Dirs /\ "rx" \in Dirs
  BY DEF Dirs
<1>3. FromSource(n, <<Qca!Cpu, "tx">>, "UNIPHY1_TX") /\ FromSource(n, <<Qca!Cpu, "rx">>, "UNIPHY1_RX")
  BY <1>2, StillFed, Zenon DEF SwitchReady
<1>4. RunsTwo(n, Qca!Cpu, "gmii", FullRate)
  <2>1. Qca!Cpu \in Qca!Ports /\ RunsTwo(c, Qca!Cpu, "gmii", FullRate) /\ "gmii" \in {"gmii", "xgmii"}
    BY DEF Qca!Ports, SwitchReady
  <2> QED  BY <2>1, StillRuns, Zenon
<1>5. ASSUME NEW p \in Qca!SwitchPhys
      PROVE  <<p, "mac">> \in n.on /\ \A d \in Dirs : FromSource(n, <<p, d>>, "UNIPHY1_TX312P5M")
  <2>1. p \in Phys /\ Qca!Port5 \notin Phys
    BY QcaIs DEF Qca!SwitchPhys, Qca!Qca8x8xAssumption, Qca!Port5
  <2>2. <<p, "mac">> \in c.on /\ <<p, "mac">>[2] # "ephy" /\ <<p, "mac">>[1] = p
    BY DEF SwitchReady
  <2>3. <<p, "mac">> \in n.on
    BY <2>1, <2>2, Zenon
  <2> QED  BY <2>3, Zenon DEF SwitchReady, FromSource
<1>6. Qca!SwitchCore \in n.on /\ {Qca!Cpu} \X {"mac", "uniphy"} \subseteq n.on
  <2>1. /\ Qca!SwitchCore \in c.on /\ Qca!SwitchCore[2] # "ephy" /\ Qca!SwitchCore[1] # Qca!Port5
        /\ \A g \in {Qca!Cpu} \X {"mac", "uniphy"} : g \in c.on /\ g[2] # "ephy" /\ g[1] # Qca!Port5
    BY DEF SwitchReady, Qca!SwitchCore, Qca!Cpu, Qca!Port5
  <2> QED  BY <2>1
<1> QED  BY <1>1, <1>3, <1>4, <1>5, <1>6, Zenon DEF SwitchReady

(* One port of a switch, given its link.                                   *)
SwitchPortAt(c, n, p, r) ==
  /\ ChipOK(n) /\ n.work_mode = c.work_mode /\ n.serdes = c.serdes /\ n.uniphy0_sel = c.uniphy0_sel
  /\ SwitchReady(n)
  /\ n.on = IF r.up THEN c.on \cup {<<p, "ephy">>} ELSE c.on \ {<<p, "ephy">>}
  /\ RunsTwo(n, p, "gmii", Qca!GmiiClk(r.speed))
  /\ (p \in LinkEn \/ (p \in n.mac_on <=> r.up)) /\ n.mac_speed[p] = r.speed
  /\ \A q \in Qca!Ports : q # p => /\ Untouched(c, n, q) /\ n.mac_speed[q] = c.mac_speed[q]
                                   /\ (q \in n.mac_on <=> q \in c.mac_on)

(* The same of a port of a switch.                                         *)
LEMMA SwitchPortSet ==
  ASSUME NEW c, ChipOK(c), SwitchReady(c), NEW p \in Qca!SwitchPhys, NEW r \in [up : BOOLEAN, speed : ChipSpeeds]
  PROVE  SwitchPortAt(c, Qca!PortLinkUpdate(c, p, r), p, r)
<1> DEFINE freq == Qca!GmiiClk(r.speed)
           rated == Qca!PortClkRateSet(c, p, freq)
           mac == Qca!MacStatusSet(rated.mac_on, {p}, r.up)
           set == [rated EXCEPT !.mac_speed[p] = r.speed, !.mac_on = mac]
           n == Qca!ClkEnSet(set, {<<p, "ephy">>}, r.up)
<1>1. Qca!PortLinkUpdate(c, p, r) = n
  <2> DEFINE any == [rated EXCEPT !.mac_speed[p] = r.speed,
                            !.mac_on = Qca!MacStatusSet(@, {p}, r.up)]
  <2>1. Qca!PortLinkUpdate(c, p, r) = Qca!ClkEnSet(any, {<<p, "ephy">>}, r.up)
    BY Zenon DEF Qca!PortLinkUpdate, Qca!PortSpeedClockSet
  <2>2. any = set
    <3> HIDE DEF rated
    <3> QED  BY Zenon
  <2> HIDE DEF any, set
  <2> QED  BY <2>1, <2>2, Zenon
<1> HIDE DEF freq, rated, mac, set, n
<1>2. /\ p \in Phys /\ p \in Qca!Ports /\ p # Qca!Cpu /\ r.speed \in ChipSpeeds /\ r.up \in BOOLEAN
      /\ freq \in MacRates /\ CanGive(FullRate, freq)
  <2>1. p \in Phys /\ p # Qca!Cpu /\ r.speed \in ChipSpeeds /\ r.up \in BOOLEAN
    BY QcaIs DEF Qca!SwitchPhys, Qca!Qca8x8xAssumption, Qca!Cpu
  <2> QED  BY <2>1, GmiiRates, FullGiven DEF Qca!Ports, freq
<1>3. ASSUME NEW d \in Dirs PROVE Qca!SourceRate(c, <<p, d>>) = FullRate
  <2>1. FromSource(c, <<p, d>>, "UNIPHY1_TX312P5M") /\ "UNIPHY1_TX312P5M" \in FixedSources
    BY DEF SwitchReady, FixedSources
  <2>2. <<p, d>> \in Qca!Rcgs
    BY <1>2, PortKeys
  <2> QED  BY <2>1, <2>2, FixedRate
<1>4. PortAt(rated, c, p, freq, FullRate)
  BY <1>2, <1>3, PortRates, Zenon DEF rated
<1>5. Rated(c, rated, {p} \X Dirs) /\ ChipOK(rated)
  BY <1>4, Zenon DEF PortAt, Rated
<1>6. /\ DOMAIN set = ChipFields /\ set.mac_speed = [rated.mac_speed EXCEPT ![p] = r.speed] /\ set.mac_on = mac
      /\ \A f \in ChipFields : f \notin {"mac_speed", "mac_on"} => set[f] = rated[f]
  BY <1>5 DEF ChipOK, ChipFields, set
<1>7. /\ set.work_mode = rated.work_mode /\ set.serdes = rated.serdes /\ set.raw = rated.raw
      /\ set.on = rated.on /\ set.rcg = rated.rcg /\ set.cdiv = rated.cdiv
      /\ set.xpcs_speed = rated.xpcs_speed /\ set.uniphy0_sel = rated.uniphy0_sel
  BY <1>6 DEF ChipFields
<1>8. ChipOK(set)
  BY <1>5, <1>6, <1>7 DEF ChipOK
<1>9. Enabled(set, n, {<<p, "ephy">>}, r.up)
  BY <1>8, EnableIs, Zenon DEF n
<1>10. /\ ChipOK(n) /\ n.work_mode = c.work_mode /\ n.serdes = c.serdes /\ n.uniphy0_sel = c.uniphy0_sel
       /\ n.rcg = rated.rcg /\ n.cdiv = rated.cdiv /\ n.raw = rated.raw
       /\ n.mac_on = mac /\ n.mac_speed = set.mac_speed
  <2>1. /\ ChipOK(n) /\ SameRest(set, n) /\ n.uniphy0_sel = set.uniphy0_sel
        /\ n.rcg = set.rcg /\ n.cdiv = set.cdiv /\ n.raw = set.raw
    BY <1>9, Zenon DEF Enabled
  <2> QED  BY <1>5, <1>6, <1>7, <2>1 DEF SameRest, Rated
<1>11. n.on = IF r.up THEN c.on \cup {<<p, "ephy">>} ELSE c.on \ {<<p, "ephy">>}
  BY <1>5, <1>7, <1>9, Zenon DEF Enabled, Rated
<1>12. \A k : Qca!SourceRate(n, k) = Qca!SourceRate(rated, k)
  BY <1>10, SMT DEF Qca!SourceRate, Qca!Prate
<1>13. ASSUME NEW q \in Qca!Ports, q # p
       PROVE  /\ Untouched(c, n, q) /\ n.mac_speed[q] = c.mac_speed[q]
              /\ (q \in n.mac_on <=> q \in c.mac_on)
  <2>1. Untouched(c, rated, q)
    BY <1>5, <1>13, OthersUntouched
  <2>2. Untouched(c, n, q)
    BY <1>10, <1>12, <2>1, Zenon DEF Untouched
  <2>3. n.mac_speed[q] = c.mac_speed[q] /\ (q \in n.mac_on <=> q \in c.mac_on)
    BY <1>5, <1>6, <1>10, <1>13 DEF mac, Rated, ChipOK, Qca!MacStatusSet
  <2> QED  BY <2>2, <2>3
<1>14. ASSUME NEW d \in Dirs
       PROVE  /\ n.rcg[<<p, d>>].src = c.rcg[<<p, d>>].src /\ RunsIn(n, <<p, d, "gmii">>, freq)
  <2>1. rated.rcg[<<p, d>>].src = c.rcg[<<p, d>>].src /\ RunsIn(rated, <<p, d, "gmii">>, freq)
    BY <1>4, Zenon DEF PortAt
  <2> QED  BY <1>10, <1>12, <2>1, Zenon DEF RunsIn
<1>15. (p \in LinkEn \/ (p \in n.mac_on <=> r.up)) /\ n.mac_speed[p] = r.speed
  BY <1>2, <1>5, <1>6, <1>10 DEF mac, ChipOK, Qca!MacStatusSet
<1>16. SwitchReady(n)
  <2>1. n.rcg[<<Qca!Cpu, "core">>] = c.rcg[<<Qca!Cpu, "core">>] /\ n.cdiv[Qca!Core] = c.cdiv[Qca!Core]
    BY <1>5, <1>10, CoreElsewhere DEF Rated
  <2>2. Untouched(c, n, Qca!Cpu) /\ (Qca!Cpu \in c.mac_on => Qca!Cpu \in n.mac_on)
    BY <1>2, <1>13 DEF Qca!Ports
  <2>3. \A g : g \in c.on /\ g[2] # "ephy" => g \in n.on \/ g[1] = Qca!Port5
    <3>1. <<p, "ephy">>[2] = "ephy"
      OBVIOUS
    <3> QED  BY <1>2, <1>11, <3>1, Zenon
  <2>4. \A q \in Qca!SwitchPhys, d \in Dirs : n.rcg[<<q, d>>].src = c.rcg[<<q, d>>].src
    <3>1. ASSUME NEW q \in Qca!SwitchPhys, NEW d \in Dirs PROVE n.rcg[<<q, d>>].src = c.rcg[<<q, d>>].src
      <4>1. q \in Qca!Ports
        BY DEF Qca!SwitchPhys, Qca!Ports
      <4> QED  BY <1>13, <1>14, <4>1, Zenon DEF Untouched
    <3> QED  BY <3>1, Zenon
  <2> QED  BY <2>1, <2>2, <2>3, <2>4, SwitchStays, Zenon
<1>17. RunsTwo(n, p, "gmii", freq)
  BY <1>14, Zenon DEF RunsTwo
<1>18. SwitchPortAt(c, n, p, r)
  BY <1>10, <1>11, <1>13, <1>15, <1>16, <1>17, Zenon DEF SwitchPortAt, freq
<1> QED  BY <1>1, <1>18, Zenon

(* The bypassing PHY's clocks change, those of the switch do not.          *)
LEMMA BypassAside ==
  ASSUME NEW c, NEW n, NEW link \in BOOLEAN, NEW speed, Bypassed(c, n, link, speed), SwitchReady(c), dt = "bypass"
  PROVE  /\ SwitchReady(n)
         /\ \A q \in Qca!SwitchPhys : /\ Untouched(c, n, q)
                                      /\ (<<q, "ephy">> \in n.on <=> <<q, "ephy">> \in c.on)
<1>1. /\ Qca!Cpu \in Qca!Ports /\ Qca!Cpu # Qca!Bypass /\ Qca!SwitchPhys \subseteq Qca!Ports /\ Qca!Bypass \notin Qca!SwitchPhys
      /\ Qca!Port5 \notin Qca!SwitchPhys /\ Qca!Cpu # Qca!Port5
  BY QcaIs DEF Qca!SwitchPhys, Qca!Ports, Qca!Qca8x8xAssumption, Qca!Cpu, Qca!Port5, Qca!Bypass
<1>2. ASSUME NEW q \in Qca!Ports, q # Qca!Bypass, NEW d \in Dirs
      PROVE  /\ n.rcg[<<q, d>>] = c.rcg[<<q, d>>]
             /\ \A kind \in {"gmii", "xgmii"} : n.cdiv[<<q, d, kind>>] = c.cdiv[<<q, d, kind>>]
  <2>1. <<q, d>> \in Qca!Rcgs /\ <<q, d>> \notin {Qca!Bypass} \X Dirs
    BY <1>2, PortKeys
  <2> QED  BY <2>1, PortKeys DEF Bypassed
<1>3. ASSUME NEW q \in Qca!SwitchPhys PROVE Untouched(c, n, q)
  <2>1. ASSUME NEW d \in Dirs PROVE Qca!SourceRate(n, <<q, d>>) = Qca!SourceRate(c, <<q, d>>)
    <3>1. <<q, d>> \in Qca!Rcgs /\ FromSource(c, <<q, d>>, "UNIPHY1_TX312P5M") /\ "UNIPHY1_TX312P5M" \in FixedSources
      BY <1>1, PortKeys DEF SwitchReady, FixedSources
    <3>2. FromSource(n, <<q, d>>, "UNIPHY1_TX312P5M")
      BY <1>1, <1>2, <3>1 DEF FromSource
    <3> QED  BY <3>1, <3>2, FixedRate, Zenon
  <2>2. q \in Qca!Ports /\ q # Qca!Bypass
    BY <1>1
  <2> QED  BY <1>2, <2>1, <2>2, Zenon DEF Untouched
<1>4. Untouched(c, n, Qca!Cpu)
  <2>1. FromSource(c, <<Qca!Cpu, "tx">>, "UNIPHY1_TX") /\ FromSource(c, <<Qca!Cpu, "rx">>, "UNIPHY1_RX")
    BY Zenon DEF SwitchReady
  <2>2. FromSource(n, <<Qca!Cpu, "tx">>, "UNIPHY1_TX") /\ FromSource(n, <<Qca!Cpu, "rx">>, "UNIPHY1_RX")
    BY <1>1, <1>2, <2>1 DEF FromSource, Dirs
  <2>3. ASSUME NEW d \in Dirs PROVE Qca!SourceRate(n, <<Qca!Cpu, d>>) = Qca!SourceRate(c, <<Qca!Cpu, d>>)
    <3>1. n.raw[1] = c.raw[1]
      BY DEF Bypassed
    <3> QED  BY <2>1, <2>2, <3>1, CpuSource, Zenon
  <2> QED  BY <1>1, <1>2, <2>3, Zenon DEF Untouched
<1>5. \A g : g \notin BypassGroups => (g \in n.on <=> g \in c.on)
  <2>1. CASE link
    BY <2>1 DEF Bypassed
  <2>2. CASE ~link
    BY <2>2 DEF Bypassed
  <2> QED  BY <2>1, <2>2
<1>6. \A q \in Qca!SwitchPhys : <<q, "ephy">> \notin BypassGroups
  BY <1>1 DEF BypassGroups
<1>7. SwitchReady(n)
  <2>1. n.rcg[<<Qca!Cpu, "core">>] = c.rcg[<<Qca!Cpu, "core">>] /\ n.cdiv[Qca!Core] = c.cdiv[Qca!Core]
    BY CoreElsewhere DEF Bypassed
  <2>2. Qca!Cpu \in c.mac_on => Qca!Cpu \in n.mac_on
    BY DEF Bypassed
  <2>3. \A g : g \in c.on /\ g[2] # "ephy" => g \in n.on \/ g[1] = Qca!Port5
    <3>1. <<Qca!Bypass, "ephy">>[2] = "ephy" /\ <<Qca!Port5, "uniphy">>[1] = Qca!Port5
      OBVIOUS
    <3>2. \A g \in BypassGroups : g[2] = "ephy" \/ g[1] = Qca!Port5
      BY <3>1, Zenon DEF BypassGroups
    <3> QED  BY <1>5, <3>2, Zenon
  <2>4. \A q \in Qca!SwitchPhys, d \in Dirs : n.rcg[<<q, d>>].src = c.rcg[<<q, d>>].src
    BY <1>3, Zenon DEF Untouched
  <2> QED  BY <1>4, <2>1, <2>2, <2>3, <2>4, SwitchStays, Zenon
<1> QED  BY <1>3, <1>5, <1>6, <1>7, Zenon

Reading == [up : BOOLEAN, speed : ChipSpeeds]

(* Then that PHY fits its link, and those that did still do.               *)
LEMMA PhyFits ==
  ASSUME NEW c, NEW n, NEW modes, NEW p \in Phys, NEW r \in Reading, modes[p] = "phy",
         PhyAt(c, n, p, r.up, r.speed)
  PROVE  /\ ClocksFit("phy", modes, n, p, r)
         /\ \A q \in Phys, s \in Reading :
              q # p /\ ClocksFit("phy", modes, c, q, s) => ClocksFit("phy", modes, n, q, s)
<1>1. n.on = IF r.up THEN c.on \cup PhyGroups(p) ELSE c.on \ PhyGroups(p)
  BY Zenon DEF PhyAt
<1>2. FitsPhy(n, p, r)
  <2>1. GatedIn(n, PhyGroups(p), r.up)
    <3>1. CASE r.up
      BY <1>1, <3>1, Zenon DEF GatedIn
    <3>2. CASE ~r.up
      BY <1>1, <3>2, Zenon DEF GatedIn
    <3> QED  BY <3>1, <3>2
  <2>2. RunsTwo(n, p, "xgmii", XgmiiRate(Qca!GmiiClk(r.speed))) /\ n.xpcs_speed[p] = r.speed
    BY Zenon DEF PhyAt
  <2> QED  BY <2>1, <2>2, Zenon DEF FitsPhy, PhyGroups
<1>3. RunsTwo(n, p, "gmii", Qca!GmiiClk(r.speed))
  BY Zenon DEF PhyAt
<1>4. ClocksFit("phy", modes, n, p, r)
  <2>1. "phy" # "bypass"
    OBVIOUS
  <2> QED  BY <1>2, <1>3, <2>1, Zenon DEF ClocksFit
<1>5. ASSUME NEW q \in Phys, NEW s \in Reading, q # p, ClocksFit("phy", modes, c, q, s)
      PROVE  ClocksFit("phy", modes, n, q, s)
  <2>1. Untouched(c, n, q) /\ n.xpcs_speed[q] = c.xpcs_speed[q] /\ q \in Qca!Ports
    BY <1>5 DEF PhyAt, Qca!Ports
  <2>2. RunsTwo(c, q, "gmii", Qca!GmiiClk(s.speed)) /\ modes[q] = "phy" /\ FitsPhy(c, q, s)
    BY <1>5, Zenon DEF ClocksFit
  <2>3. PhyGroups(q) \cap PhyGroups(p) = {}
    BY <1>5 DEF PhyGroups
  <2>4. \A g \in PhyGroups(q) : g \in n.on <=> g \in c.on
    <3>1. CASE r.up
      BY <1>1, <2>3, <3>1
    <3>2. CASE ~r.up
      BY <1>1, <2>3, <3>2
    <3> QED  BY <3>1, <3>2
  <2>5. GatedIn(n, PhyGroups(q), s.up)
    <3>1. GatedIn(c, PhyGroups(q), s.up)
      BY <2>2, Zenon DEF FitsPhy, PhyGroups
    <3>2. CASE s.up
      BY <2>4, <3>1, <3>2, Zenon DEF GatedIn
    <3>3. CASE ~s.up
      BY <2>4, <3>1, <3>3, Zenon DEF GatedIn
    <3> QED  BY <3>2, <3>3
  <2>6. "gmii" \in {"gmii", "xgmii"} /\ "xgmii" \in {"gmii", "xgmii"}
    OBVIOUS
  <2>7. RunsTwo(n, q, "gmii", Qca!GmiiClk(s.speed))
    BY <2>1, <2>2, <2>6, StillRuns, Zenon
  <2>8. RunsTwo(n, q, "xgmii", XgmiiRate(Qca!GmiiClk(s.speed)))
    BY <2>1, <2>2, <2>6, StillRuns, Zenon DEF FitsPhy
  <2>9. FitsPhy(n, q, s)
    BY <2>1, <2>2, <2>5, <2>8, Zenon DEF FitsPhy, PhyGroups
  <2>10. "phy" # "bypass"
    OBVIOUS
  <2> QED  BY <2>2, <2>7, <2>9, <2>10, Zenon DEF ClocksFit
<1> QED  BY <1>4, <1>5, Zenon

(* The branches of the bypassing PHY are no switch port's.                 *)
LEMMA BypassGroupsApart ==
  /\ Qca!Cpu \in Qca!Ports /\ Phys \subseteq Qca!Ports /\ Qca!Bypass \in Phys /\ Qca!Switch \in Phys
  /\ \A p \in Phys : p # Qca!Cpu /\ p # Qca!Port5 /\ (p # Qca!Bypass => <<p, "ephy">> \notin BypassGroups)
  /\ \A p, q : p # q => <<p, "ephy">> # <<q, "ephy">>
BY QcaIs DEF Qca!Qca8x8xAssumption, Qca!Ports, Qca!Cpu, Qca!Port5, BypassGroups

(* The same of the bypassing PHY: the switch ports' clocks do not come     *)
(* from serdes 0.                                                          *)
LEMMA BypassFits ==
  ASSUME NEW c, NEW n, NEW modes, NEW r \in Reading, modes[Qca!Bypass] = "bypass", BypassReady(c),
         Bypassed(c, n, r.up, r.speed), modes[Qca!Switch] = "switch" => SwitchReady(c), dt = "bypass"
  PROVE  /\ ClocksFit("bypass", modes, n, Qca!Bypass, r)
         /\ \A q \in Phys, s \in Reading :
              q # Qca!Bypass /\ ClocksFit("bypass", modes, c, q, s) => ClocksFit("bypass", modes, n, q, s)
<1>0. r.up \in BOOLEAN /\ "bypass" # "phy"
  BY DEF Reading
<1>1. n.on = IF r.up THEN c.on \cup BypassGroups ELSE c.on \ BypassGroups
  BY SMT DEF Bypassed
<1>2. FitsBypass(n, r)
  <2>1. GatedIn(n, BypassGroups, r.up)
    <3>1. CASE r.up
      BY <1>1, <3>1, Zenon DEF GatedIn
    <3>2. CASE ~r.up
      BY <1>1, <3>2, Zenon DEF GatedIn
    <3> QED  BY <3>1, <3>2
  <2>2. n.serdes[0].mode = "SGMII_PLUS" <=> r.speed = FastSpeed
    BY SMT DEF Bypassed, FastSpeed
  <2> QED  BY <2>1, <2>2, Zenon DEF FitsBypass, BypassGroups
<1>3. RunsTwo(n, Qca!Bypass, "gmii", Qca!GmiiClk(r.speed))
  BY SMT DEF Bypassed
<1>4. ClocksFit("bypass", modes, n, Qca!Bypass, r)
  BY <1>0, <1>2, <1>3, Zenon DEF ClocksFit
<1>5. ASSUME NEW q \in Phys, NEW s \in Reading, q # Qca!Bypass, ClocksFit("bypass", modes, c, q, s)
      PROVE  ClocksFit("bypass", modes, n, q, s)
  <2>1. q \in Qca!SwitchPhys
    BY <1>5 DEF Qca!SwitchPhys
  <2>2. RunsTwo(c, q, "gmii", Qca!GmiiClk(s.speed)) /\ modes[Qca!Switch] = "switch" /\ FitsSwitch(c, q, s)
    BY <1>0, <1>5, Zenon DEF ClocksFit
  <2>3. Untouched(c, n, q) /\ (<<q, "ephy">> \in n.on <=> <<q, "ephy">> \in c.on)
    BY <1>0, <2>1, <2>2, BypassAside, Zenon
  <2>4. n.mac_on = c.mac_on /\ n.mac_speed = c.mac_speed
    BY SMT DEF Bypassed
  <2>5. "gmii" \in {"gmii", "xgmii"} /\ q \in Qca!Ports
    BY DEF Qca!Ports
  <2>6. RunsTwo(n, q, "gmii", Qca!GmiiClk(s.speed))
    BY <2>2, <2>3, <2>5, StillRuns, Zenon
  <2>7. FitsSwitch(n, q, s)
    BY <2>2, <2>3, <2>4, Zenon DEF FitsSwitch
  <2> QED  BY <1>0, <1>5, <2>2, <2>6, <2>7, Zenon DEF ClocksFit
<1> QED  BY <1>4, <1>5, Zenon

(* The same of a switch port, beside other ports and a bypass.             *)
LEMMA SwitchPortFits ==
  ASSUME NEW c, NEW n, NEW modes, NEW p \in Qca!SwitchPhys, NEW r \in Reading, modes[Qca!Switch] = "switch",
         SwitchPortAt(c, n, p, r), dt \in {"switch", "bypass"}
  PROVE  /\ ClocksFit(dt, modes, n, p, r)
         /\ \A q \in Phys, s \in Reading :
              q # p /\ ClocksFit(dt, modes, c, q, s) => ClocksFit(dt, modes, n, q, s)
<1>1. /\ dt # "phy" /\ p \in Phys /\ ~(dt = "bypass" /\ p = Qca!Bypass) /\ r.up \in BOOLEAN
      /\ "gmii" \in {"gmii", "xgmii"}
  BY DEF Qca!SwitchPhys, Reading
<1>2. n.on = IF r.up THEN c.on \cup {<<p, "ephy">>} ELSE c.on \ {<<p, "ephy">>}
  BY Zenon DEF SwitchPortAt
<1>3. <<p, "ephy">> \in n.on <=> r.up
  BY <1>1, <1>2
<1>4. ClocksFit(dt, modes, n, p, r)
  <2>1. /\ RunsTwo(n, p, "gmii", Qca!GmiiClk(r.speed)) /\ n.mac_speed[p] = r.speed
        /\ p \in LinkEn \/ (p \in n.mac_on <=> r.up)
    BY Zenon DEF SwitchPortAt
  <2> QED  BY <1>1, <1>3, <2>1, Zenon DEF ClocksFit, FitsSwitch
<1>5. ASSUME NEW q \in Phys, NEW s \in Reading, q # p, ClocksFit(dt, modes, c, q, s)
      PROVE  ClocksFit(dt, modes, n, q, s)
  <2>1. /\ Untouched(c, n, q) /\ n.mac_speed[q] = c.mac_speed[q] /\ (q \in n.mac_on <=> q \in c.mac_on)
        /\ n.serdes = c.serdes /\ q \in Qca!Ports
    BY <1>5, BypassGroupsApart, Zenon DEF SwitchPortAt
  <2>2. RunsTwo(n, q, "gmii", Qca!GmiiClk(s.speed))
    BY <1>1, <1>5, <2>1, StillRuns, Zenon DEF ClocksFit
  <2>3. \A g : g # <<p, "ephy">> => (g \in n.on <=> g \in c.on)
    <3>1. CASE r.up
      BY <1>2, <3>1
    <3>2. CASE ~r.up
      BY <1>2, <3>2
    <3> QED  BY <3>1, <3>2
  <2>4. CASE dt = "bypass" /\ q = Qca!Bypass
    <3>1. modes[q] = "bypass" /\ FitsBypass(c, s)
      BY <1>5, <2>4, Zenon DEF ClocksFit
    <3>2. <<p, "ephy">> \notin BypassGroups
      BY <1>1, <2>4, BypassGroupsApart
    <3>3. GatedIn(n, BypassGroups, s.up)
      <4>1. GatedIn(c, BypassGroups, s.up)
        BY <3>1, Zenon DEF FitsBypass, BypassGroups
      <4>2. \A g \in BypassGroups : g \in n.on <=> g \in c.on
        BY <2>3, <3>2
      <4>3. CASE s.up
        BY <4>1, <4>2, <4>3, Zenon DEF GatedIn
      <4>4. CASE ~s.up
        BY <4>1, <4>2, <4>4, Zenon DEF GatedIn
      <4> QED  BY <4>3, <4>4
    <3>4. FitsBypass(n, s)
      BY <2>1, <3>1, <3>3, Zenon DEF FitsBypass, BypassGroups
    <3> QED  BY <1>1, <2>2, <2>4, <3>1, <3>4, Zenon DEF ClocksFit
  <2>5. CASE ~(dt = "bypass" /\ q = Qca!Bypass)
    <3>1. FitsSwitch(c, q, s)
      BY <1>1, <1>5, <2>5, Zenon DEF ClocksFit
    <3>2. <<q, "ephy">> # <<p, "ephy">>
      BY <1>5, BypassGroupsApart, Zenon
    <3>3. FitsSwitch(n, q, s)
      BY <2>1, <2>3, <3>1, <3>2, Zenon DEF FitsSwitch
    <3> QED  BY <1>1, <2>2, <2>5, <3>3, Zenon DEF ClocksFit
  <2> QED  BY <2>4, <2>5
<1> QED  BY <1>4, <1>5, Zenon

(* The invariant gives the property.                                       *)
LEMMA FitClocksFollow == ChipInv => Qca!ClocksFollowLinks
<1> SUFFICES ASSUME ChipInv PROVE Qca!ClocksFollowLinks
  OBVIOUS
<1>1. /\ ChipTyped /\ WorkModeFits /\ Configured
      /\ \A p \in Phys : last_read[p] # NeverRead => ClocksFit(dt, dev_mode, chip, p, last_read[p])
  BY Zenon DEF ChipInv
<1>2. ASSUME NEW clk, NEW freq PROVE Qca!Runs(clk, freq) <=> RunsIn(chip, clk, freq)
  BY Zenon DEF Qca!Runs, RunsIn
<1>3. ASSUME NEW p, NEW kind, NEW freq, RunsTwo(chip, p, kind, freq) PROVE Qca!RunsBoth(p, kind, freq)
  BY <1>2, <1>3, Zenon DEF Qca!RunsBoth, RunsTwo, Dirs
<1>4. ASSUME dev_mode[Qca!Switch] = "switch"
      PROVE  SwitchReady(chip)
  BY <1>1, <1>4, Zenon DEF Configured
<1>6. ASSUME NEW p \in Phys, last_read[p] # NeverRead
      PROVE  LET r == last_read[p] IN
             /\ Qca!RunsBoth(p, "gmii", Qca!GmiiClk(r.speed))
             /\ dt = "phy" => Qca!FollowsAsPhy(p, r)
             /\ dt = "bypass" /\ p = Qca!Bypass => Qca!FollowsAsBypass(r)
             /\ dt # "phy" /\ ~(dt = "bypass" /\ p = Qca!Bypass) => Qca!FollowsAsSwitch(p, r)
  <2> DEFINE r == last_read[p]
  <2>1. r \in Reading
    BY <1>1, <1>6 DEF ChipTyped, Reading, ChipSpeeds
  <2> HIDE DEF r
  <2>2. ClocksFit(dt, dev_mode, chip, p, r)
    BY <1>1, <1>6, Zenon DEF r
  <2>3. Qca!RunsBoth(p, "gmii", Qca!GmiiClk(r.speed))
    BY <1>3, <2>2, Zenon DEF ClocksFit
  <2>4. ASSUME dt = "phy" PROVE Qca!FollowsAsPhy(p, r)
    <3>1. dev_mode[p] = "phy" /\ FitsPhy(chip, p, r)
      BY <2>2, <2>4, Zenon DEF ClocksFit
    <3>2. PhyReady(chip)
      BY <1>1, <2>4, <3>1, Zenon DEF Configured, WorkModeFits
    <3>3. XgmiiRate(Qca!GmiiClk(r.speed)) = IF r.speed = 2500 THEN Qca!XpcsClk ELSE Qca!GmiiClk(r.speed)
      BY <2>1, GmiiRates DEF Reading
    <3>4. Qca!RunsBoth(p, "xgmii", XgmiiRate(Qca!GmiiClk(r.speed)))
      BY <1>3, <3>1, Zenon DEF FitsPhy
    <3>5. Qca!RunsBoth(p, "xgmii", IF r.speed = 2500 THEN Qca!XpcsClk ELSE Qca!GmiiClk(r.speed))
      BY <3>3, <3>4, SMT
    <3>6. Qca!Gated({p} \X {"uniphy", "ephy"}, r.up) /\ chip.xpcs_speed[p] = r.speed
      BY <3>1, Zenon DEF FitsPhy, GatedIn, Qca!Gated
    <3>7. ~chip.xpcs_rst /\ chip.serdes[1].mode = "XPCS"
      BY <3>2, Zenon DEF PhyReady
    <3> QED  BY <3>5, <3>6, <3>7, SMT DEF Qca!FollowsAsPhy
  <2>5. ASSUME dt = "bypass", p = Qca!Bypass PROVE Qca!FollowsAsBypass(r)
    <3>1. dev_mode[p] = "bypass" /\ FitsBypass(chip, r)
      BY <2>2, <2>5, Zenon DEF ClocksFit
    <3>2. BypassReady(chip)
      BY <1>1, <2>5, <3>1, Zenon DEF Configured, WorkModeFits
    <3>3. Qca!Gated({<<Qca!Bypass, "ephy">>, <<Qca!Port5, "uniphy">>}, r.up)
      BY <3>1, Zenon DEF FitsBypass, GatedIn, Qca!Gated
    <3>4. chip.serdes[0].mode = "SGMII_PLUS" <=> r.speed = FastSpeed
      BY <3>1, Zenon DEF FitsBypass
    <3>5. chip.uniphy0_sel = "MAC4" /\ chip.serdes[0].side = "PHY"
      BY <3>2, Zenon DEF BypassReady
    <3> QED  BY <3>3, <3>4, <3>5, SMT DEF Qca!FollowsAsBypass, FastSpeed
  <2>6. ASSUME dt # "phy", ~(dt = "bypass" /\ p = Qca!Bypass) PROVE Qca!FollowsAsSwitch(p, r)
    <3>1. dev_mode[Qca!Switch] = "switch" /\ FitsSwitch(chip, p, r)
      BY <2>2, <2>6, Zenon DEF ClocksFit
    <3>2. SwitchReady(chip) /\ p \in Qca!SwitchPhys
      BY <1>4, <2>6, <3>1 DEF Qca!SwitchPhys
    <3>3. /\ <<p, "mac">> \in chip.on /\ Qca!SwitchCore \in chip.on /\ Qca!Runs(Qca!Core, FullRate)
      BY <1>2, <3>2, Zenon DEF SwitchReady
    <3>4. Qca!Gated({<<p, "mac">>, Qca!SwitchCore}, TRUE)
      BY <3>3, Zenon DEF Qca!Gated
    <3>5. Qca!Gated({<<p, "ephy">>}, r.up)
      <4>1. CASE r.up
        BY <3>1, <4>1, Zenon DEF Qca!Gated, FitsSwitch
      <4>2. CASE ~r.up
        <5>1. <<p, "ephy">> \notin chip.on
          BY <3>1, <4>2, Zenon DEF FitsSwitch
        <5>2. {<<p, "ephy">>} \cap chip.on = {}
          BY <5>1
        <5> QED  BY <4>2, <5>2, Zenon DEF Qca!Gated
      <4> QED  BY <4>1, <4>2
    <3>6. (p \in LinkEn \/ (p \in chip.mac_on <=> r.up)) /\ chip.mac_speed[p] = r.speed
      BY <3>1, Zenon DEF FitsSwitch
    <3> DEFINE core == Qca!Runs(Qca!Core, FullRate)
               mac == Qca!Gated({<<p, "mac">>, Qca!SwitchCore}, TRUE)
               ephy == Qca!Gated({<<p, "ephy">>}, r.up)
    <3>7. Qca!FollowsAsSwitch(p, r) <=>
            /\ ephy /\ (p \in LinkEn \/ (p \in chip.mac_on <=> r.up)) /\ chip.mac_speed[p] = r.speed
            /\ mac /\ core
      BY SMT DEF Qca!FollowsAsSwitch, FullRate
    <3> HIDE DEF core, mac, ephy
    <3>8. core /\ mac /\ ephy
      BY <3>3, <3>4, <3>5, Zenon DEF core, mac, ephy
    <3> QED  BY <3>6, <3>7, <3>8, Zenon
  <2> QED  BY <2>3, <2>4, <2>5, <2>6, Zenon DEF r
<1>7. ASSUME NEW p \in Phys, last_read[p] # NeverRead
      PROVE  LET r == last_read[p] IN
             /\ Qca!RunsBoth(p, "gmii", Qca!GmiiClk(r.speed))
             /\ CASE dt = "phy" -> Qca!FollowsAsPhy(p, r)
                  [] dt = "bypass" /\ p = Qca!Bypass -> Qca!FollowsAsBypass(r)
                  [] OTHER -> Qca!FollowsAsSwitch(p, r)
  <2>1. CASE dt = "phy"
    BY <1>6, <1>7, <2>1
  <2>2. CASE dt = "bypass" /\ p = Qca!Bypass
    BY <1>6, <1>7, <2>2
  <2>3. CASE dt # "phy" /\ ~(dt = "bypass" /\ p = Qca!Bypass)
    BY <1>6, <1>7, <2>3
  <2> QED  BY <2>1, <2>2, <2>3
<1>8. ASSUME dev_mode[Qca!Switch] = "switch" PROVE Qca!CpuFollows
  <2> DEFINE runs == Qca!RunsBoth(Qca!Cpu, "gmii", FullRate)
             on == Qca!Gated({Qca!Cpu} \X {"mac", "uniphy"}, TRUE)
  <2>1. Qca!CpuFollows <=> runs /\ Qca!Cpu \in chip.mac_on /\ on
    BY SMT DEF Qca!CpuFollows, FullRate
  <2>2. SwitchReady(chip)
    BY <1>4, <1>8
  <2>3. runs
    BY <1>3, <2>2, Zenon DEF SwitchReady
  <2>4. Qca!Cpu \in chip.mac_on /\ on
    BY <2>2, Zenon DEF SwitchReady, Qca!Gated
  <2> HIDE DEF runs, on
  <2> QED  BY <2>1, <2>3, <2>4, Zenon
<1> QED  BY <1>7, <1>8, Zenon DEF Qca!ClocksFollowLinks

NoRaw == [u \in {0, 1} |-> 0]
(* A chip that was reset is one.                                           *)
LEMMA ResetOK ==
  /\ ChipOK(Qca!ResetChip) /\ Qca!ResetChip.work_mode = "PHY_UQXGMII" /\ Qca!SwitchCore \in Qca!ResetChip.on
  /\ Qca!ResetChip.serdes[0].side # "PHY" /\ Qca!ResetChip.raw = NoRaw
BY DEF Qca!ResetChip, ChipOK, ChipFields, AllClocks, Qca!SwitchCore, NoRaw

(* A restart that keeps the registers loses the table of raw clocks, and   *)
(* leaves a chip all the same.                                             *)
LEMMA TablesLost ==
  ASSUME NEW c, ChipOK(c)
  PROVE  /\ ChipOK([c EXCEPT !.raw = Qca!ResetChip.raw])
         /\ \A f \in ChipFields : f # "raw" => [c EXCEPT !.raw = Qca!ResetChip.raw][f] = c[f]
<1> DEFINE n == [c EXCEPT !.raw = NoRaw]
<1>1. DOMAIN n = ChipFields /\ n.raw = NoRaw /\ \A f \in ChipFields : f # "raw" => n[f] = c[f]
  BY DEF ChipOK, ChipFields
<1>2. NoRaw \in [{0, 1} -> {0, 125000, 312500}]
  BY SMT DEF NoRaw
<1> HIDE DEF n
<1>3. ChipOK(n)
  BY <1>1, <1>2 DEF ChipOK, ChipFields
<1> QED  BY <1>1, <1>3, ResetOK, Zenon DEF n

(* After a boot nothing was read, whatever the chip's registers hold.      *)
LEMMA NothingRead ==
  ASSUME ChipTyped, WorkModeFits, dev_mode = [d \in Phys |-> "none"], next_port = 0,
         last_read = [p \in Phys |-> NeverRead]
  PROVE  ChipInv
<1>1. Qca!Switch \in Phys
  BY QcaIs DEF Qca!Qca8x8xAssumption
<1>2. Configured
  BY <1>1 DEF Configured
<1> QED  BY <1>2 DEF ChipInv

(* It holds at the start.                                                  *)
LEMMA ChipStart == Qca!Init => ChipInv
<1> SUFFICES ASSUME Qca!Init PROVE ChipInv
  OBVIOUS
<1>1. ChipTyped
  BY ResetOK DEF Qca!Init, Qca!Booted, ChipTyped
<1>2. WorkModeFits
  BY ResetOK DEF Qca!Init, WorkModeFits
<1> QED  BY <1>1, <1>2, NothingRead DEF Qca!Init, Qca!Booted

(* It survives a restart, with the chip reset or not.                      *)
LEMMA RestartStep == ChipInv /\ Qca!Restart => ChipInv'
<1> SUFFICES ASSUME ChipInv, Qca!Restart PROVE ChipInv'
  OBVIOUS
<1>1. ChipTyped /\ WorkModeFits
  BY DEF ChipInv
<1>2. ChipOK(chip)
  BY <1>1 DEF ChipTyped
<1>3. /\ dt' = dt /\ next_port' = 0 /\ dev_mode' = [d \in Phys |-> "none"]
      /\ last_read' = [p \in Phys |-> NeverRead]
  BY DEF Qca!Restart
<1>4. \/ chip' = Qca!ResetChip
      \/ /\ ChipOK(chip') /\ \A f \in ChipFields : f # "raw" => chip'[f] = chip[f]
  BY <1>2, TablesLost, Zenon DEF Qca!Restart
<1>5. ChipTyped'
  <2>1. ChipOK(chip')
    BY <1>4, ResetOK
  <2> QED  BY <1>1, <1>3, <2>1 DEF ChipTyped
<1>6. WorkModeFits'
  <2>1. CASE chip' = Qca!ResetChip
    BY <1>1, <1>3, <2>1, ResetOK DEF ChipTyped, WorkModeFits
  <2>2. CASE ChipOK(chip') /\ \A f \in ChipFields : f # "raw" => chip'[f] = chip[f]
    <3>1. /\ chip'.work_mode = chip.work_mode /\ chip'.on = chip.on /\ chip'.serdes = chip.serdes
          /\ chip'.xpcs_rst = chip.xpcs_rst /\ chip'.uniphy0_sel = chip.uniphy0_sel
          /\ chip'.rcg = chip.rcg
      BY <2>2 DEF ChipFields
    <3>2. PhyReady(chip) => PhyReady(chip')
      BY <3>1, Zenon DEF PhyReady, FromSource
    <3>3. BypassReady(chip) => BypassReady(chip')
      BY <3>1, Zenon DEF BypassReady, FromSource
    <3> QED  BY <1>1, <1>3, <3>1, <3>2, <3>3, Zenon DEF WorkModeFits
  <2> QED  BY <1>4, <2>1, <2>2
<1>7. Configured'
  <2>1. Qca!Switch \in Phys
    BY QcaIs DEF Qca!Qca8x8xAssumption
  <2>2. \A d \in Phys : dev_mode'[d] = "none"
    BY <1>3
  <2>3. "none" \notin {"phy", "switch", "bypass"}
    OBVIOUS
  <2>4. dev_mode'[Qca!Switch] # "switch" /\ \A d \in Phys : dev_mode'[d] \notin {"phy", "switch", "bypass"}
    BY <2>1, <2>2, <2>3
  <2> QED  BY <1>3, <2>4 DEF Configured
<1> QED  BY <1>3, <1>5, <1>6, <1>7 DEF ChipInv

(* A chip found bypassing is taken as it is: nothing was read yet that it  *)
(* could fail to fit.                                                      *)
LEMMA ConfigBypassedStep ==
  ASSUME ChipInv, NEW d \in Qca!Devs, Qca!Config(d), Qca!ConfigBypassed(d) PROVE ChipInv'
<1>1. /\ ChipTyped /\ WorkModeFits /\ Configured
  BY DEF ChipInv
<1>2. /\ dt' = dt /\ chip' = chip /\ next_port' = next_port /\ last_read' = last_read
      /\ dev_mode' = [dev_mode EXCEPT ![d] = "bypass"] /\ dev_mode[d] = "none"
      /\ chip.work_mode = "SWITCH_BYPASS_PORT5"
  BY DEF Qca!Config, Qca!ConfigBypassed
<1>3. d \in Phys /\ Qca!Switch \in Phys /\ Qca!Bypass \in Phys
  BY <1>1, QcaIs DEF Qca!Devs, ChipTyped, Qca!Qca8x8xAssumption
<1>4. dt = "bypass" /\ next_port = 0 /\ last_read = [p \in Phys |-> NeverRead]
  BY <1>1, <1>2 DEF ChipTyped, WorkModeFits, Configured
<1>5. \A e \in Phys : dev_mode'[e] = IF e = d THEN "bypass" ELSE dev_mode[e]
  BY <1>1, <1>2 DEF ChipTyped
<1>6. ChipTyped'
  BY <1>1, <1>2, <1>3, <1>5 DEF ChipTyped, Qca!SwitchPhys
<1>7. WorkModeFits'
  BY <1>1, <1>2, Zenon DEF WorkModeFits
<1>8. Configured'
  <2>1. \A e \in Phys :
          /\ dev_mode'[e] = "phy" => dt = "phy" /\ Qca!SwitchCore \notin chip.on
          /\ dev_mode'[e] = "switch" => dt # "phy" /\ e = Qca!Switch
          /\ dev_mode'[e] = "bypass" => dt = "bypass" /\ chip.work_mode = "SWITCH_BYPASS_PORT5"
    BY <1>1, <1>2, <1>4, <1>5 DEF Configured
  <2>2. dev_mode'[Qca!Switch] = "switch" => SwitchReady(chip)'
    <3>1. dev_mode'[Qca!Switch] = "switch" => SwitchReady(chip)
      BY <1>1, <1>3, <1>5 DEF Configured
    <3>2. Qca!SwitchPhys' = Qca!SwitchPhys
      BY <1>2 DEF Qca!SwitchPhys
    <3> QED  BY <1>2, <3>1, <3>2, Zenon DEF SwitchReady
  <2> QED  BY <1>2, <1>4, <2>1, <2>2, Zenon DEF Configured
<1>9. \A p \in Phys : last_read'[p] = NeverRead
  BY <1>2, <1>4
<1> QED  BY <1>6, <1>7, <1>8, <1>9 DEF ChipInv

(* Configuring one of four PHYs sets up the chip, or finds it set up: then *)
(* its switch core has no clock.                                           *)
LEMMA ConfigPhyStep ==
  ASSUME ChipInv, NEW d \in Qca!Devs, Qca!Config(d), Qca!ConfigPhy(d) PROVE ChipInv'
<1>1. /\ ChipTyped /\ WorkModeFits /\ Configured
  BY DEF ChipInv
<1> DEFINE n == Qca!GccClockInit(Qca!UqxgmiiModeSet(chip), "PHY_UQXGMII", {})
<1>2. /\ dt' = dt /\ chip' = (IF Qca!SwitchCore \in chip.on THEN n ELSE chip)
      /\ next_port' = next_port /\ last_read' = last_read
      /\ dev_mode' = [dev_mode EXCEPT ![d] = "phy"] /\ dev_mode[d] = "none"
      /\ dt = "phy"
  BY Zenon DEF Qca!Config, Qca!ConfigPhy
<1>3. ChipOK(n) /\ PhyReady(n) /\ n.work_mode = chip.work_mode /\ Qca!SwitchCore \notin n.on
  <2>1. ChipOK(chip)
    BY <1>1 DEF ChipTyped
  <2> QED  BY <2>1, PhysConfigured, Zenon
<1> HIDE DEF n
<1>4. d \in Phys /\ Qca!Switch \in Phys
  BY <1>1, <1>2, QcaIs DEF Qca!Devs, Qca!Qca8x8xAssumption
<1>5. next_port = 0 /\ last_read = [p \in Phys |-> NeverRead]
  BY <1>1, <1>2 DEF Configured
<1>6. \A e \in Phys : dev_mode'[e] = IF e = d THEN "phy" ELSE dev_mode[e]
  BY <1>1, <1>2 DEF ChipTyped
<1>7. chip'.work_mode = "PHY_UQXGMII" /\ PhyReady(chip') /\ Qca!SwitchCore \notin chip'.on /\ ChipOK(chip')
  <2>1. chip.work_mode = "PHY_UQXGMII" /\ ChipOK(chip) /\ (Qca!SwitchCore \notin chip.on => PhyReady(chip))
    BY <1>1, <1>2 DEF WorkModeFits, ChipTyped
  <2>2. CASE Qca!SwitchCore \in chip.on
    BY <1>2, <1>3, <2>1, <2>2, Zenon
  <2>3. CASE Qca!SwitchCore \notin chip.on
    BY <1>2, <2>1, <2>3, Zenon
  <2> QED  BY <2>2, <2>3
<1>8. ChipTyped'
  BY <1>1, <1>2, <1>4, <1>6, <1>7 DEF ChipTyped, Qca!SwitchPhys
<1>9. WorkModeFits'
  BY <1>2, <1>7 DEF WorkModeFits
<1>10. Configured'
  <2>1. \A e \in Phys : dev_mode'[e] # "switch" /\ dev_mode'[e] # "bypass"
    BY <1>1, <1>2, <1>6 DEF Configured
  <2> QED  BY <1>2, <1>4, <1>5, <1>7, <2>1 DEF Configured
<1>11. \A p \in Phys : last_read'[p] = NeverRead
  BY <1>2, <1>5
<1> QED  BY <1>8, <1>9, <1>10, <1>11 DEF ChipInv

(* Configuring a switch sets it up, for a bypass after putting serdes 0 on *)
(* the PHY's side.                                                         *)
LEMMA ConfigSwitchStep ==
  ASSUME ChipInv, NEW d \in Qca!Devs, Qca!Config(d), Qca!ConfigSwitch(d) PROVE ChipInv'
<1>1. /\ ChipTyped /\ WorkModeFits /\ Configured
  BY DEF ChipInv
<1> DEFINE named == [chip EXCEPT !.work_mode = "PHY_SGMII_UQXGMII"]
           start == IF dt = "switch" THEN chip ELSE Qca!PhySgmiiModeSet(named, FALSE, 1000)
<1>2. /\ dt' = dt /\ next_port' = next_port /\ last_read' = last_read
      /\ dev_mode' = [dev_mode EXCEPT ![d] = "switch"] /\ dev_mode[d] = "none"
      /\ dt \in {"switch", "bypass"} /\ d = Qca!Switch
  BY <1>1 DEF Qca!Config, Qca!ConfigSwitch, ChipTyped
<1>3. chip' = Qca!SwitchInit(start)
  <2>1. CASE dt = "switch"
    BY <2>1 DEF Qca!ConfigSwitch
  <2>2. CASE dt # "switch"
    BY <2>2 DEF Qca!ConfigSwitch
  <2> QED  BY <2>1, <2>2
<1>4. ChipOK(start) /\ (dt = "bypass" <=> start.serdes[0].side = "PHY")
  <2>1. CASE dt = "switch"
    BY <1>1, <2>1 DEF WorkModeFits, ChipTyped
  <2>2. CASE dt # "switch"
    <3>1. ChipOK(named)
      <4>1. DOMAIN named = ChipFields /\ \A f \in ChipFields : f # "work_mode" => named[f] = chip[f]
        BY <1>1 DEF ChipTyped, ChipOK, ChipFields
      <4> HIDE DEF named
      <4> QED  BY <1>1, <4>1 DEF ChipTyped, ChipOK, ChipFields
    <3> HIDE DEF named
    <3> DEFINE first == 1000
               b == Qca!PhySgmiiModeSet(named, FALSE, first)
    <3>2. first \in ChipSpeeds /\ FALSE \in BOOLEAN
      BY DEF ChipSpeeds
    <3>3. start = b
      BY <2>2
    <3> HIDE DEF first
    <3>4. Bypassed(named, b, FALSE, first)
      BY <3>1, <3>2, BypassSet, Zenon
    <3> HIDE DEF b
    <3>5. ChipOK(b) /\ b.serdes[0].side = "PHY"
      BY <3>4, SMT DEF Bypassed
    <3> HIDE DEF start
    <3> QED  BY <1>2, <2>2, <3>3, <3>5
  <2> QED  BY <2>1, <2>2
<1> HIDE DEF start
<1>5. SwitchedOn(start, chip')
  BY <1>2, <1>3, <1>4, SwitchesOn, Zenon
<1>6. /\ ChipOK(chip') /\ SwitchReady(chip') /\ chip'.serdes[0] = start.serdes[0]
      /\ chip'.work_mode = (IF dt = "bypass" THEN "SWITCH_BYPASS_PORT5" ELSE "SWITCH")
      /\ dt = "bypass" => BypassReady(chip')
  BY <1>5, Zenon DEF SwitchedOn
<1>7. next_port = 0 /\ last_read = [p \in Phys |-> NeverRead]
  BY <1>1, <1>2 DEF Configured
<1>8. Qca!Switch \in Phys /\ \A e \in Phys : dev_mode'[e] = IF e = Qca!Switch THEN "switch" ELSE dev_mode[e]
  BY <1>1, <1>2, QcaIs DEF ChipTyped, Qca!Qca8x8xAssumption
<1>9. Qca!SwitchPhys' = Qca!SwitchPhys
  BY <1>2 DEF Qca!SwitchPhys
<1>10. SwitchReady(chip)'
  <2>1. SwitchReady(chip')
    BY <1>6
  <2> QED  BY <1>9, <2>1, Zenon DEF SwitchReady
<1>11. ChipTyped'
  BY <1>1, <1>2, <1>6, <1>7, <1>8 DEF ChipTyped
<1>12. WorkModeFits'
  BY <1>2, <1>4, <1>6 DEF WorkModeFits
<1>13. Configured'
  <2>1. \A e \in Phys :
          /\ dev_mode'[e] = "phy" => dt = "phy" /\ Qca!SwitchCore \notin chip'.on
          /\ dev_mode'[e] = "switch" => dt # "phy" /\ e = Qca!Switch
          /\ dev_mode'[e] = "bypass" => dt = "bypass" /\ chip'.work_mode = "SWITCH_BYPASS_PORT5"
    BY <1>1, <1>2, <1>6, <1>8 DEF Configured
  <2> QED  BY <1>2, <1>6, <1>7, <1>10, <2>1, Zenon DEF Configured
<1>14. \A p \in Phys : last_read'[p] = NeverRead
  BY <1>2, <1>7
<1> QED  BY <1>11, <1>12, <1>13, <1>14 DEF ChipInv

(* The switch goes through its ports from the least.                       *)
LEMMA LeastPort ==
  ASSUME NEW S, S \subseteq 1 .. 4, S # {}
  PROVE  (CHOOSE p \in S : \A q \in S : p <= q) \in S
<1>1. \E p \in S : \A q \in S : p <= q
  <2>1. CASE 1 \in S
    BY <2>1
  <2>2. CASE 1 \notin S /\ 2 \in S
    <3>1. \A q \in S : 2 <= q
      BY <2>2
    <3> QED  BY <2>2, <3>1
  <2>3. CASE 1 \notin S /\ 2 \notin S /\ 3 \in S
    <3>1. \A q \in S : 3 <= q
      BY <2>3
    <3> QED  BY <2>3, <3>1
  <2>4. CASE 1 \notin S /\ 2 \notin S /\ 3 \notin S
    <3>1. \A q \in S : q = 4
      BY <2>4
    <3>2. 4 \in S
      BY <3>1
    <3> QED  BY <3>1, <3>2
  <2> QED  BY <2>1, <2>2, <2>3, <2>4
<1> QED  BY <1>1, Zenon

(* Those ports are PHYs, and there is one.                                 *)
LEMMA SwitchPorted == Qca!SwitchPhys \subseteq 1 .. 4 /\ Qca!Switch \in Qca!SwitchPhys
BY QcaIs DEF Qca!SwitchPhys, Qca!Qca8x8xAssumption, Qca!Switch, Qca!Bypass

(* A speed the driver knows is one a clock rate exists for.                *)
LEMMA KnownReading ==
  ASSUME NEW r \in Qca!Readings, r.speed # Unknown PROVE r \in Reading
<1>1. r = [up |-> r.up, speed |-> r.speed] /\ r.up \in BOOLEAN /\ r.speed \in PhySpeeds
  BY DEF Qca!Readings
<1>2. r.speed \in ChipSpeeds
  BY <1>1, QcaIs DEF ChipSpeeds, Qca!Qca8x8xAssumption
<1> QED  BY <1>1, <1>2 DEF Reading

(* Nothing but the port the switch is at.                                  *)
LEMMA PortStep ==
  ASSUME ChipInv, dt' = dt, chip' = chip, dev_mode' = dev_mode, last_read' = last_read,
         next_port' \in Qca!SwitchPhys \cup {0}, next_port' # 0 => dev_mode[Qca!Switch] = "switch",
         next_port' # 0 => \A d \in Qca!Devs : dev_mode[d] # "none"
  PROVE  ChipInv'
<1>1. /\ ChipTyped /\ WorkModeFits /\ Configured
      /\ \A p \in Phys : last_read[p] # NeverRead => ClocksFit(dt, dev_mode, chip, p, last_read[p])
  BY Zenon DEF ChipInv
<1>2. Qca!SwitchPhys' = Qca!SwitchPhys /\ Qca!Devs' = Qca!Devs
  BY DEF Qca!SwitchPhys, Qca!Devs
<1>3. ChipTyped'
  BY <1>1, <1>2 DEF ChipTyped
<1>4. WorkModeFits'
  BY <1>1, Zenon DEF WorkModeFits
<1>5. SwitchReady(chip)' <=> SwitchReady(chip)
  BY <1>2, Zenon DEF SwitchReady
<1>6. Configured'
  BY <1>1, <1>2, <1>5, Zenon DEF Configured
<1> QED  BY <1>1, <1>3, <1>4, <1>6, Zenon DEF ChipInv

(* One link is read.                                                       *)
LEMMA ReadStep ==
  ASSUME ChipInv, dt' = dt, dev_mode' = dev_mode, NEW p \in Phys, NEW r \in Reading,
         last_read' = [last_read EXCEPT ![p] = r],
         ClocksFit(dt, dev_mode, chip', p, r),
         \A q \in Phys, s \in Reading :
           q # p /\ ClocksFit(dt, dev_mode, chip, q, s) => ClocksFit(dt, dev_mode, chip', q, s)
  PROVE  /\ \A q \in Phys : last_read'[q] # NeverRead =>
              ClocksFit(dt', dev_mode', chip', q, last_read'[q])
         /\ last_read' \in [Phys -> Reading \cup {NeverRead}]
<1>1. last_read \in [Phys -> Reading \cup {NeverRead}]
  BY DEF ChipInv, ChipTyped, Reading, ChipSpeeds
<1>2. \A q \in Phys : last_read[q] # NeverRead => ClocksFit(dt, dev_mode, chip, q, last_read[q])
  BY Zenon DEF ChipInv
<1>3. \A q \in Phys : last_read'[q] = IF q = p THEN r ELSE last_read[q]
  BY <1>1
<1>4. last_read' \in [Phys -> Reading \cup {NeverRead}]
  BY <1>1
<1>5. ASSUME NEW q \in Phys, last_read'[q] # NeverRead
      PROVE  ClocksFit(dt, dev_mode, chip', q, last_read'[q])
  <2>1. CASE q = p
    BY <1>3, <2>1, Zenon
  <2>2. CASE q # p
    <3>1. last_read'[q] = last_read[q] /\ last_read[q] \in Reading
      BY <1>1, <1>3, <1>5, <2>2
    <3>2. ClocksFit(dt, dev_mode, chip, q, last_read[q])
      BY <1>2, <1>5, <3>1, Zenon
    <3> QED  BY <2>2, <3>1, <3>2, Zenon
  <2> QED  BY <2>1, <2>2
<1> QED  BY <1>4, <1>5, Zenon

(* Starting a PHY follows its link.                                        *)
LEMMA StartupPhyStep ==
  ASSUME ChipInv, NEW d \in Qca!Devs, NEW r \in Qca!Readings, Qca!StartupPhy(d, r) PROVE ChipInv'
<1>1. /\ ChipTyped /\ WorkModeFits /\ Configured
  BY DEF ChipInv
<1>2. /\ dt' = dt /\ dev_mode' = dev_mode /\ next_port' = next_port /\ next_port = 0
      /\ chip' = Qca!UqxgmiiSpeedFixup(chip, d, r.up, r.speed) /\ dev_mode[d] = "phy"
      /\ last_read' = [last_read EXCEPT ![d] = r] /\ r.speed # Unknown
      /\ \A e \in Qca!Devs : dev_mode[e] # "none"
  BY Zenon DEF Qca!StartupPhy, Qca!Ready, Qca!HasRead
<1>3. d \in Phys /\ Qca!Switch \in Phys
  BY <1>1, QcaIs DEF Qca!Devs, ChipTyped, Qca!Qca8x8xAssumption
<1>4. dt = "phy" /\ Qca!SwitchCore \notin chip.on /\ chip.work_mode = "PHY_UQXGMII" /\ PhyReady(chip) /\ ChipOK(chip)
  BY <1>1, <1>2, <1>3 DEF Configured, WorkModeFits, ChipTyped
<1>5. r \in Reading /\ r.up \in BOOLEAN /\ r.speed \in ChipSpeeds
  BY <1>2, KnownReading DEF Reading
<1>6. PhyAt(chip, chip', d, r.up, r.speed)
  BY <1>2, <1>3, <1>4, <1>5, PhySet, Zenon
<1>7. /\ ClocksFit(dt, dev_mode, chip', d, r)
      /\ \A q \in Phys, s \in Reading :
           q # d /\ ClocksFit(dt, dev_mode, chip, q, s) => ClocksFit(dt, dev_mode, chip', q, s)
  <2>1. /\ ClocksFit("phy", dev_mode, chip', d, r)
        /\ \A q \in Phys, s \in Reading :
             q # d /\ ClocksFit("phy", dev_mode, chip, q, s) => ClocksFit("phy", dev_mode, chip', q, s)
    BY <1>2, <1>3, <1>5, <1>6, PhyFits
  <2>2. dt = "phy"
    BY <1>4
  <2> QED  BY <2>1, <2>2
<1>8. /\ \A q \in Phys : last_read'[q] # NeverRead => ClocksFit(dt', dev_mode', chip', q, last_read'[q])
      /\ last_read' \in [Phys -> Reading \cup {NeverRead}]
  BY <1>2, <1>3, <1>5, <1>7, ReadStep, Zenon
<1>9. /\ ChipOK(chip') /\ PhyReady(chip') /\ chip'.work_mode = "PHY_UQXGMII"
      /\ Qca!SwitchCore \notin chip'.on
  <2>1. /\ ChipOK(chip') /\ PhyReady(chip') /\ chip'.work_mode = chip.work_mode
        /\ chip'.on = IF r.up THEN chip.on \cup PhyGroups(d) ELSE chip.on \ PhyGroups(d)
    BY <1>6, Zenon DEF PhyAt
  <2>2. Qca!SwitchCore \notin PhyGroups(d)
    BY DEF Qca!SwitchCore, PhyGroups
  <2>3. CASE r.up
    BY <1>4, <2>1, <2>2, <2>3
  <2>4. CASE ~r.up
    BY <1>4, <2>1, <2>2, <2>4
  <2> QED  BY <1>4, <2>1, <2>3, <2>4
<1>10. ChipTyped'
  BY <1>1, <1>2, <1>8, <1>9 DEF ChipTyped, Reading, ChipSpeeds
<1>11. WorkModeFits'
  BY <1>2, <1>4, <1>9 DEF WorkModeFits
<1>12. Configured'
  <2>1. \A e \in Phys : dev_mode[e] # "switch" /\ dev_mode[e] # "bypass"
    BY <1>1, <1>4 DEF Configured
  <2>2. Qca!Devs' = Qca!Devs
    BY <1>2 DEF Qca!Devs
  <2> QED  BY <1>2, <1>3, <1>4, <1>9, <2>1, <2>2 DEF Configured
<1> QED  BY <1>8, <1>10, <1>11, <1>12, Zenon DEF ChipInv

(* So does starting the bypassing PHY.                                     *)
LEMMA StartupBypassStep ==
  ASSUME ChipInv, NEW d \in Qca!Devs, NEW r \in Qca!Readings, Qca!StartupBypass(d, r) PROVE ChipInv'
<1>1. /\ ChipTyped /\ WorkModeFits /\ Configured
  BY DEF ChipInv
<1>2. /\ dt' = dt /\ dev_mode' = dev_mode /\ next_port' = next_port /\ next_port = 0
      /\ chip' = Qca!PhySgmiiModeSet(chip, r.up, r.speed) /\ dev_mode[Qca!Bypass] = "bypass"
      /\ last_read' = [last_read EXCEPT ![Qca!Bypass] = r] /\ r.speed # Unknown
      /\ \A e \in Qca!Devs : dev_mode[e] # "none"
  BY Zenon DEF Qca!StartupBypass, Qca!Ready, Qca!HasRead
<1>3. Qca!Bypass \in Phys /\ Qca!Switch \in Phys
  BY QcaIs DEF Qca!Qca8x8xAssumption
<1>4. dt = "bypass" /\ chip.work_mode = "SWITCH_BYPASS_PORT5" /\ BypassReady(chip) /\ ChipOK(chip)
  BY <1>1, <1>2, <1>3 DEF Configured, WorkModeFits, ChipTyped
<1>5. r \in Reading /\ r.up \in BOOLEAN /\ r.speed \in ChipSpeeds
  BY <1>2, KnownReading DEF Reading
<1>6. Bypassed(chip, chip', r.up, r.speed)
  BY <1>2, <1>4, <1>5, BypassSet, Zenon
<1>7. dev_mode[Qca!Switch] = "switch" => SwitchReady(chip)
  BY <1>1, Zenon DEF Configured
<1>8. /\ ClocksFit(dt, dev_mode, chip', Qca!Bypass, r)
      /\ \A q \in Phys, s \in Reading :
           q # Qca!Bypass /\ ClocksFit(dt, dev_mode, chip, q, s) => ClocksFit(dt, dev_mode, chip', q, s)
  BY <1>2, <1>4, <1>5, <1>6, <1>7, BypassFits, Zenon
<1>9. /\ \A q \in Phys : last_read'[q] # NeverRead => ClocksFit(dt', dev_mode', chip', q, last_read'[q])
      /\ last_read' \in [Phys -> Reading \cup {NeverRead}]
  BY <1>2, <1>3, <1>5, <1>8, ReadStep, Zenon
<1>10. ChipOK(chip') /\ BypassReady(chip') /\ chip'.work_mode = "SWITCH_BYPASS_PORT5"
  BY <1>4, <1>6, SMT DEF Bypassed
<1>11. dev_mode'[Qca!Switch] = "switch" => SwitchReady(chip)'
  <2>1. Qca!SwitchPhys' = Qca!SwitchPhys
    BY <1>2 DEF Qca!SwitchPhys
  <2>2. dev_mode[Qca!Switch] = "switch" => SwitchReady(chip')
    BY <1>4, <1>5, <1>6, <1>7, BypassAside, Zenon
  <2> QED  BY <1>2, <2>1, <2>2, Zenon DEF SwitchReady
<1>12. ChipTyped'
  <2>1. Qca!SwitchPhys' = Qca!SwitchPhys
    BY <1>2 DEF Qca!SwitchPhys
  <2> QED  BY <1>1, <1>2, <1>9, <1>10, <2>1 DEF ChipTyped, Reading, ChipSpeeds
<1>13. WorkModeFits'
  BY <1>2, <1>4, <1>10 DEF WorkModeFits
<1>14. Configured'
  <2>1. \A e \in Phys : dev_mode[e] # "phy" /\ (dev_mode[e] = "switch" => e = Qca!Switch)
    BY <1>1, <1>4 DEF Configured
  <2>2. Qca!Devs' = Qca!Devs
    BY <1>2 DEF Qca!Devs
  <2> QED  BY <1>2, <1>3, <1>4, <1>10, <1>11, <2>1, <2>2 DEF Configured
<1> QED  BY <1>9, <1>12, <1>13, <1>14, Zenon DEF ChipInv

(* Starting the switch chooses its first port.                             *)
LEMMA StartupSwitchStep ==
  ASSUME ChipInv, Qca!StartupSwitch PROVE ChipInv'
<1>1. Qca!SwitchPhys \subseteq 1 .. 4 /\ Qca!Switch \in Qca!SwitchPhys
  BY SwitchPorted
<1>2. next_port' \in Qca!SwitchPhys
  <2>1. next_port' = CHOOSE p \in Qca!SwitchPhys : \A q \in Qca!SwitchPhys : p <= q
    BY DEF Qca!StartupSwitch
  <2>2. Qca!SwitchPhys # {}
    BY <1>1
  <2> HIDE DEF Qca!Switch
  <2> QED  BY <1>1, <2>1, <2>2, LeastPort, Zenon
<1>3. /\ dt' = dt /\ chip' = chip /\ dev_mode' = dev_mode /\ last_read' = last_read
      /\ dev_mode[Qca!Switch] = "switch" /\ \A d \in Qca!Devs : dev_mode[d] # "none"
  BY DEF Qca!StartupSwitch, Qca!Ready
<1> QED  BY <1>2, <1>3, PortStep

(* Each port of the switch is followed in its turn.                        *)
LEMMA SwitchLinkUpdateStep ==
  ASSUME ChipInv, NEW r \in Qca!Readings, Qca!SwitchLinkUpdate(r) PROVE ChipInv'
<1>1. /\ ChipTyped /\ WorkModeFits /\ Configured
  BY DEF ChipInv
<1> DEFINE status == IF r.up THEN r ELSE [r EXCEPT !.speed = 10]
           rest == {p \in Qca!SwitchPhys : p > next_port}
<1>2. /\ dt' = dt /\ dev_mode' = dev_mode /\ next_port # 0
      /\ chip' = Qca!PortLinkUpdate(chip, next_port, status)
      /\ last_read' = [last_read EXCEPT ![next_port] = status] /\ (r.up => r.speed # Unknown)
  BY DEF Qca!SwitchLinkUpdate, Qca!HasRead
<1>3. next_port' \in Qca!SwitchPhys \cup {0}
  <2>1. CASE rest = {}
    BY <2>1 DEF Qca!SwitchLinkUpdate, Qca!Leave
  <2>2. CASE rest # {}
    <3>1. next_port' = CHOOSE p \in rest : \A q \in rest : p <= q
      BY <2>2 DEF Qca!SwitchLinkUpdate
    <3>2. rest \subseteq 1 .. 4 /\ rest \subseteq Qca!SwitchPhys
      <4>1. Qca!SwitchPhys \subseteq 1 .. 4
        BY SwitchPorted
      <4>2. rest \subseteq Qca!SwitchPhys
        OBVIOUS
      <4> HIDE DEF rest
      <4> QED  BY <4>1, <4>2
    <3> HIDE DEF rest
    <3>3. next_port' \in rest
      BY <2>2, <3>1, <3>2, LeastPort, Zenon
    <3> QED  BY <3>2, <3>3
  <2> QED  BY <2>1, <2>2
<1> HIDE DEF rest
<1>4. status \in Reading
  <2>1. CASE r.up
    BY <1>2, <2>1, KnownReading
  <2>2. CASE ~r.up
    BY <2>2 DEF Qca!Readings, Reading, ChipSpeeds
  <2> QED  BY <2>1, <2>2
<1> HIDE DEF status
<1>5. /\ next_port \in Qca!SwitchPhys /\ next_port \in Phys /\ ChipOK(chip) /\ dev_mode[Qca!Switch] = "switch"
      /\ dt \in {"switch", "bypass"} /\ SwitchReady(chip) /\ \A e \in Qca!Devs : dev_mode[e] # "none"
  <2>1. next_port \in Qca!SwitchPhys /\ ChipOK(chip) /\ dt \in {"phy", "switch", "bypass"} /\ Qca!Switch \in Phys
    BY <1>1, <1>2, QcaIs DEF ChipTyped, Qca!Qca8x8xAssumption
  <2>2. dev_mode[Qca!Switch] = "switch"
    BY <1>1, <1>2, Zenon DEF Configured
  <2>3. dt # "phy" /\ SwitchReady(chip)
    BY <1>1, <2>1, <2>2, Zenon DEF Configured
  <2>4. \A e \in Qca!Devs : dev_mode[e] # "none"
    BY <1>1, <1>2, Zenon DEF Configured
  <2> QED  BY <2>1, <2>2, <2>3, <2>4 DEF Qca!SwitchPhys
<1>6. SwitchPortAt(chip, chip', next_port, status)
  BY <1>2, <1>4, <1>5, SwitchPortSet, Zenon DEF Reading
<1>7. /\ ClocksFit(dt, dev_mode, chip', next_port, status)
      /\ \A q \in Phys, s \in Reading :
           q # next_port /\ ClocksFit(dt, dev_mode, chip, q, s) => ClocksFit(dt, dev_mode, chip', q, s)
  BY <1>4, <1>5, <1>6, SwitchPortFits, Zenon
<1>8. /\ \A q \in Phys : last_read'[q] # NeverRead => ClocksFit(dt', dev_mode', chip', q, last_read'[q])
      /\ last_read' \in [Phys -> Reading \cup {NeverRead}]
  BY <1>2, <1>4, <1>5, <1>7, ReadStep, Zenon
<1>9. /\ ChipOK(chip') /\ SwitchReady(chip') /\ chip'.work_mode = chip.work_mode
      /\ chip'.serdes = chip.serdes /\ chip'.uniphy0_sel = chip.uniphy0_sel
  BY <1>6, Zenon DEF SwitchPortAt
<1>10. Qca!SwitchPhys' = Qca!SwitchPhys /\ Qca!Devs' = Qca!Devs
  BY <1>2 DEF Qca!SwitchPhys, Qca!Devs
<1>11. ChipTyped'
  BY <1>1, <1>2, <1>3, <1>8, <1>9, <1>10 DEF ChipTyped, Reading, ChipSpeeds
<1>12. dt = "bypass" /\ chip.work_mode = "SWITCH_BYPASS_PORT5" => BypassReady(chip')
  <2>1. SUFFICES ASSUME dt = "bypass", BypassReady(chip) PROVE BypassReady(chip')
    BY <1>1, Zenon DEF WorkModeFits
  <2>2. Qca!Bypass \in Qca!Ports /\ Qca!Bypass # next_port /\ "tx" \in Dirs /\ "rx" \in Dirs
    BY <1>5, <2>1, BypassGroupsApart DEF Qca!SwitchPhys, Dirs
  <2>3. Untouched(chip, chip', Qca!Bypass)
    BY <1>6, <2>2, Zenon DEF SwitchPortAt
  <2> QED  BY <1>9, <2>1, <2>2, <2>3, StillFed, Zenon DEF BypassReady
<1>13. WorkModeFits'
  BY <1>1, <1>2, <1>5, <1>9, <1>12 DEF WorkModeFits
<1>14. SwitchReady(chip)'
  BY <1>9, <1>10, Zenon DEF SwitchReady
<1>15. Configured'
  <2>1. \A e \in Phys :
          /\ dev_mode[e] # "phy" /\ (dev_mode[e] = "switch" => e = Qca!Switch)
          /\ dev_mode[e] = "bypass" => dt = "bypass" /\ chip.work_mode = "SWITCH_BYPASS_PORT5"
    BY <1>1, <1>5 DEF Configured
  <2>2. dt = "bypass" => chip.work_mode = "SWITCH_BYPASS_PORT5"
    BY <1>1, <1>5, Zenon DEF Configured
  <2> QED  BY <1>2, <1>5, <1>9, <1>10, <1>14, <2>1, <2>2 DEF Configured
<1> QED  BY <1>8, <1>11, <1>13, <1>15, Zenon DEF ChipInv

(* Every step of the chip keeps the invariant.                             *)
LEMMA ChipStep == ChipInv /\ [Qca!Next]_Qca!vars => ChipInv'
<1> SUFFICES ASSUME ChipInv, [Qca!Next]_Qca!vars PROVE ChipInv'
  OBVIOUS
<1>1. ASSUME NEW d \in Qca!Devs, Qca!Config(d) PROVE ChipInv'
  BY <1>1, ConfigBypassedStep, ConfigPhyStep, ConfigSwitchStep, Zenon DEF Qca!Config
<1>2. ASSUME NEW d \in Qca!Devs, NEW r \in Qca!Readings, Qca!StartupPhy(d, r) PROVE ChipInv'
  BY <1>2, StartupPhyStep
<1>3. ASSUME NEW d \in Qca!Devs, NEW r \in Qca!Readings, Qca!StartupBypass(d, r) PROVE ChipInv'
  BY <1>3, StartupBypassStep
<1>4. next_port \in Qca!SwitchPhys \cup {0} /\ (next_port # 0 => dev_mode[Qca!Switch] = "switch")
      /\ (next_port # 0 => \A d \in Qca!Devs : dev_mode[d] # "none")
  <2>1. next_port \in Qca!SwitchPhys \cup {0} /\ Configured
    BY DEF ChipInv, ChipTyped
  <2> QED  BY <2>1, Zenon DEF Configured
<1>5. CASE UNCHANGED Qca!vars
  BY <1>4, <1>5, PortStep DEF Qca!vars
<1>6. ASSUME NEW d \in Qca!Devs, NEW r \in Qca!Readings, Qca!StartupFails(d, r) PROVE ChipInv'
  BY <1>5, <1>6 DEF Qca!StartupFails
<1>7. CASE Qca!StartupSwitch
  BY <1>7, StartupSwitchStep
<1>8. ASSUME NEW r \in Qca!Readings, Qca!SwitchLinkUpdate(r) PROVE ChipInv'
  BY <1>8, SwitchLinkUpdateStep
<1>9. ASSUME NEW r \in Qca!Readings, Qca!SwitchLinkUpdateFails(r) PROVE ChipInv'
  BY <1>9, PortStep DEF Qca!SwitchLinkUpdateFails, Qca!Leave
<1>10. CASE Qca!Restart
  BY <1>10, RestartStep
<1> QED  BY <1>1, <1>2, <1>3, <1>5, <1>6, <1>7, <1>8, <1>9, <1>10 DEF Qca!Next

(* Whatever the speeds of the links were, on whichever board, and whatever *)
(* a boot before left in the chip, the clocks of every PHY the driver read *)
(* and acted upon are at the rate of its speed, and on while its link is   *)
(* up.                                                                     *)
THEOREM ClocksFollow == Qca!Spec => []ClocksFollowLinks
<1>1. ChipInv => ClocksFollowLinks
  BY FitClocksFollow, Zenon DEF ClocksFollowLinks
<1> QED  BY <1>1, ChipStart, ChipStep, PTL DEF Qca!Spec

(* The rings, the ports, or the chip, as the run checks them: none         *)
(* disturbs what the others rely on.                                       *)
THEOREM EthernetSideBySide ==
  MCFairSpec => [](NextBufferIsFree /\ PortsFollowLinks /\ ClocksFollowLinks)
<1>1. MCInit => IInv /\ LinkInv /\ ChipInv
  BY InitInv, LinkStart, ChipStart DEF MCInit
<1>2. IInv /\ LinkInv /\ ChipInv /\ [MCNext]_<<vars, link_vars, chip_vars, task>>
        => IInv' /\ LinkInv' /\ ChipInv'
  <2> SUFFICES ASSUME IInv, LinkInv, ChipInv, [MCNext]_<<vars, link_vars, chip_vars, task>>
               PROVE  IInv' /\ LinkInv' /\ ChipInv'
    OBVIOUS
  <2>1. [Next]_vars
    BY DEF MCNext
  <2>2. link_vars' = link_vars => Link!vars' = Link!vars
    BY DEF link_vars, Link!vars, Link!driver, Link!hardware
  <2>3. [Link!Next]_Link!vars
    BY <2>2 DEF MCNext
  <2>4. [Qca!Next]_Qca!vars
    BY DEF MCNext, chip_vars, Qca!vars
  <2> QED  BY <2>1, <2>3, <2>4, RingStep, LinkStep, ChipStep
<1>3. IInv /\ LinkInv /\ ChipInv => NextBufferIsFree /\ PortsFollowLinks /\ ClocksFollowLinks
  BY BufferFree, Follows, FitClocksFollow, Zenon DEF ClocksFollowLinks
<1> QED  BY <1>1, <1>2, <1>3, PTL DEF MCFairSpec
=============================================================================
