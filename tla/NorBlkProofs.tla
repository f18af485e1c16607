---------------------------- MODULE NorBlkProofs ----------------------------
(***************************************************************************)
(* Proofs about the NOR flash and the SPI master under it, one after the   *)
(* other.                                                                  *)
(*                                                                         *)
(* NorBlk, for every size of the flash, of its erase blocks and of the     *)
(* writes.  The invariant says what each sector holds while a write is     *)
(* under way (Exact): the new data before the offset it has come to and    *)
(* the old behind it, outside the erase block it works on; and that what   *)
(* is about to be written to that block is right (BlockReady).  The        *)
(* arithmetic of blocks is in two lemmas.                                  *)
(*                                                                         *)
(* GeniSpi, for every depth and width of the FIFOs, every length of a      *)
(* transfer and of a word, and any number of transfers.  The invariant     *)
(* says where the bytes of the transfer are: those the engine has moved on *)
(* the wire and in the buffer, those it will in the FIFO or still to be    *)
(* put there (Sent, Received), or, with the channels, none of them or all  *)
(* (DmaInv); and that between transfers the engine is at rest (Clean).     *)
(***************************************************************************)
EXTENDS MCNorBlk, TLAPS, SequenceTheorems

\* Sector i is as the progress of the write has it.
Exact(i) == nor[i] = IF i < at THEN Wanted(i) ELSE before[i]

Settled ==
  pc # "idle" =>
    \A i \in Sectors :
      pc \in {"turn", "wild"} \/ left = 0 \/ ~InBlock(i, at) => Exact(i)

BlockReady ==
  pc \in {"erase", "write"} =>
    /\ left > 0
    /\ \A i \in 0 .. E-1 :
         block[i] = IF Base(at) + i < at + Count THEN Wanted(Base(at) + i)
                    ELSE before[Base(at) + i]

Reports ==
  /\ ok => pc \in {"idle", "return"}
  /\ ok /\ pc = "return" => left = 0

\* Without a buffer the write is of whole blocks.
Aligned ==
  pc # "idle" /\ buff = "unset" => Gap(start) = 0 /\ Gap(at) = 0 /\ left % E = 0

Stray == pc = "wild" => buff = "unset" /\ left > 0 /\ Backup

IInv == TypeOK /\ Settled /\ BlockReady /\ Reports /\ Aligned /\ Stray

(* An erase block ends within the flash, and a sector is within its block. *)
LEMMA BlockFits ==
  ASSUME NEW s \in Nat
  PROVE  /\ Gap(s) \in 0 .. E-1 /\ Base(s) \in Nat /\ s = Base(s) + Gap(s)
         /\ s < L => Base(s) + E <= L
<1> USE NorAssumption
<1>1. s = (E * (s \div E)) + (s % E) /\ s % E \in 0 .. E-1 /\ s \div E \in Nat
  OBVIOUS
<1>2. L = E * (L \div E) /\ L \div E \in Nat
  OBVIOUS
<1> DEFINE p == s \div E
           q == L \div E
<1>3. ASSUME s < L PROVE (E * p) + E <= L
  <2> HIDE DEF p, q
  <2>1. p \in Nat /\ q \in Nat /\ E * p < E * q
    BY <1>1, <1>2, <1>3 DEF p, q
  <2>2. p < q
    BY <2>1
  <2>3. p + 1 <= q
    BY <2>1, <2>2
  <2>4. E * (p + 1) <= E * q
    BY <2>1, <2>3
  <2>5. E * (p + 1) = (E * p) + E
    BY <2>1
  <2> QED BY <2>1, <2>4, <2>5, <1>2 DEF q
<1> QED BY <1>1, <1>3 DEF Gap, Base

(* What one turn of the loop writes is some of its block.                  *)
LEMMA CountBounds ==
  ASSUME TypeOK, left > 0
  PROVE  /\ Count \in Nat /\ 0 < Count /\ Count <= left
         /\ Gap(at) + Count <= E /\ at < L
         /\ Gap(at) = 0 /\ left >= E => Count = E
         /\ Written = at - start
<1>1. at \in Nat /\ left \in Nat /\ Gap(at) \in 0 .. E-1 /\ E \in Nat
  BY NorAssumption, BlockFits DEF TypeOK
<1>2. at < L
  BY <1>1, NorAssumption DEF TypeOK
<1>3. Written = at - start
  BY <1>1 DEF Written, TypeOK
<1> QED BY <1>1, <1>2, <1>3 DEF Count, Min2

(* The data a turn takes is what its sectors are wanted to hold.           *)
LEMMA DataWanted ==
  ASSUME TypeOK, NEW i \in Nat, at <= i, i < at + left
  PROVE  /\ i \in Sectors /\ i - start + 1 \in 1 .. Len(src)
         /\ Wanted(i) = src[i - start + 1] /\ Wanted(i) \in Data
BY NorAssumption DEF TypeOK, Wanted, Sectors

(* Initially nothing is under way.                                         *)
LEMMA InitIInv == Init => IInv
<1> SUFFICES ASSUME Init PROVE IInv
  OBVIOUS
<1>1. src = <<>> /\ src \in Seq(Data) /\ Len(src) = 0
  BY DEF Init
<1>2. block \in [0 .. E-1 -> Data]
  BY NorAssumption DEF Init
<1>3. nor \in [Sectors -> Data] /\ before \in [Sectors -> Data]
  BY NorAssumption DEF Init, Sectors
<1>4. /\ start = 0 /\ at = 0 /\ left = 0 /\ calls = 0
      /\ pc = "idle" /\ buff = "own" /\ ok = FALSE
  BY DEF Init
<1>5. TypeOK
  <2>1. /\ start + Len(src) <= L /\ at + left = start + Len(src) /\ start <= at
        /\ start \in Nat /\ at \in Nat /\ left \in Nat /\ calls \in 0 .. MaxCalls
    BY <1>1, <1>4, NorAssumption
  <2> QED BY <1>1, <1>2, <1>3, <1>4, <2>1 DEF TypeOK
<1> QED BY <1>4, <1>5 DEF IInv, Settled, BlockReady, Reports, Aligned, Stray

(* What ReadBack and NoReadBack prepare is what the block is to hold.      *)
LEMMA MergeReady ==
  ASSUME IInv, ReadBack \/ NoReadBack
  PROVE  /\ block' \in [0 .. E-1 -> Data]
         /\ \A i \in 0 .. E-1 :
              block'[i] = IF Base(at) + i < at + Count THEN Wanted(Base(at) + i)
                          ELSE before[Base(at) + i]
<1> USE NorAssumption
<1>1. TypeOK /\ pc = "turn" /\ left > 0 /\ at \in Nat /\ left \in Nat
  BY DEF IInv, TypeOK, ReadBack, NoReadBack
<1>2. /\ Count \in Nat /\ 0 < Count /\ Count <= left /\ Gap(at) + Count <= E
      /\ at < L /\ Written = at - start /\ start \in Nat
      /\ Gap(at) = 0 /\ left >= E => Count = E
  BY <1>1, CountBounds DEF TypeOK
<1>3. /\ Gap(at) \in 0 .. E-1 /\ Base(at) \in Nat /\ at = Base(at) + Gap(at)
      /\ Base(at) + E <= L
  BY <1>1, <1>2, BlockFits
<1> DEFINE g == Gap(at)
           b == Base(at)
           c == Count
           a == at
           l == left
           s == start
<1>3a. /\ g \in Nat /\ b \in Nat /\ c \in Nat /\ a \in Nat /\ l \in Nat /\ s \in Nat
       /\ a = b + g /\ c <= l
  BY <1>1, <1>2, <1>3
<1>3b. /\ g = Gap(at) /\ b = Base(at) /\ c = Count /\ a = at /\ l = left /\ s = start
       /\ Written = a - s
  BY <1>2
<1> HIDE DEF g, b, c, a, l, s
<1>4. ASSUME NEW i \in 0 .. E-1
      PROVE  /\ Base(at) + i \in Sectors /\ nor[Base(at) + i] \in Data
             /\ nor[Base(at) + i] = IF Base(at) + i < at THEN Wanted(Base(at) + i)
                                    ELSE before[Base(at) + i]
  <2>1. Base(at) + i \in Sectors
    BY <1>3 DEF Sectors
  <2> QED BY <2>1, <1>1 DEF IInv, Settled, Exact, TypeOK
<1>5. ASSUME NEW i \in 0 .. E-1, Gap(at) <= i, i < Gap(at) + Count
      PROVE  /\ src[Written + (i - Gap(at)) + 1] = Wanted(Base(at) + i)
             /\ Wanted(Base(at) + i) \in Data
  <2> DEFINE j == Base(at) + i
  <2>0. i \in Nat /\ g <= i /\ i < g + c
    BY <1>3b, <1>5
  <2>1. j \in Nat /\ at <= j /\ j < at + left
    <3>1. b + i \in Nat /\ a <= b + i /\ b + i < a + l
      BY ONLY <1>3a, <2>0
    <3> QED  BY ONLY <1>3b, <3>1, Zenon
  <2>2. j - start + 1 = Written + (i - Gap(at)) + 1
    <3>1. (b + i) - s + 1 = (a - s) + (i - g) + 1
      BY ONLY <1>3a, <2>0
    <3> QED  BY ONLY <1>3b, <3>1, Zenon
  <2> HIDE DEF j
  <2>3. Wanted(j) = src[j - start + 1] /\ Wanted(j) \in Data
    BY <2>1, <1>1, DataWanted
  <2> QED BY <2>2, <2>3 DEF j
<1>6. CASE ReadBack
  <2>1. block' = Merged
    BY <1>6 DEF ReadBack
  <2>2. ASSUME NEW i \in 0 .. E-1
        PROVE  /\ Merged[i] \in Data
               /\ Merged[i] = IF Base(at) + i < at + Count THEN Wanted(Base(at) + i)
                              ELSE before[Base(at) + i]
    <3>1. CASE Gap(at) <= i /\ i < Gap(at) + Count
      <4>1. Merged[i] = src[Written + (i - Gap(at)) + 1]
        BY <3>1 DEF Merged
      <4>2. Base(at) + i < at + Count
        <5>1. i \in Nat /\ i < g + c
          BY <1>3b, <3>1
        <5>2. b + i < a + c
          BY ONLY <1>3a, <5>1
        <5> QED  BY ONLY <1>3b, <5>2, Zenon
      <4> QED BY <4>1, <4>2, <3>1, <1>5
    <3>2. CASE ~(Gap(at) <= i /\ i < Gap(at) + Count)
      <4>1. Merged[i] = nor[Base(at) + i]
        BY <3>2 DEF Merged
      <4>2. Base(at) + i < at \/ ~(Base(at) + i < at + Count)
        <5>1. i \in Nat /\ ~(g <= i /\ i < g + c)
          BY <1>3b, <3>2
        <5>2. b + i < a \/ ~(b + i < a + c)
          BY ONLY <1>3a, <5>1
        <5> QED  BY ONLY <1>3b, <5>2, Zenon
      <4>3. Base(at) + i < at => Base(at) + i < at + Count
        <5>1. i \in Nat
          OBVIOUS
        <5>2. b + i < a => b + i < a + c
          BY ONLY <1>3a, <5>1
        <5> QED  BY ONLY <1>3b, <5>2, Zenon
      <4> QED BY <4>1, <4>2, <4>3, <1>4
    <3> QED BY <3>1, <3>2
  <2>3. Merged \in [0 .. E-1 -> Data]
    BY <2>2 DEF Merged
  <2> QED BY <2>1, <2>2, <2>3
<1>7. CASE NoReadBack
  <2>1. Gap(at) = 0 /\ left > E
    BY <1>7, <1>1 DEF NoReadBack, Backup
  <2>2. Count = E /\ Base(at) = at
    BY <2>1, <1>1, <1>2, <1>3
  <2>3. block' = [i \in 0 .. E-1 |-> src[Written + i + 1]]
    BY <1>7 DEF NoReadBack
  <2>4. ASSUME NEW i \in 0 .. E-1
        PROVE  /\ src[Written + i + 1] = Wanted(Base(at) + i)
               /\ Wanted(Base(at) + i) \in Data /\ Base(at) + i < at + Count
    <3>1. Gap(at) <= i /\ i < Gap(at) + Count /\ i - Gap(at) = i
      BY <2>1, <2>2
    <3>2. Base(at) + i < at + Count
      BY <2>2, <1>1
    <3> QED BY <3>1, <3>2, <1>5
  <2> QED BY <2>3, <2>4
<1> QED BY <1>6, <1>7

(* Every step keeps the types.                                             *)
LEMMA TypeStep == IInv /\ [Next]_vars => TypeOK'
<1> SUFFICES ASSUME IInv, [Next]_vars PROVE TypeOK'
  OBVIOUS
<1> USE NorAssumption
<1>1. TypeOK
  BY DEF IInv
<1>2. ASSUME NEW c \in Calls, BwriteCall(c) PROVE TypeOK'
  <2>1. /\ c.start \in Nat /\ c.src \in Seq(Data) /\ Len(c.src) \in Nat
        /\ c.start + Len(c.src) <= L
    OBVIOUS
  <2>2. pc' \in {"idle", "turn"} /\ buff' \in {"own", "unset"} /\ calls' \in 0 .. MaxCalls
    BY <1>1, <1>2 DEF BwriteCall, TypeOK
  <2>3. /\ start' = c.start /\ at' = c.start /\ src' = c.src /\ left' = Len(c.src)
        /\ nor' = nor /\ before' = nor /\ block' = block /\ ok' = FALSE
    BY <1>2 DEF BwriteCall
  <2>4. nor \in [Sectors -> Data] /\ block \in [0 .. E-1 -> Data]
    BY <1>1 DEF TypeOK
  <2>5. /\ start' \in Nat /\ at' \in Nat /\ left' \in Nat /\ src' \in Seq(Data)
        /\ start' + Len(src') <= L /\ at' + left' = start' + Len(src') /\ start' <= at'
    BY <2>1, <2>3
  <2>6. before' \in [Sectors -> Data] /\ nor' \in [Sectors -> Data]
    BY <2>3, <2>4
  <2> QED BY <2>2, <2>3, <2>4, <2>5, <2>6 DEF TypeOK
<1>3. CASE ReadBack \/ NoReadBack
  <2>1. block' \in [0 .. E-1 -> Data]
    BY <1>3, MergeReady
  <2> QED BY <1>1, <1>3, <2>1 DEF TypeOK, ReadBack, NoReadBack
<1>4. CASE EraseBlock \/ EraseFails
  <2>1. nor' \in [Sectors -> Data]
    BY <1>1, <1>4 DEF TypeOK, EraseBlock, EraseFails
  <2> QED BY <1>1, <1>4, <2>1 DEF TypeOK, EraseBlock, EraseFails, call
<1>5. CASE WriteBlock \/ WriteFails
  <2>1. ASSUME NEW k \in 0 .. E PROVE Programmed(k) \in [Sectors -> Data]
    <3>1. at \in Nat /\ Base(at) \in Nat
      BY <1>1, BlockFits DEF TypeOK
    <3>2. ASSUME NEW i \in Sectors, InBlock(i, at) PROVE i - Base(at) \in 0 .. E-1
      BY <3>1, <3>2 DEF InBlock, Sectors
    <3> QED BY <1>1, <3>2 DEF Programmed, TypeOK
  <2>2. E \in 0 .. E /\ 0 .. E-1 \subseteq 0 .. E
    OBVIOUS
  <2>3. nor' \in [Sectors -> Data]
    BY <1>5, <2>1, <2>2 DEF WriteBlock, WriteFails
  <2>4. CASE WriteBlock
    <3>1. left > 0
      BY <2>4 DEF IInv, BlockReady, WriteBlock
    <3>2. Count \in Nat /\ 0 < Count /\ Count <= left
      BY <1>1, <3>1, CountBounds
    <3>3. at' \in Nat /\ left' \in Nat /\ at' + left' = start + Len(src) /\ start <= at'
      <4>1. at' = at + Count /\ left' = left - Count
        BY <2>4 DEF WriteBlock
      <4>2. /\ at \in Nat /\ left \in Nat /\ start \in Nat
            /\ at + left = start + Len(src) /\ start <= at
        BY <1>1 DEF TypeOK
      <4> QED BY <3>2, <4>1, <4>2
    <3> QED BY <1>1, <2>3, <2>4, <3>3 DEF TypeOK, WriteBlock
  <2>5. CASE WriteFails
    BY <1>1, <2>3, <2>5 DEF TypeOK, WriteFails, call
  <2> QED BY <1>5, <2>4, <2>5
<1>6. CASE ReadFails \/ Finish \/ Return \/ Reset
  BY <1>1, <1>6 DEF TypeOK, ReadFails, Finish, Return, Reset, call
<1>7. CASE UNCHANGED vars
  BY <1>1, <1>7 DEF TypeOK, vars, call
<1> QED BY <1>2, <1>3, <1>4, <1>5, <1>6, <1>7 DEF Next, Turn

(* A whole turn leaves every sector as the new progress has it.            *)
LEMMA WriteSettles ==
  ASSUME IInv, WriteBlock, NEW i \in Sectors
  PROVE  Exact(i)'
<1> USE NorAssumption
<1>1. TypeOK /\ pc = "write" /\ left > 0 /\ at \in Nat /\ i \in Nat
  BY DEF IInv, BlockReady, WriteBlock, TypeOK, Sectors
<1>2. Count \in Nat /\ 0 < Count /\ Gap(at) + Count <= E /\ at < L
  BY <1>1, CountBounds
<1>3. /\ Gap(at) \in 0 .. E-1 /\ Base(at) \in Nat /\ at = Base(at) + Gap(at)
  BY <1>1, BlockFits
<1>4. /\ nor' = Programmed(E) /\ at' = at + Count
      /\ Wanted(i)' = Wanted(i) /\ before' = before
  BY DEF WriteBlock, Wanted
<1>5. CASE InBlock(i, at)
  <2> DEFINE j == i - Base(at)
  <2>1. j \in 0 .. E-1 /\ Base(at) + j = i
    BY <1>1, <1>3, <1>5 DEF InBlock
  <2>2. nor'[i] = block[j]
    BY <1>4, <1>5, <2>1 DEF Programmed, InBlock
  <2> HIDE DEF j
  <2>3. block[j] = IF i < at + Count THEN Wanted(i) ELSE before[i]
    BY <1>1, <2>1 DEF IInv, BlockReady
  <2> QED BY <1>4, <2>2, <2>3 DEF Exact
<1>6. CASE ~InBlock(i, at)
  <2>1. nor'[i] = nor[i]
    BY <1>4, <1>6 DEF Programmed
  <2>2. Exact(i)
    BY <1>1, <1>6 DEF IInv, Settled
  <2>3. i < at <=> i < at + Count
    BY <1>1, <1>2, <1>3, <1>6 DEF InBlock
  <2> QED BY <1>4, <2>1, <2>2, <2>3 DEF Exact
<1> QED BY <1>5, <1>6

(* Every step keeps what the sectors hold.                                 *)
LEMMA SettledStep == IInv /\ [Next]_vars => Settled'
<1> SUFFICES ASSUME IInv, [Next]_vars, NEW i \in Sectors, pc' # "idle",
                    pc' \in {"turn", "wild"} \/ left' = 0 \/ ~InBlock(i, at)'
             PROVE  Exact(i)'
  BY DEF Settled
<1> USE NorAssumption
<1>1. TypeOK /\ i \in Nat /\ at \in Nat /\ left \in Nat
  BY DEF IInv, TypeOK, Sectors
<1>2. ASSUME UNCHANGED <<nor, start, src, at, left, before>>, pc # "idle",
             pc \in {"turn", "wild"} \/ left = 0 \/ ~InBlock(i, at)
      PROVE  Exact(i)'
  <2>1. Exact(i)
    BY <1>2 DEF IInv, Settled
  <2> QED BY <1>2, <2>1 DEF Exact, Wanted
<1>3. ASSUME UNCHANGED <<start, src, at, left, before>>, ~InBlock(i, at), pc # "idle",
             nor'[i] = nor[i]
      PROVE  Exact(i)'
  <2>1. Exact(i)
    BY <1>3 DEF IInv, Settled
  <2> QED BY <1>3, <2>1 DEF Exact, Wanted
<1>4. ASSUME NEW c \in Calls, BwriteCall(c) PROVE Exact(i)'
  <2>1. at' = start' /\ before' = nor /\ nor' = nor
    BY <1>4 DEF BwriteCall
  <2>2. c.start \in Nat /\ start' = c.start
    BY <1>4 DEF BwriteCall
  <2> QED BY <2>1, <2>2, <1>1 DEF Exact, Wanted
<1>5. CASE ReadBack \/ NoReadBack \/ ReadFails \/ Finish
  BY <1>2, <1>5 DEF ReadBack, NoReadBack, ReadFails, Finish, call
<1>6. CASE EraseBlock \/ EraseFails \/ WriteFails
  <2>1. /\ pc \in {"erase", "write"} /\ pc' \in {"write", "return"}
        /\ UNCHANGED <<start, src, at, left, before>>
    BY <1>6 DEF EraseBlock, EraseFails, WriteFails, call
  <2>2. left > 0
    BY <2>1 DEF IInv, BlockReady
  <2>3. ~InBlock(i, at)
    BY <2>1, <2>2 DEF InBlock, Base, Gap
  <2>4. nor'[i] = nor[i]
    BY <1>6, <2>3 DEF EraseBlock, EraseFails, WriteFails, Programmed
  <2> QED BY <1>3, <2>1, <2>3, <2>4
<1>7. CASE WriteBlock
  BY <1>7, WriteSettles
<1>8. CASE Return \/ Reset
  BY <1>8 DEF Return, Reset
<1>9. CASE UNCHANGED vars
  BY <1>9, <1>2 DEF vars, call, InBlock, Base, Gap
<1> QED BY <1>4, <1>5, <1>6, <1>7, <1>8, <1>9 DEF Next, Turn

(* Every step keeps what waits to be written.                              *)
LEMMA BlockStep == IInv /\ [Next]_vars => BlockReady'
<1> SUFFICES ASSUME IInv, [Next]_vars, pc' \in {"erase", "write"} PROVE BlockReady'
  BY DEF BlockReady
<1>1. CASE ReadBack \/ NoReadBack
  <2>1. left' > 0 /\ UNCHANGED <<start, src, at, left, before>>
    BY <1>1 DEF ReadBack, NoReadBack
  <2>2. /\ Count' = Count /\ Base(at)' = Base(at)
        /\ \A j : Wanted(j)' = Wanted(j)
    BY <2>1 DEF Count, Base, Gap, Wanted
  <2>3. \A i \in 0 .. E-1 :
          block'[i] = IF Base(at) + i < at + Count THEN Wanted(Base(at) + i)
                      ELSE before[Base(at) + i]
    BY <1>1, MergeReady
  <2> QED BY <2>1, <2>2, <2>3 DEF BlockReady
<1>2. CASE EraseBlock \/ UNCHANGED vars
  <2>1. pc \in {"erase", "write"} /\ UNCHANGED call
    BY <1>2 DEF EraseBlock, vars
  <2>2. /\ Count' = Count /\ Base(at)' = Base(at)
        /\ \A j : Wanted(j)' = Wanted(j)
    BY <2>1 DEF Count, Base, Gap, Wanted, call
  <2> QED BY <2>1, <2>2 DEF BlockReady, IInv, call
<1>3. CASE ~(ReadBack \/ NoReadBack \/ EraseBlock \/ UNCHANGED vars)
  BY <1>3 DEF Next, Turn, BwriteCall, WriteBlock, ReadFails, EraseFails, WriteFails,
              Finish, Return, Reset
<1> QED BY <1>1, <1>2, <1>3

(* Whole blocks less one are whole blocks.                                 *)
LEMMA BlocksStep ==
  ASSUME NEW m \in Nat, m % E = 0
  PROVE  (m + E) % E = 0 /\ (m > 0 => m >= E /\ (m - E) % E = 0)
<1> USE NorAssumption
<1>1. m = E * (m \div E) /\ m \div E \in Nat
  OBVIOUS
<1> DEFINE q == m \div E
<1> HIDE DEF q
<1>2. q \in Nat /\ m = E * q
  BY <1>1 DEF q
<1>3. ASSUME NEW p \in Nat PROVE (E * p) % E = 0 /\ E * p \in Nat
  OBVIOUS
<1>4. m + E = E * (q + 1) /\ q + 1 \in Nat
  BY <1>2
<1>5. ASSUME m > 0 PROVE m >= E /\ (m - E) % E = 0
  <2>1. q >= 1
    BY <1>2, <1>5
  <2>2. m - E = E * (q - 1) /\ q - 1 \in Nat
    BY <1>2, <2>1
  <2>3. (E * (q - 1)) % E = 0 /\ E * (q - 1) \in Nat
    BY <2>2, <1>3
  <2> QED BY <2>2, <2>3
<1> QED BY <1>3, <1>4, <1>5

(* Every step keeps a write without a buffer on block boundaries.          *)
LEMMA AlignedStep == IInv /\ [Next]_vars => Aligned'
<1> SUFFICES ASSUME IInv, [Next]_vars, pc' # "idle", buff' = "unset" PROVE Aligned'
  BY DEF Aligned
<1> USE NorAssumption
<1>1. TypeOK
  BY DEF IInv
<1>2. ASSUME NEW c \in Calls, BwriteCall(c) PROVE Aligned'
  <2>1. ~NeedsBuffer(c.start, Len(c.src))
    BY <1>2 DEF BwriteCall
  <2> QED BY <1>2, <2>1 DEF BwriteCall, NeedsBuffer, Aligned, Gap
<1>3. CASE WriteBlock
  <2>1. /\ pc = "write" /\ buff = "unset" /\ start' = start
        /\ at' = at + Count /\ left' = left - Count
    BY <1>3 DEF WriteBlock
  <2>2. left > 0 /\ Gap(start) = 0 /\ Gap(at) = 0 /\ left % E = 0
    BY <2>1 DEF IInv, BlockReady, Aligned
  <2>3. left >= E /\ (left - E) % E = 0 /\ (at + E) % E = 0
    BY <1>1, <2>2, BlocksStep DEF TypeOK, Gap
  <2>4. Count = E
    BY <1>1, <2>2, <2>3, CountBounds
  <2> QED BY <2>1, <2>2, <2>3, <2>4 DEF Aligned, Gap
<1>4. CASE ~WriteBlock /\ ~(\E c \in Calls : BwriteCall(c))
  BY <1>4 DEF IInv, Aligned, Gap, Next, Turn, ReadBack, NoReadBack, EraseBlock, ReadFails,
              EraseFails, WriteFails, Finish, Return, Reset, vars, call
<1> QED BY <1>2, <1>3, <1>4

(* The invariant is inductive.                                             *)
LEMMA IInvStep == IInv /\ [Next]_vars => IInv'
<1> SUFFICES ASSUME IInv, [Next]_vars PROVE IInv'
  OBVIOUS
<1>1. Reports'
  BY DEF IInv, Reports, Next, Turn, BwriteCall, ReadBack, NoReadBack, EraseBlock, WriteBlock,
         ReadFails, EraseFails, WriteFails, Finish, Return, Reset, vars, call
<1>2. Stray'
  BY DEF IInv, Stray, Backup, Gap, Next, Turn, BwriteCall, ReadBack, NoReadBack, EraseBlock,
         WriteBlock, ReadFails, EraseFails, WriteFails, Finish, Return, Reset, vars, call
<1> QED BY <1>1, <1>2, TypeStep, SettledStep, BlockStep, AlignedStep DEF IInv

(* The invariant gives each property the runs check.                       *)
LEMMA IInvImplies ==
  ASSUME IInv
  PROVE  WritesExactly /\ OneBlockAtRisk /\ StrayLosesNothing
<1> USE NorAssumption
<1>1. TypeOK
  BY DEF IInv
<1>2. ASSUME pc = "return", ok, NEW i \in Sectors PROVE nor[i] = Wanted(i)
  <2>1. left = 0 /\ Exact(i)
    BY <1>2 DEF IInv, Reports, Settled
  <2>2. at = start + Len(src) /\ start \in Nat /\ Len(src) \in Nat /\ i \in Nat
    BY <1>1, <2>1 DEF TypeOK, Sectors
  <2> QED BY <2>1, <2>2 DEF Exact, Wanted
<1>3. ASSUME pc # "idle", NEW i \in Sectors, ~(left > 0 /\ InBlock(i, at))
      PROVE  Exact(i)
  <2>1. left = 0 \/ ~InBlock(i, at)
    BY <1>1, <1>3 DEF TypeOK
  <2> QED BY <1>3, <2>1 DEF IInv, Settled
<1>4. OneBlockAtRisk
  <2>1. ASSUME pc # "idle", NEW i \in Sectors, i >= at, ~InBlock(i, at)
        PROVE  nor[i] = before[i]
    <3>1. i \in Nat /\ at \in Nat
      BY <1>1 DEF TypeOK, Sectors
    <3> QED BY <2>1, <3>1, <1>3 DEF Exact
  <2>2. ASSUME pc # "idle", NEW i \in Sectors, i < at, ~(left > 0 /\ InBlock(i, at))
        PROVE  nor[i] = Wanted(i)
    BY <2>2, <1>3 DEF Exact
  <2> QED BY <2>1, <2>2 DEF OneBlockAtRisk
<1>5. ASSUME pc = "wild" PROVE StrayLosesNothing
  <2>1. /\ Gap(start) = 0 /\ Gap(at) = 0 /\ left % E = 0 /\ left > 0 /\ Backup
    BY <1>5 DEF IInv, Stray, Aligned
  <2>2. left >= E /\ left <= E
    BY <1>1, <2>1, BlocksStep DEF Backup, TypeOK
  <2>3. left = E
    BY <1>1, <2>2 DEF TypeOK
  <2>4. \A i \in Sectors : Exact(i)
    BY <1>5 DEF IInv, Settled
  <2> QED BY <2>1, <2>3, <2>4 DEF StrayLosesNothing, Exact
<1> QED BY <1>2, <1>4, <1>5 DEF WritesExactly, StrayLosesNothing

LEMMA SpecIInv == Spec => []IInv
BY InitIInv, IInvStep, PTL DEF Spec

(* Every reachable state of nor_bwrite has its types: the offset and the   *)
(* count left always add up to the end of the write.                       *)
THEOREM TypeCorrect == Spec => []TypeOK
<1>1. IInv => TypeOK
  BY DEF IInv
<1> QED BY <1>1, SpecIInv, PTL

(* nor_bwrite, when it returns blkcnt, has written these sectors and left  *)
(* all others as they were, for every size of flash and erase block.       *)
THEOREM WritesExactlyHolds == Spec => []WritesExactly
<1>1. IInv => WritesExactly
  BY IInvImplies
<1> QED BY <1>1, SpecIInv, PTL

(* A write that stops anywhere loses one erase block of the flash at most. *)
THEOREM OneBlockAtRiskHolds == Spec => []OneBlockAtRisk
<1>1. IInv => OneBlockAtRisk
  BY IInvImplies
<1> QED BY <1>1, SpecIInv, PTL

(* The buffer nor_bwrite did not allocate is read into where nothing on    *)
(* the flash is lost by it.                                                *)
THEOREM StrayLosesNothingHolds == Spec => []StrayLosesNothing
<1>1. IInv => StrayLosesNothing
  BY IInvImplies
<1> QED BY <1>1, SpecIInv, PTL
-----------------------------------------------------------------------------
\* The bytes of transfer k behind the first a of them.
Byte == Int \X Int
Block(k, a, n) == [i \in 1 .. n |-> <<k, a + i>>]

(* What a block is.                                                        *)
LEMMA BlockIs ==
  ASSUME NEW k \in Int, NEW a \in Int, NEW n \in Nat
  PROVE  /\ Block(k, a, n) \in Seq(Byte) /\ Len(Block(k, a, n)) = n
         /\ \A i \in 1 .. n : Block(k, a, n)[i] = <<k, a + i>>
BY DEF Block, Byte

(* Nothing is the empty sequence.                                          *)
LEMMA NoBlock ==
  ASSUME NEW k \in Int, NEW a \in Int
  PROVE  Block(k, a, 0) = <<>>
<1>1. Block(k, a, 0) \in Seq(Byte) /\ Len(Block(k, a, 0)) = 0
  BY BlockIs
<1>2. <<>> \in Seq(Byte) /\ Len(<<>>) = 0
  BY EmptySeq
<1> QED  BY <1>1, <1>2, EmptySeq

(* What has the bytes of a block is the block.                             *)
LEMMA BlockEqual ==
  ASSUME NEW k \in Int, NEW a \in Int, NEW n \in Nat, NEW s \in Seq(Byte),
         Len(s) = n, \A i \in 1 .. n : s[i] = <<k, a + i>>
  PROVE  s = Block(k, a, n)
<1> DEFINE b == Block(k, a, n)
<1>1. b \in Seq(Byte) /\ Len(b) = n /\ \A i \in 1 .. n : b[i] = <<k, a + i>>
  BY BlockIs
<1> HIDE DEF b
<1>2. Len(s) = Len(b) /\ \A i \in 1 .. Len(s) : s[i] = b[i]
  BY <1>1
<1>3. s = b
  BY ONLY <1>1, <1>2, s \in Seq(Byte), SeqEqual, Zenon
<1> QED  BY <1>3 DEF b

(* One byte more.                                                          *)
LEMMA BlockAppend ==
  ASSUME NEW k \in Int, NEW a \in Int, NEW n \in Nat
  PROVE  Append(Block(k, a, n), <<k, a + n + 1>>) = Block(k, a, n + 1)
<1> DEFINE b == Block(k, a, n)
           s == Append(b, <<k, a + n + 1>>)
<1>1. b \in Seq(Byte) /\ Len(b) = n /\ \A i \in 1 .. n : b[i] = <<k, a + i>>
  BY BlockIs
<1>2. <<k, a + n + 1>> \in Byte
  BY DEF Byte
<1> HIDE DEF b
<1>3. s \in Seq(Byte) /\ Len(s) = n + 1 /\ \A i \in 1 .. n + 1 : s[i] = <<k, a + i>>
  BY <1>1, <1>2
<1>4. n + 1 \in Nat
  OBVIOUS
<1> HIDE DEF s
<1>5. s = Block(k, a, n + 1)
  BY <1>3, <1>4, BlockEqual, Zenon
<1> QED  BY <1>5 DEF s, b

(* The first byte, and the others.                                         *)
LEMMA BlockTail ==
  ASSUME NEW k \in Int, NEW a \in Int, NEW n \in Nat \ {0}
  PROVE  /\ Block(k, a, n) # <<>> /\ Head(Block(k, a, n)) = <<k, a + 1>>
         /\ Tail(Block(k, a, n)) = Block(k, a + 1, n - 1)
<1> DEFINE b == Block(k, a, n)
<1>1. b \in Seq(Byte) /\ Len(b) = n /\ \A i \in 1 .. n : b[i] = <<k, a + i>>
  BY BlockIs
<1> HIDE DEF b
<1>2. b # <<>> /\ Head(b) = <<k, a + 1>>
  BY <1>1, EmptySeq
<1>3. Tail(b) \in Seq(Byte) /\ Len(Tail(b)) = n - 1 /\ \A i \in 1 .. n - 1 : Tail(b)[i] = b[i + 1]
  BY <1>1, <1>2, HeadTailProperties
<1>4. \A i \in 1 .. n - 1 : Tail(b)[i] = <<k, (a + 1) + i>>
  <2> TAKE i \in 1 .. n - 1
  <2>1. i + 1 \in 1 .. n /\ a + (i + 1) = (a + 1) + i
    OBVIOUS
  <2> QED  BY <1>1, <1>3, <2>1
<1>5. Tail(b) = Block(k, a + 1, n - 1)
  <2>1. n - 1 \in Nat /\ a + 1 \in Int
    OBVIOUS
  <2> QED  BY <1>3, <1>4, <2>1, BlockEqual, Zenon
<1> QED  BY <1>2, <1>5 DEF b

(* One block behind the other.                                             *)
LEMMA BlockConcat ==
  ASSUME NEW k \in Int, NEW a \in Int, NEW m \in Nat, NEW n \in Nat
  PROVE  Block(k, a, m) \o Block(k, a + m, n) = Block(k, a, m + n)
<1> DEFINE p == Block(k, a, m)
           q == Block(k, a + m, n)
           w == p \o q
<1>1. /\ p \in Seq(Byte) /\ Len(p) = m /\ \A i \in 1 .. m : p[i] = <<k, a + i>>
      /\ q \in Seq(Byte) /\ Len(q) = n /\ \A i \in 1 .. n : q[i] = <<k, (a + m) + i>>
  <2>1. a + m \in Int
    OBVIOUS
  <2> QED  BY <2>1, BlockIs
<1> HIDE DEF p, q
<1>2. /\ w \in Seq(Byte) /\ Len(w) = m + n
      /\ \A i \in 1 .. m + n : w[i] = IF i <= m THEN p[i] ELSE q[i - m]
  BY <1>1, ConcatProperties, Zenon
<1> HIDE DEF w
<1>3. \A i \in 1 .. m + n : w[i] = <<k, a + i>>
  <2> TAKE i \in 1 .. m + n
  <2>1. CASE i <= m
    BY <1>1, <1>2, <2>1
  <2>2. CASE ~(i <= m)
    <3>1. i - m \in 1 .. n /\ (a + m) + (i - m) = a + i
      BY <2>2
    <3> QED  BY <1>1, <1>2, <2>2, <3>1
  <2> QED  BY <2>1, <2>2
<1>4. w = Block(k, a, m + n)
  <2>1. m + n \in Nat
    OBVIOUS
  <2> QED  BY <1>2, <1>3, <2>1, BlockEqual, Zenon
<1> QED  BY <1>4 DEF w, p, q

(* A part of a block.                                                      *)
LEMMA BlockSub ==
  ASSUME NEW k \in Int, NEW a \in Int, NEW n \in Nat, NEW m \in 0 .. n
  PROVE  /\ SubSeq(Block(k, a, n), 1, m) = Block(k, a, m)
         /\ SubSeq(Block(k, a, n), m + 1, n) = Block(k, a + m, n - m)
<1> DEFINE b == Block(k, a, n)
           p == SubSeq(b, 1, m)
           q == SubSeq(b, m + 1, n)
<1>1. /\ \A i \in 1 .. n : b[i] = <<k, a + i>> /\ b[i] \in Byte
      /\ m \in Nat /\ m <= n /\ m + 1 \in Int /\ m \in Int /\ n \in Int
  <2>1. /\ b \in Seq(Byte) /\ \A i \in 1 .. n : b[i] = <<k, a + i>>
    BY BlockIs
  <2> HIDE DEF b
  <2>2. \A i \in 1 .. n : <<k, a + i>> \in Byte
    BY DEF Byte
  <2>3. m \in Nat /\ m <= n /\ m + 1 \in Int /\ m \in Int /\ n \in Int
    OBVIOUS
  <2>4. \A i \in 1 .. n : b[i] = <<k, a + i>> /\ b[i] \in Byte
    BY <2>1, <2>2, Zenon
  <2> QED  BY <2>3, <2>4
<1> HIDE DEF b
<1>2. /\ p \in Seq(Byte) /\ Len(p) = m
      /\ \A i \in 1 .. m : p[i] = b[i]
  <2>1. /\ p \in Seq(Byte) /\ Len(p) = IF 1 <= m THEN m - 1 + 1 ELSE 0
        /\ \A i \in 1 .. m - 1 + 1 : p[i] = b[1 + i - 1]
    <3>1. \A i \in 1 .. m : b[i] \in Byte
      BY <1>1
    <3> QED  BY <1>1, <3>1, SubSeqProperties
  <2> HIDE DEF p
  <2> QED  BY <1>1, <2>1
<1>3. /\ q \in Seq(Byte) /\ Len(q) = n - m
      /\ \A i \in 1 .. n - m : q[i] = b[m + i]
  <2>1. /\ q \in Seq(Byte) /\ Len(q) = IF m + 1 <= n THEN n - (m + 1) + 1 ELSE 0
        /\ \A i \in 1 .. n - (m + 1) + 1 : q[i] = b[(m + 1) + i - 1]
    <3>1. \A i \in m + 1 .. n : b[i] \in Byte
      BY <1>1
    <3> QED  BY <1>1, <3>1, SubSeqProperties
  <2> HIDE DEF q
  <2>2. Len(q) = n - m
    BY <1>1, <2>1
  <2>3. \A i \in 1 .. n - m : q[i] = b[m + i]
    <3> TAKE i \in 1 .. n - m
    <3>1. i \in 1 .. n - (m + 1) + 1 /\ (m + 1) + i - 1 = m + i
      BY <1>1
    <3> QED  BY <2>1, <3>1
  <2> QED  BY <2>1, <2>2, <2>3
<1> HIDE DEF p, q
<1>4. p = Block(k, a, m)
  <2>1. \A i \in 1 .. m : p[i] = <<k, a + i>>
    <3> TAKE i \in 1 .. m
    <3>1. i \in 1 .. n
      BY <1>1
    <3> QED  BY <1>1, <1>2, <3>1, Zenon
  <2> QED  BY <1>1, <1>2, <2>1, BlockEqual, Zenon
<1>5. q = Block(k, a + m, n - m)
  <2>1. \A i \in 1 .. n - m : q[i] = <<k, (a + m) + i>>
    <3> TAKE i \in 1 .. n - m
    <3>1. m + i \in 1 .. n /\ a + (m + i) = (a + m) + i
      BY <1>1
    <3> QED  BY <1>1, <1>3, <3>1
  <2>2. n - m \in Nat /\ a + m \in Int
    BY <1>1
  <2> QED  BY <1>3, <2>1, <2>2, BlockEqual, Zenon
<1> QED  BY <1>4, <1>5 DEF p, q, b
\* The bytes b in the buffer and those f behind them in the FIFO are the first
\* of transfer k that were moved, or fewer than were.
InOrder(k, moved, b, f) ==
  \/ Len(b) + Len(f) < moved
  \/ /\ Len(b) + Len(f) = moved
     /\ b = Block(k, 0, Len(b)) /\ f = Block(k, Len(b), Len(f))
-----------------------------------------------------------------------------
(* What the driver puts into the FIFO at once fits into it.                *)
LEMMA TakenFits ==
  ASSUME NEW rem \in Nat
  PROVE  /\ Depth * Width \in Nat /\ Spi!TxTaken(rem) \in 0 .. rem
         /\ Spi!TxTaken(rem) <= Depth * Width
<1>1. PICK d \in Nat, w \in Nat : d = Depth /\ w = Width /\ d > 1 /\ w > 0
  BY SpiIs DEF Spi!SpiAssumption
<1>2. d - 1 \in Nat /\ (d - 1) * w \in Nat /\ d * w \in Nat /\ d * w = ((d - 1) * w) + w
  <2>1. PICK e \in Nat : d = e + 1
    BY <1>1
  <2>2. (e + 1) * w = (e * w) + w /\ e * w \in Nat
    OBVIOUS
  <2> QED  BY <1>1, <2>1, <2>2
<1>3. PICK m \in Nat : m = (Depth - 1) * Width /\ m <= Depth * Width /\ Depth * Width \in Nat
  BY <1>1, <1>2
<1> QED  BY <1>3 DEF Spi!TxTaken, Spi!LowOf

(* What the driver sees of the receive FIFO, and what it takes from it.    *)
LEMMA SeenIs ==
  ASSUME Len(rxFifo) \in Nat
  PROVE  Spi!RxBytes \in 0 .. Len(rxFifo)
<1>1. PICK n \in Nat, w \in Nat \ {0} : n = Len(rxFifo) /\ w = Width
  BY SpiIs DEF Spi!SpiAssumption
<1>2. n \div w \in Nat /\ n = (w * (n \div w)) + (n % w) /\ n % w \in Nat
  BY <1>1
<1>3. (n \div w) * w = w * (n \div w) /\ (n \div w) * w \in Nat
  BY <1>1, <1>2
<1>4. (n \div w) * w \in 0 .. n
  BY <1>2, <1>3
<1> QED  BY <1>1, <1>4 DEF Spi!RxBytes

LEMMA GoneIs ==
  ASSUME NEW n \in Nat, NEW take \in 0 .. n
  PROVE  Spi!LowOf(Spi!UpDiv(take, Width) * Width, n) \in take .. n
<1>1. PICK w \in Nat \ {0} : w = Width
  BY SpiIs DEF Spi!SpiAssumption
<1> DEFINE m == take + w - 1
           d == m \div w
<1>2. m \in Nat /\ d \in Nat /\ m = (w * d) + (m % w) /\ m % w \in 0 .. w - 1
  BY <1>1
<1> HIDE DEF d
<1>3. d * w = w * d /\ d * w \in Nat
  BY <1>1, <1>2
<1>4. d * w >= take
  BY <1>1, <1>2, <1>3
<1>5. Spi!UpDiv(take, Width) * Width = d * w
  BY <1>1 DEF Spi!UpDiv, d
<1> QED  BY <1>3, <1>4, <1>5 DEF Spi!LowOf

(* A byte is not changed on its way, whatever the length of a word.        *)
LEMMA PackedIs ==
  ASSUME bpw \in WordLens, msb \in BOOLEAN, NEW byte
  PROVE  Spi!Packed(byte) = byte
<1>1. bpw \in 4 .. 32
  BY SpiIs DEF Spi!SpiAssumption
<1> QED  BY <1>1, PackingIs, Zenon DEF Spi!Packed
-----------------------------------------------------------------------------
Known ==
  /\ bpw \in WordLens \cup {0} /\ msb \in BOOLEAN /\ xfers \in Nat /\ lost \in BOOLEAN
  /\ sstep \in {"idle", "poll", "rx", "tx", "done", "dma", "fail"}
  /\ sstep # "idle" => bpw # 0

\* How many bytes of the transfer the engine has moved.
Moved == IF hw = Spi!None THEN xfer.moves ELSE xfer.moves - hw.left

\* The engine's command is the transfer's, and no bit tells of another.
Asked ==
  /\ xfer \in [tx : BOOLEAN, rx : BOOLEAN, n : Nat \ {0}, dma : BOOLEAN, moves : Nat]
  /\ xfer.moves <= xfer.n /\ xfers > 0
  /\ hw # Spi!None => /\ hw \in [tx : BOOLEAN, rx : BOOLEAN, left : Nat, dma : BOOLEAN, k : Nat]
                      /\ (hw.tx <=> xfer.tx) /\ (hw.rx <=> xfer.rx) /\ (hw.dma <=> xfer.dma)
                      /\ hw.k = xfers /\ hw.left <= xfer.moves
  /\ "done" \in irq \/ "done" \in snap => hw = Spi!None
  /\ "tx" \notin irq /\ ("fifo" \in snap => stat = "err")
  /\ sstep # "fail" => stat \in {"busy", "err"}

\* Bytes are on the wire, in the FIFO or still to be put there.
Sent ==
  /\ xfer.tx => /\ Len(txFifo) \in Nat /\ txRem \in Nat /\ Moved + Len(txFifo) + txRem = xfer.n
                /\ wire = Block(xfers, 0, Moved) /\ txFifo = Block(xfers, Moved, Len(txFifo))
  /\ ~xfer.tx => txFifo = <<>> /\ txRem = 0
  /\ sstep \in {"rx", "tx"} /\ "tx" \in snap => txFifo = <<>>

\* Bytes are in the buffer or in the FIFO, all of them or fewer.
Received ==
  /\ xfer.rx => /\ buf \in Seq(Byte) /\ rxFifo \in Seq(Byte)
                /\ rxRem \in Nat /\ rxRem + Len(buf) = xfer.n
                /\ InOrder(xfers, Moved, buf, rxFifo)
  /\ ~xfer.rx => rxFifo = <<>> /\ rxRem = 0

FifoInv == ~xfer.dma /\ sstep # "dma" /\ pend = {} /\ Asked /\ Sent /\ Received

\* With the channels the transfer is made or not; a lost byte is an error that
\* was read or will be.
DmaInv ==
  /\ xfer.dma /\ sstep \in {"poll", "dma", "fail"} /\ Asked
  /\ txFifo = <<>> /\ rxFifo = <<>> /\ Moved \in {0, xfer.moves}
  /\ Moved = xfer.moves /\ xfer.tx => wire = Block(xfers, 0, xfer.moves)
  /\ Moved = xfer.moves /\ xfer.rx => \/ buf = Block(xfers, 0, xfer.moves)
                                     \/ stat = "err" \/ "fifo" \in irq

\* Between transfers the engine is at rest; bytes that make no word may be left
\* in the transmit FIFO.
Clean == hw = Spi!None /\ rxFifo = <<>> /\ pend = {}

XferInv ==
  /\ Known /\ Spi!XferTruth
  /\ ~lost => /\ sstep = "idle" => Clean
              /\ sstep # "idle" => FifoInv \/ DmaInv

(* The invariant holds at first.                                           *)
LEMMA XferStart == Spi!Init => XferInv
<1> SUFFICES ASSUME Spi!Init PROVE XferInv
  OBVIOUS
<1>1. /\ sstep = "idle" /\ bpw = 0 /\ msb = TRUE /\ xfers = 0 /\ lost = FALSE
      /\ hw = Spi!None /\ rxFifo = <<>> /\ pend = {}
  BY DEF Spi!Init
<1>2. Known
  BY <1>1 DEF Known
<1>3. Spi!XferTruth
  BY <1>1 DEF Spi!XferTruth
<1> QED  BY <1>1, <1>2, <1>3 DEF XferInv, Clean

(* Ranges of what the driver keeps.                                        *)
LEMMA KnownStep == Known /\ [Spi!Next]_Spi!vars => Known'
<1> SUFFICES ASSUME Known, [Spi!Next]_Spi!vars PROVE Known'
  OBVIOUS
<1> USE DEF Known, Spi!busVars, Spi!pollVars, Spi!xferVars
<1>1. CASE Spi!ClaimBus
  <2>1. 0 \notin WordLens
    BY SpiIs DEF Spi!SpiAssumption
  <2> QED  BY <1>1, <2>1 DEF Spi!ClaimBus
<1>2. ASSUME NEW tx \in BOOLEAN, NEW rx \in BOOLEAN, NEW n \in Lengths, Spi!Xfer(tx, rx, n)
      PROVE  Known'
  BY <1>2 DEF Spi!Xfer
<1>3. CASE Spi!Poll
  BY <1>3 DEF Spi!Poll, Spi!NextRound
<1>4. CASE Spi!HandleRx
  BY <1>4 DEF Spi!HandleRx
<1>5. CASE Spi!HandleTx
  BY <1>5 DEF Spi!HandleTx
<1>6. ASSUME NEW result, Spi!Finish(result), UNCHANGED <<bpw, msb, xfers>>, sstep # "idle"
      PROVE  Known'
  BY <1>6 DEF Spi!Finish, Spi!NextRound
<1>7. CASE Spi!IsrDone
  BY <1>6, <1>7 DEF Spi!IsrDone
<1>8. CASE Spi!IsrDma
  BY <1>6, <1>8 DEF Spi!IsrDma
<1>9. ASSUME NEW answers \in BOOLEAN, Spi!HandleErr(answers) PROVE Known'
  BY <1>9 DEF Spi!HandleErr
<1>10. ASSUME NEW dropped \in BOOLEAN, Spi!Shift(dropped) \/ Spi!DmaMove(dropped) PROVE Known'
  BY <1>10 DEF Spi!Shift, Spi!DmaMove
<1>11. ASSUME NEW d \in {"tx", "rx"}, Spi!DmaDone(d) PROVE Known'
  BY <1>11 DEF Spi!DmaDone
<1>12. CASE Spi!CmdDone
  BY <1>12 DEF Spi!CmdDone
<1>13. CASE UNCHANGED Spi!vars
  BY <1>13 DEF Spi!vars
<1> QED  BY <1>1, <1>2, <1>3, <1>4, <1>5, <1>7, <1>8, <1>9, <1>10, <1>11, <1>12, <1>13 DEF Spi!Next
\* What a FIFO with the next t bytes of transfer k holds.
Holds(k, n, rem, t) ==
  LET next == Block(k, n - rem, t)
  IN /\ <<>> \o Spi!TxBytes(k, n, rem) = next
     /\ Len(next) = t /\ ~(t > Depth * Width)
     /\ SubSeq(next, 1, Spi!LowOf(t, Depth * Width)) = next

(* An empty FIFO is filled with the next bytes, and holds them.            *)
LEMMA Filled ==
  ASSUME NEW k \in Nat, NEW n \in Nat, NEW rem \in 0 .. n
  PROVE  Holds(k, n, rem, Spi!TxTaken(rem))
<1> DEFINE t == Spi!TxTaken(rem)
           b == Block(k, n - rem, t)
<1>1. rem \in Nat /\ n - rem \in Int /\ k \in Int
  OBVIOUS
<1>2. t \in Nat /\ Depth * Width \in Nat /\ t <= Depth * Width
  BY <1>1, TakenFits
<1>3. Spi!TxBytes(k, n, rem) = b
  BY DEF Spi!TxBytes, Block
<1> HIDE DEF t
<1>4. b \in Seq(Byte) /\ Len(b) = t
  BY <1>1, <1>2, BlockIs
<1>5. SubSeq(b, 1, t) = b
  <2>1. t \in 0 .. t
    BY <1>2
  <2> QED  BY <1>1, <1>2, <2>1, BlockSub, Zenon
<1> HIDE DEF b
<1>6. <<>> \o Spi!TxBytes(k, n, rem) = b
  BY <1>3, <1>4, ConcatEmptySeq
<1>7. Spi!LowOf(t, Depth * Width) = t
  BY <1>2 DEF Spi!LowOf
<1>8. ~(t > Depth * Width)
  BY <1>2
<1> QED  BY <1>4, <1>5, <1>6, <1>7, <1>8 DEF Holds, b, t

(* The words of a transfer hold no more bytes than it has (do_spi_xfer).   *)
LEMMA InWordsIs ==
  ASSUME NEW n \in Nat
  PROVE  Spi!InWords(n) \in Nat /\ Spi!InWords(n) <= n
<1>1. PICK w \in Nat \ {0} : Spi!InWords(n) = (n \div w) * w
  <2> DEFINE word == IF bpw > 16 THEN 4 ELSE IF bpw > 8 THEN 2 ELSE 1
  <2>1. word \in Nat \ {0}
    OBVIOUS
  <2>2. Spi!InWords(n) = (n \div word) * word
    BY DEF Spi!InWords
  <2> HIDE DEF word
  <2> QED  BY <2>1, <2>2
<1>2. n \div w \in Nat /\ n = (w * (n \div w)) + (n % w) /\ n % w \in Nat
  OBVIOUS
<1>3. (n \div w) * w = w * (n \div w) /\ (n \div w) * w \in Nat
  BY <1>2
<1> QED  BY <1>1, <1>2, <1>3

(* A new transfer: the first bytes are in the FIFO, or all is left to the  *)
(* channels (do_spi_xfer).                                                 *)
LEMMA XferBegins ==
  ASSUME XferInv, NEW tx \in BOOLEAN, NEW rx \in BOOLEAN, NEW n \in Lengths, tx \/ rx,
         Spi!Xfer(tx, rx, n)
  PROVE  XferInv'
<1>1. Known'
  BY KnownStep DEF XferInv, Spi!Next
<1>2. sstep = "idle" /\ sstep' = "poll" /\ lost' = (lost \/ Spi!LeftOver)
  BY DEF Spi!Xfer
<1>3. Spi!XferTruth'
  BY <1>2 DEF Spi!XferTruth
<1> SUFFICES ASSUME ~lost, ~Spi!LeftOver PROVE FifoInv' \/ DmaInv'
  BY <1>1, <1>2, <1>3 DEF XferInv
<1>4. /\ hw = Spi!None /\ txFifo = <<>> /\ rxFifo = <<>> /\ pend = {}
      /\ xfers \in Nat /\ n \in Nat \ {0} /\ n \in Nat
  BY <1>2, SpiIs DEF XferInv, Clean, Known, Spi!LeftOver, Spi!SpiAssumption
<1> DEFINE useDma == n > (Depth * Width * 8) \div bpw /\ ~dmaDisable
           k == xfers + 1
           first == IF tx /\ ~useDma THEN Spi!TxTaken(n) ELSE 0
           fill == IF first > 0 THEN txFifo \o Spi!TxBytes(k, n, n) ELSE txFifo
<1>5. PICK dma1 \in BOOLEAN : dma1 <=> useDma
  OBVIOUS
<1>m. PICK m \in Nat : m = Spi!InWords(n) /\ m <= n
  BY <1>4, InWordsIs
<1>6. /\ xfer' = [tx |-> tx, rx |-> rx, n |-> n, dma |-> dma1, moves |-> m]
      /\ hw' = [tx |-> tx, rx |-> rx, left |-> m, dma |-> dma1, k |-> k]
  <2>1. /\ xfer' = [tx |-> tx, rx |-> rx, n |-> n, dma |-> useDma, moves |-> Spi!InWords(n)]
        /\ hw' = [tx |-> tx, rx |-> rx, left |-> Spi!InWords(n), dma |-> useDma, k |-> k]
    BY <1>4 DEF Spi!Xfer
  <2>2. dma1 = useDma
    BY <1>5, Zenon
  <2> QED  BY <1>m, <2>1, <2>2, Zenon
<1>7. /\ txRem' = (IF tx THEN n ELSE 0) - first /\ rxRem' = IF rx THEN n ELSE 0
      /\ txFifo' = SubSeq(fill, 1, Spi!LowOf(Len(fill), Depth * Width))
      /\ irq' = Spi!ModeIrq(FALSE, Len(fill) > Depth * Width)
      /\ wire' = <<>> /\ buf' = <<>> /\ stat' = "busy" /\ snap' = {} /\ xfers' = k
      /\ rxFifo' = <<>>
  BY <1>4 DEF Spi!Xfer
<1>8. pend' = IF dma1 THEN Spi!DmaPrep(tx, rx) ELSE {}
  BY <1>4, <1>5 DEF Spi!Xfer
<1> HIDE DEF useDma
<1>9. hw' # Spi!None
  BY <1>4, <1>6 DEF Spi!None
<1>10. /\ first \in 0 .. n /\ (first > 0 => tx /\ ~dma1) /\ (~tx \/ dma1 => first = 0)
       /\ fill = Block(k, 0, first) /\ txFifo' = Block(k, 0, first) /\ Len(txFifo') = first
       /\ irq' = {}
  <2>1. Spi!TxTaken(n) \in 0 .. n
    BY <1>4, TakenFits
  <2>2. first \in 0 .. n /\ (first > 0 => tx /\ ~dma1) /\ (~tx \/ dma1 => first = 0)
    BY <1>4, <1>5, <2>1
  <2>3. Depth * Width \in Nat
    BY <1>4, TakenFits
  <2>4. CASE first = 0
    <3>1. fill = <<>>
      BY <1>4, <2>4
    <3>2. Len(fill) = 0 /\ ~(Len(fill) > Depth * Width) /\ Spi!LowOf(Len(fill), Depth * Width) = 0
      BY <2>3, <3>1 DEF Spi!LowOf
    <3>3. SubSeq(fill, 1, 0) = <<>>
      BY SubSeqEmpty
    <3>4. Block(k, 0, first) = <<>>
      BY <1>4, <2>4, NoBlock
    <3>5. irq' = {}
      BY <1>7, <3>2 DEF Spi!ModeIrq
    <3>6. txFifo' = <<>> /\ Len(<<>>) = 0
      BY <1>7, <3>2, <3>3
    <3> QED  BY <2>2, <2>4, <3>1, <3>4, <3>5, <3>6
  <2>5. CASE first # 0
    <3>1. first = Spi!TxTaken(n) /\ fill = <<>> \o Spi!TxBytes(k, n, n)
      BY <1>4, <2>2, <2>5
    <3> HIDE DEF fill, first
    <3>2. k \in Nat /\ n \in 0 .. n /\ n - n = 0
      BY <1>4
    <3>3. /\ fill = Block(k, n - n, first) /\ Len(fill) = first /\ ~(Len(fill) > Depth * Width)
          /\ SubSeq(fill, 1, Spi!LowOf(Len(fill), Depth * Width)) = fill
      <4>1. k \in Nat /\ n \in Nat /\ n \in 0 .. n /\ first = Spi!TxTaken(n)
        BY <1>4, <3>1
      <4>2. /\ <<>> \o Spi!TxBytes(k, n, n) = Block(k, n - n, first)
            /\ Len(Block(k, n - n, first)) = first /\ ~(first > Depth * Width)
            /\ SubSeq(Block(k, n - n, first), 1, Spi!LowOf(first, Depth * Width))
                 = Block(k, n - n, first)
        <5>1. Holds(k, n, n, Spi!TxTaken(n))
          BY ONLY <4>1, Filled, Zenon
        <5>2. Holds(k, n, n, first)
          BY ONLY <4>1, <5>1, Zenon
        <5> QED  BY ONLY <5>2, Zenon DEF Holds
      <4> QED  BY ONLY <3>1, <4>2, Zenon
    <3>4. irq' = {}
      BY <1>7, <3>3 DEF Spi!ModeIrq
    <3>5. txFifo' = fill /\ fill = Block(k, 0, first)
      BY <1>7, <3>2, <3>3, Zenon
    <3> QED  BY <2>2, <3>3, <3>4, <3>5
  <2> QED  BY <2>4, <2>5
<1> HIDE DEF first, fill
<1>11. Moved' = 0
  <2>1. Moved' = m - m
    BY <1>6, <1>9 DEF Moved
  <2> QED  BY <2>1
<1>12. Asked'
  <2>1. /\ xfer' \in [tx : BOOLEAN, rx : BOOLEAN, n : Nat \ {0}, dma : BOOLEAN, moves : Nat]
        /\ xfer'.moves <= xfer'.n /\ xfers' > 0
    BY <1>4, <1>m, <1>6, <1>7
  <2>2. /\ hw' \in [tx : BOOLEAN, rx : BOOLEAN, left : Nat, dma : BOOLEAN, k : Nat]
        /\ (hw'.tx <=> xfer'.tx) /\ (hw'.rx <=> xfer'.rx) /\ (hw'.dma <=> xfer'.dma)
        /\ hw'.k = xfers' /\ hw'.left <= xfer'.moves
    BY <1>4, <1>m, <1>6, <1>7
  <2> QED  BY <1>7, <1>10, <2>1, <2>2 DEF Asked
<1>13. CASE dma1
  <2>1. first = 0 /\ Block(k, 0, first) = <<>>
    BY <1>4, <1>10, <1>13, NoBlock
  <2>2. xfer'.dma /\ xfer'.moves = m
    BY <1>6, <1>13
  <2>3. Moved' = xfer'.moves => /\ wire' = Block(xfers', 0, xfer'.moves)
                                /\ buf' = Block(xfers', 0, xfer'.moves)
    <3>1. Block(k, 0, 0) = <<>>
      BY <1>4, NoBlock
    <3> QED  BY <1>7, <1>11, <3>1
  <2>4. DmaInv'
    BY <1>2, <1>7, <1>10, <1>11, <1>12, <2>1, <2>2, <2>3 DEF DmaInv
  <2> QED  BY <2>4
<1>14. CASE ~dma1
  <2>1. ~xfer'.dma /\ (xfer'.tx <=> tx) /\ (xfer'.rx <=> rx) /\ xfer'.n = n
    BY <1>6, <1>14
  <2>2. Sent'
    <3>1. k \in Nat /\ Block(k, 0, 0) = <<>>
      BY <1>4, NoBlock
    <3>2. ASSUME tx
          PROVE  /\ Len(txFifo') \in Nat /\ txRem' \in Nat
                 /\ Moved' + Len(txFifo') + txRem' = xfer'.n
                 /\ wire' = Block(xfers', 0, Moved')
                 /\ txFifo' = Block(xfers', Moved', Len(txFifo'))
      <4>1. txRem' = n - first
        BY <1>7, <3>2
      <4>2. Len(txFifo') = first /\ first \in Nat /\ first <= n
        BY <1>4, <1>10
      <4>3. txFifo' = Block(xfers', Moved', Len(txFifo'))
        BY <1>7, <1>10, <1>11, Zenon
      <4>4. wire' = Block(xfers', 0, Moved')
        BY <1>7, <1>11, <3>1, Zenon
      <4>5. txRem' \in Nat /\ 0 + first + txRem' = n
        BY <1>4, <4>1, <4>2
      <4> QED  BY <1>11, <2>1, <4>2, <4>3, <4>4, <4>5
    <3>3. ASSUME ~tx PROVE txFifo' = <<>> /\ txRem' = 0
      <4>1. first = 0
        BY <1>10, <3>3
      <4> QED  BY <1>7, <1>10, <3>1, <3>3, <4>1
    <3> QED  BY <1>2, <2>1, <3>2, <3>3 DEF Sent
  <2>3. Received'
    <3>1. k \in Nat /\ Block(k, 0, 0) = <<>> /\ <<>> \in Seq(Byte) /\ Len(<<>>) = 0
      BY <1>4, NoBlock, EmptySeq
    <3>2. ASSUME rx
          PROVE  /\ buf' \in Seq(Byte) /\ rxFifo' \in Seq(Byte)
                 /\ rxRem' \in Nat /\ rxRem' + Len(buf') = xfer'.n
                 /\ Len(buf') + Len(rxFifo') = Moved'
                 /\ buf' = Block(xfers', 0, Len(buf'))
                 /\ rxFifo' = Block(xfers', Len(buf'), Len(rxFifo'))
      <4>1. rxRem' = n
        BY <1>7, <3>2
      <4>2. Len(buf') = 0 /\ Len(rxFifo') = 0
        BY <1>7, <3>1
      <4>3. buf' = Block(xfers', 0, Len(buf')) /\ rxFifo' = Block(xfers', Len(buf'), Len(rxFifo'))
        BY <1>7, <3>1, <4>2, Zenon
      <4> QED  BY <1>4, <1>7, <1>11, <2>1, <3>1, <4>1, <4>2, <4>3
    <3>3. ~rx => rxRem' = 0
      BY <1>7
    <3> QED  BY <1>7, <2>1, <3>2, <3>3 DEF Received, InOrder
  <2>4. FifoInv'
    BY <1>2, <1>8, <1>12, <1>14, <2>1, <2>2, <2>3 DEF FifoInv
  <2> QED  BY <2>4
<1> QED  BY <1>13, <1>14

(* Steps that leave the bytes of a direction alone.                        *)
LEMMA SentKept ==
  ASSUME Sent, UNCHANGED <<xfer, hw, xfers, txRem, txFifo, wire>>,
         sstep' \in {"rx", "tx"} /\ "tx" \in snap' => txFifo' = <<>>
  PROVE  Sent'
BY DEF Sent, Moved

LEMMA ReceivedKept ==
  ASSUME Received, UNCHANGED <<xfer, hw, xfers, rxRem, rxFifo, buf>>
  PROVE  Received'
BY DEF Received, Moved

(* A look at the bits (geni_spi_isr).                                      *)
LEMMA PollKeeps == ASSUME XferInv, Spi!Poll, ~lost' PROVE XferInv'
<1>1. Known'
  BY KnownStep DEF XferInv, Spi!Next
<1>2. /\ sstep = "poll" /\ snap' = Spi!MIrq
      /\ stat' = IF Spi!MIrq \cap {"cmd", "fifo"} # {} THEN "err" ELSE stat
      /\ UNCHANGED <<xfer, txRem, rxRem, hw, txFifo, rxFifo, irq, pend, wire, buf, xfers>>
      /\ sstep' \in {"poll", "dma", "rx"} /\ ~lost
      /\ sstep' = "dma" => xfer.dma
      /\ sstep' = "rx" => ~xfer.dma
  BY DEF Spi!Poll, Spi!NextRound, Spi!xferVars, Spi!engineVars, Spi!dataVars
<1>3. /\ "done" \in snap' => "done" \in irq
      /\ "tx" \in snap' => "tx" \in irq \/ txFifo = <<>>
  <2> DEFINE a == IF Spi!RxBytes > 0 THEN {"rx"} ELSE {}
             b == IF wm /\ txFifo = <<>> THEN {"tx"} ELSE {}
  <2>1. a \subseteq {"rx"} /\ b \subseteq {"tx"} /\ ("tx" \in b => txFifo = <<>>)
    <3>1. a \subseteq {"rx"}
      OBVIOUS
    <3>2. CASE wm /\ txFifo = <<>>
      BY <3>1, <3>2
    <3>3. CASE ~(wm /\ txFifo = <<>>)
      BY <3>1, <3>3
    <3> QED  BY <3>2, <3>3
  <2>2. snap' = irq \cup a \cup b
    BY <1>2 DEF Spi!MIrq
  <2> HIDE DEF a, b
  <2> QED  BY <2>1, <2>2
<1>4. "fifo" \in snap' => stat' = "err"
  BY <1>2
<1>5. FifoInv \/ DmaInv
  BY <1>2 DEF XferInv
<1>6. Asked => Asked'
  BY <1>2, <1>3, <1>4 DEF Asked
<1>7. CASE FifoInv
  <2>1. Sent' /\ Received'
    BY <1>2, <1>3, <1>7, SentKept, ReceivedKept DEF FifoInv, Asked
  <2>2. FifoInv'
    BY <1>2, <1>6, <1>7, <2>1 DEF FifoInv
  <2> QED  BY <1>1, <1>2, <2>2 DEF XferInv, Spi!XferTruth
<1>8. CASE DmaInv
  <2>1. Moved' = Moved
    BY <1>2 DEF Moved
  <2>2. DmaInv'
    BY <1>2, <1>6, <1>8, <2>1 DEF DmaInv
  <2> QED  BY <1>1, <1>2, <2>2 DEF XferInv, Spi!XferTruth
<1> QED  BY <1>5, <1>7, <1>8

(* A wrong transfer that ends, or one that is to go on.                    *)
LEMMA FinishIs ==
  ASSUME XferInv, NEW result \in {"busy", "err", "complete"}, Spi!Finish(result),
         sstep # "idle", UNCHANGED <<hw, txFifo, rxFifo, pend>>, ~lost'
  PROVE  /\ ~lost /\ stat' = result /\ irq' = irq \ snap
         /\ result = "busy" => sstep' = "poll"
         /\ result = "err" => sstep' = "fail"
         /\ result = "complete" => sstep' = "idle" /\ hw = Spi!None /\ pend = {}
<1>1. /\ stat' = result /\ irq' = irq \ snap
      /\ IF result = "busy" THEN Spi!NextRound
         ELSE /\ sstep' = (IF result = "err" THEN "fail" ELSE "idle")
              /\ lost' = (lost \/ (result = "complete" /\ (hw # Spi!None \/ pend # {})))
  BY DEF Spi!Finish
<1>2. CASE result = "busy"
  BY <1>1, <1>2 DEF Spi!NextRound
<1>3. CASE result # "busy"
  <2>1. ~(lost \/ (result = "complete" /\ (hw # Spi!None \/ pend # {})))
    BY <1>1, <1>3, Zenon
  <2> QED  BY <1>1, <1>3, <2>1
<1> QED  BY <1>2, <1>3

(* The end of a round of the FIFO mode (geni_spi_isr).                     *)
LEMMA IsrDoneKeeps == ASSUME XferInv, Spi!IsrDone, ~lost' PROVE XferInv'
<1>1. Known'
  BY KnownStep DEF XferInv, Spi!Next
<1>2. /\ sstep = "done" /\ Spi!Finish(Spi!DoneStat)
      /\ UNCHANGED <<xfer, txRem, rxRem, ret, snap, hw, txFifo, rxFifo, pend, wire, buf, xfers>>
  BY DEF Spi!IsrDone, Spi!xferVars, Spi!engineVars, Spi!dataVars
<1>3. ~lost
  BY <1>2 DEF Spi!Finish, Spi!NextRound
<1>4. FifoInv
  BY <1>2, <1>3 DEF XferInv, DmaInv
<1>5. /\ Spi!DoneStat \in {"busy", "err", "complete"}
      /\ Spi!DoneStat = "busy" => stat = "busy"
      /\ Spi!DoneStat = "complete" => "done" \in snap /\ txRem = 0 /\ rxRem = 0
  BY <1>2, <1>4 DEF Spi!DoneStat, FifoInv, Asked
<1>6. /\ stat' = Spi!DoneStat /\ irq' = irq \ snap
      /\ Spi!DoneStat = "busy" => sstep' = "poll"
      /\ Spi!DoneStat = "err" => sstep' = "fail"
      /\ Spi!DoneStat = "complete" => sstep' = "idle" /\ hw = Spi!None /\ pend = {}
  BY <1>2, <1>5, FinishIs
<1>7. CASE Spi!DoneStat # "complete"
  <2>1. Asked'
    BY <1>2, <1>4, <1>5, <1>6, <1>7 DEF FifoInv, Asked
  <2>2. sstep' \in {"poll", "fail"}
    BY <1>5, <1>6, <1>7
  <2>3. Sent' /\ Received'
    BY <1>2, <1>4, <2>2, SentKept, ReceivedKept DEF FifoInv
  <2>4. FifoInv'
    BY <1>2, <1>4, <2>1, <2>2, <2>3 DEF FifoInv
  <2> QED  BY <1>1, <2>2, <2>4 DEF XferInv, Spi!XferTruth
<1>8. CASE Spi!DoneStat = "complete"
  <2>1. PICK n \in Nat : n = xfer.moves /\ n <= xfer.n /\ xfer.n \in Nat
    BY <1>4 DEF FifoInv, Asked
  <2>2. Moved = n
    BY <1>6, <1>8, <2>1 DEF Moved
  <2>3. Spi!Whole = Block(xfers, 0, n)
    <3>1. xfers \in Nat
      BY DEF XferInv, Known
    <3> QED  BY <2>1, <3>1 DEF Spi!Whole, Block
  <2>4. xfer.tx => wire = Spi!Whole
    BY <1>4, <2>2, <2>3 DEF FifoInv, Sent
  <2>5. xfer.rx => buf = Spi!Whole /\ Len(rxFifo) = 0
    <3>1. ASSUME xfer.rx PROVE buf = Spi!Whole /\ Len(rxFifo) = 0
      <4>1. /\ 0 + Len(buf) = xfer.n /\ Len(rxFifo) \in Nat /\ Len(buf) \in Nat
            /\ \/ Len(buf) + Len(rxFifo) < n
               \/ Len(buf) + Len(rxFifo) = n /\ buf = Block(xfers, 0, Len(buf))
        BY <1>4, <1>5, <1>8, <2>1, <2>2, <3>1 DEF FifoInv, Received, InOrder
      <4>2. Len(buf) = n /\ Len(rxFifo) = 0 /\ buf = Block(xfers, 0, Len(buf))
        BY <2>1, <4>1
      <4> QED  BY <2>3, <4>2
    <3> QED  BY <3>1
  <2>7. rxFifo = <<>>
    <3>1. CASE xfer.rx
      <4>1. rxFifo \in Seq(Byte)
        BY <1>4, <3>1 DEF FifoInv, Received
      <4> QED  BY <2>5, <3>1, <4>1, EmptySeq
    <3>2. CASE ~xfer.rx
      BY <1>4, <3>2 DEF FifoInv, Received
    <3> QED  BY <3>1, <3>2
  <2>8. Spi!XferTruth'
    BY <1>2, <2>4, <2>5 DEF Spi!XferTruth, Spi!Whole
  <2>9. sstep' = "idle" /\ Clean'
    BY <1>2, <1>6, <1>8, <2>7 DEF Clean
  <2> QED  BY <1>1, <2>8, <2>9 DEF XferInv
<1> QED  BY <1>7, <1>8

(* The end of a round of the DMA mode (geni_spi_isr).                      *)
LEMMA IsrDmaKeeps == ASSUME XferInv, Spi!IsrDma, ~lost' PROVE XferInv'
<1> DEFINE result == IF txRem' = 0 /\ rxRem' = 0 THEN "complete" ELSE stat
<1>1. Known'
  BY KnownStep DEF XferInv, Spi!Next
<1>2. /\ sstep = "dma" /\ Spi!Finish(result)
      /\ UNCHANGED <<xfer, ret, snap, hw, txFifo, rxFifo, pend, wire, buf, xfers>>
  BY DEF Spi!IsrDma, Spi!engineVars, Spi!dataVars
<1>3. ~lost
  BY <1>2 DEF Spi!Finish, Spi!NextRound
<1>4. DmaInv
  BY <1>2, <1>3 DEF XferInv, FifoInv
<1>5. result \in {"busy", "err", "complete"} /\ (result # "complete" => result = stat)
  BY <1>2, <1>4 DEF DmaInv, Asked
<1>6. result = "complete" /\ ~masked' => stat # "err" /\ "fifo" \notin irq
  BY <1>2, <1>4 DEF Spi!Finish, DmaInv
<1> HIDE DEF result
<1>7. /\ stat' = result /\ irq' = irq \ snap
      /\ result = "busy" => sstep' = "poll"
      /\ result = "err" => sstep' = "fail"
      /\ result = "complete" => sstep' = "idle" /\ hw = Spi!None /\ pend = {}
  BY <1>2, <1>5, FinishIs
<1>8. CASE result # "complete"
  <2>1. Asked'
    BY <1>2, <1>4, <1>5, <1>7, <1>8 DEF DmaInv, Asked
  <2>2. sstep' \in {"poll", "fail"} /\ stat' = stat
    BY <1>5, <1>7, <1>8
  <2>3. "fifo" \in irq => stat' = "err" \/ "fifo" \in irq'
    BY <1>4, <1>7, <2>2 DEF DmaInv, Asked
  <2>4. Moved' = Moved
    BY <1>2 DEF Moved
  <2>5. DmaInv'
    BY <1>2, <1>4, <2>1, <2>2, <2>3, <2>4 DEF DmaInv
  <2> QED  BY <1>1, <2>2, <2>5 DEF XferInv, Spi!XferTruth
<1>9. CASE result = "complete"
  <2>1. Clean' /\ sstep' = "idle"
    BY <1>2, <1>4, <1>7, <1>9 DEF Clean, DmaInv
  <2>2. Moved = xfer.moves
    BY <1>7, <1>9 DEF Moved
  <2>3. Spi!Whole = Block(xfers, 0, xfer.moves)
    BY DEF Spi!Whole, Block, XferInv, Known
  <2>4. ~masked' => (xfer.tx => wire = Spi!Whole) /\ (xfer.rx => buf = Spi!Whole)
    BY <1>4, <1>6, <1>9, <2>2, <2>3 DEF DmaInv
  <2>5. Spi!XferTruth'
    BY <1>2, <2>4 DEF Spi!XferTruth, Spi!Whole
  <2> QED  BY <1>1, <2>1, <2>5 DEF XferInv
<1> QED  BY <1>8, <1>9

\* What is left to say of the bytes after some of the FIFO were taken.
StillInOrder(k, moved, b, take, b1, f1) ==
  /\ b1 \in Seq(Byte) /\ f1 \in Seq(Byte) /\ Len(b1) = Len(b) + take
  /\ InOrder(k, moved, b1, f1)

(* A part of the receive FIFO is taken (geni_spi_handle_rx).               *)
LEMMA Taken ==
  ASSUME NEW k \in Int, NEW moved \in Nat, NEW b \in Seq(Byte), NEW f \in Seq(Byte),
         NEW take \in 0 .. Len(f), NEW gone \in take .. Len(f), InOrder(k, moved, b, f)
  PROVE  StillInOrder(k, moved, b, take, b \o SubSeq(f, 1, take), SubSeq(f, gone + 1, Len(f)))
<1> DEFINE p == SubSeq(f, 1, take)
           b1 == b \o SubSeq(f, 1, take)
           f1 == SubSeq(f, gone + 1, Len(f))
<1>1. PICK m \in Nat, n \in Nat : m = Len(b) /\ n = Len(f)
  OBVIOUS
<1>2. /\ take \in Nat /\ gone \in Nat /\ take <= gone /\ gone <= n
      /\ take \in Int /\ gone + 1 \in Int /\ n \in Int
  BY <1>1
<1>3. p \in Seq(Byte) /\ Len(p) = take
  <2>1. \A i \in 1 .. take : f[i] \in Byte
    BY <1>1, <1>2
  <2>2. p \in Seq(Byte) /\ Len(p) = IF 1 <= take THEN take - 1 + 1 ELSE 0
    BY <1>2, <2>1, SubSeqProperties
  <2> HIDE DEF p
  <2> QED  BY <1>2, <2>2
<1>4. f1 \in Seq(Byte) /\ Len(f1) = n - gone
  <2>1. \A i \in gone + 1 .. n : f[i] \in Byte
    BY <1>1, <1>2
  <2>2. f1 = SubSeq(f, gone + 1, n)
    BY <1>1
  <2>3. f1 \in Seq(Byte) /\ Len(f1) = IF gone + 1 <= n THEN n - (gone + 1) + 1 ELSE 0
    BY <1>2, <2>1, <2>2, SubSeqProperties
  <2> HIDE DEF f1
  <2> QED  BY <1>2, <2>3
<1> HIDE DEF p, f1
<1>5. b1 \in Seq(Byte) /\ Len(b1) = m + take
  <2>1. b1 = b \o p
    BY DEF p
  <2> HIDE DEF b1
  <2>2. b1 \in Seq(Byte) /\ Len(b1) = Len(b) + Len(p)
    BY <1>3, <2>1, ConcatProperties
  <2> QED  BY <1>1, <1>3, <2>2
<1> HIDE DEF b1
<1>6. CASE m + n < moved \/ gone # take
  <2>1. m + n <= moved
    BY <1>1 DEF InOrder
  <2>2. (m + take) + (n - gone) < moved
    BY ONLY m \in Nat, n \in Nat, moved \in Nat, <1>2, <1>6, <2>1
  <2>3. Len(b1) + Len(f1) = (m + take) + (n - gone)
    BY ONLY <1>4, <1>5, Zenon
  <2>4. Len(b1) + Len(f1) < moved
    BY ONLY <2>2, <2>3
  <2> QED  BY <1>1, <1>4, <1>5, <2>4 DEF InOrder, StillInOrder, b1, f1
<1>7. CASE ~(m + n < moved) /\ gone = take
  <2>1. m + n = moved /\ b = Block(k, 0, m) /\ f = Block(k, m, n)
    BY <1>1, <1>7 DEF InOrder
  <2>2. p = Block(k, m, take) /\ f1 = Block(k, m + take, n - take)
    <3>1. k \in Int /\ m \in Int /\ take \in 0 .. n /\ n \in Nat
      BY <1>2
    <3>2. /\ SubSeq(Block(k, m, n), 1, take) = Block(k, m, take)
          /\ SubSeq(Block(k, m, n), take + 1, n) = Block(k, m + take, n - take)
      BY ONLY <3>1, BlockSub, Zenon
    <3> QED  BY <1>1, <1>7, <2>1, <3>2 DEF p, f1
  <2>3. b1 = Block(k, 0, m + take)
    <3>1. 0 \in Int /\ 0 + m = m /\ take \in Nat
      BY <1>2
    <3>2. Block(k, 0, m) \o Block(k, 0 + m, take) = Block(k, 0, m + take)
      BY <3>1, BlockConcat
    <3> QED  BY <2>1, <2>2, <3>1, <3>2 DEF p, b1
  <2>4. Len(b1) + Len(f1) = moved
    <3>1. (m + take) + (n - gone) = moved
      BY ONLY m \in Nat, n \in Nat, moved \in Nat, <1>2, <1>7, <2>1
    <3> QED  BY ONLY <1>4, <1>5, <3>1, Zenon
  <2>5. b1 = Block(k, 0, Len(b1)) /\ f1 = Block(k, Len(b1), Len(f1))
    BY <1>4, <1>5, <1>7, <2>2, <2>3
  <2> QED  BY <1>1, <1>4, <1>5, <2>4, <2>5 DEF InOrder, StillInOrder, b1, f1
<1> QED  BY <1>6, <1>7

LEMMA HandleRxKeeps == ASSUME XferInv, Spi!HandleRx, ~lost' PROVE XferInv'
<1>1. Known'
  BY KnownStep DEF XferInv, Spi!Next
<1>2. /\ sstep = "rx" /\ sstep' = "tx" /\ ~lost
      /\ UNCHANGED <<xfer, txRem, stat, snap, hw, txFifo, irq, pend, wire, xfers>>
  BY DEF Spi!HandleRx, Spi!pollVars
<1>3. FifoInv
  BY <1>2 DEF XferInv, DmaInv
<1>4. Asked' /\ Sent'
  BY <1>2, <1>3, SentKept DEF FifoInv, Asked, Sent
<1>5. Received'
  <2>1. CASE "rx" \notin snap
    <3>1. UNCHANGED <<rxFifo, rxRem, buf>>
      BY <2>1 DEF Spi!HandleRx
    <3> QED  BY <1>2, <1>3, <3>1, ReceivedKept DEF FifoInv
  <2>2. CASE "rx" \in snap
    <3> DEFINE take == IF xfer.rx THEN Spi!LowOf(rxRem, Spi!RxBytes) ELSE Spi!RxBytes
               gone == Spi!LowOf(Spi!UpDiv(take, Width) * Width, Len(rxFifo))
    <3>1. /\ rxFifo' = SubSeq(rxFifo, gone + 1, Len(rxFifo))
          /\ rxRem' = (IF xfer.rx THEN rxRem - take ELSE rxRem)
          /\ buf' = (IF xfer.rx THEN buf \o SubSeq(rxFifo, 1, take) ELSE buf)
      BY <2>2 DEF Spi!HandleRx
    <3>2. Len(rxFifo) \in Nat
      BY <1>3, EmptySeq DEF FifoInv, Received
    <3>3. Spi!RxBytes \in 0 .. Len(rxFifo)
      BY <3>2, SeenIs
    <3>4. /\ take \in 0 .. Len(rxFifo)
          /\ xfer.rx => take <= rxRem
      <4>1. xfer.rx => rxRem \in Nat
        BY <1>3 DEF FifoInv, Received
      <4> QED  BY <3>2, <3>3, <4>1 DEF Spi!LowOf
    <3> HIDE DEF take
    <3>5. gone \in take .. Len(rxFifo)
      BY <3>2, <3>4, GoneIs
    <3> HIDE DEF gone
    <3>6. Moved \in Nat /\ Moved' = Moved
      BY <1>2, <1>3 DEF Moved, FifoInv, Asked
    <3>7. CASE xfer.rx
      <4>1. /\ buf \in Seq(Byte) /\ rxFifo \in Seq(Byte)
            /\ rxRem \in Nat /\ rxRem + Len(buf) = xfer.n
            /\ InOrder(xfers, Moved, buf, rxFifo)
        BY <1>3, <3>7 DEF FifoInv, Received
      <4>2. /\ buf' = buf \o SubSeq(rxFifo, 1, take) /\ rxRem' = rxRem - take
            /\ xfers \in Int
        <5>1. xfers \in Int
          BY DEF XferInv, Known
        <5> QED  BY <3>1, <3>7, <5>1
      <4>3. /\ buf' \in Seq(Byte) /\ rxFifo' \in Seq(Byte) /\ Len(buf') = Len(buf) + take
            /\ InOrder(xfers, Moved, buf', rxFifo')
        <5>1. rxFifo' = SubSeq(rxFifo, gone + 1, Len(rxFifo)) /\ take \in 0 .. Len(rxFifo)
          BY <3>1, <3>4
        <5>2. StillInOrder(xfers, Moved, buf, take, buf \o SubSeq(rxFifo, 1, take),
                           SubSeq(rxFifo, gone + 1, Len(rxFifo)))
          BY ONLY <3>5, <3>6, <4>1, <4>2, <5>1, Taken, Zenon
        <5>3. StillInOrder(xfers, Moved, buf, take, buf', rxFifo')
          BY ONLY <4>2, <5>1, <5>2, Zenon
        <5> QED  BY ONLY <5>3, Zenon DEF StillInOrder
      <4>4. rxRem' \in Nat /\ rxRem' + Len(buf') = xfer.n
        <5>1. PICK t \in Nat, m \in Nat : t = take /\ m = Len(buf)
          <6>1. take \in Nat
            BY <3>2, <3>4
          <6>2. Len(buf) \in Nat
            BY <4>1, LenProperties
          <6> QED  BY <6>1, <6>2, Zenon
        <5>2. PICK r \in Nat : r = rxRem /\ r + m = xfer.n /\ t <= r
          BY <3>4, <3>7, <4>1, <5>1
        <5>3. r - t \in Nat /\ (r - t) + (m + t) = r + m
          BY ONLY r \in Nat, t \in Nat, m \in Nat, <5>2
        <5>4. rxRem' = r - t /\ Len(buf') = m + t
          BY ONLY <4>2, <4>3, <5>1, <5>2, Zenon
        <5> QED  BY ONLY <5>2, <5>3, <5>4, Zenon
      <4> QED  BY <1>2, <3>6, <3>7, <4>3, <4>4 DEF Received
    <3>8. CASE ~xfer.rx
      <4>1. rxFifo = <<>> /\ rxRem = 0
        BY <1>3, <3>8 DEF FifoInv, Received
      <4>2. gone = 0 /\ Len(rxFifo) = 0
        BY <3>4, <3>5, <4>1
      <4>3. SubSeq(rxFifo, gone + 1, Len(rxFifo)) = <<>>
        BY <4>2, SubSeqEmpty
      <4> QED  BY <1>2, <3>1, <3>8, <4>1, <4>3 DEF Received
    <3> QED  BY <3>7, <3>8
  <2> QED  BY <2>1, <2>2
<1>6. FifoInv'
  BY <1>2, <1>3, <1>4, <1>5 DEF FifoInv
<1> QED  BY <1>1, <1>2, <1>6 DEF XferInv, Spi!XferTruth

(* The next bytes are put into the empty FIFO (geni_spi_handle_tx).        *)
LEMMA HandleTxKeeps == ASSUME XferInv, Spi!HandleTx, ~lost' PROVE XferInv'
<1>1. Known'
  BY KnownStep DEF XferInv, Spi!Next
<1>2. /\ sstep = "tx" /\ sstep' = "done" /\ ~lost
      /\ UNCHANGED <<xfer, rxRem, stat, snap, hw, rxFifo, pend, wire, buf, xfers>>
  BY DEF Spi!HandleTx, Spi!pollVars, Spi!dataVars
<1>3. FifoInv
  BY <1>2 DEF XferInv, DmaInv
<1>4. Received'
  BY <1>2, <1>3, ReceivedKept DEF FifoInv
<1>5. CASE "tx" \notin snap
  <2>1. UNCHANGED <<txRem, txFifo, irq>>
    BY <1>5 DEF Spi!HandleTx
  <2>2. Asked' /\ Sent'
    BY <1>2, <1>3, <2>1, SentKept DEF FifoInv, Asked
  <2>3. FifoInv'
    BY <1>2, <1>3, <1>4, <2>2 DEF FifoInv
  <2> QED  BY <1>1, <1>2, <2>3 DEF XferInv, Spi!XferTruth
<1>6. CASE "tx" \in snap
  <2> DEFINE t == Spi!TxTaken(txRem)
             fill == txFifo \o Spi!TxBytes(xfers, xfer.n, txRem)
  <2>1. /\ txRem' = txRem - t
        /\ txFifo' = SubSeq(fill, 1, Spi!LowOf(Len(fill), Depth * Width))
        /\ irq' = irq \cup (IF Len(fill) > Depth * Width THEN {"fifo"} ELSE {})
    BY <1>6 DEF Spi!HandleTx
  <2>2. txFifo = <<>>
    BY <1>2, <1>3, <1>6 DEF FifoInv, Sent
  <2>3. PICK n \in Nat, k \in Nat, rem \in Nat, a \in Nat :
          /\ n = xfer.n /\ k = xfers /\ rem = txRem /\ a = Moved
          /\ IF xfer.tx THEN a + 0 + rem = n ELSE rem = 0
    <3>1. xfer.n \in Nat /\ Moved \in Nat
      BY <1>3 DEF FifoInv, Asked, Moved
    <3>2. xfers \in Nat
      BY DEF XferInv, Known
    <3>3. txRem \in Nat /\ (xfer.tx => Moved + 0 + txRem = xfer.n) /\ (~xfer.tx => txRem = 0)
      BY <1>3, <2>2 DEF FifoInv, Sent
    <3> QED  BY <3>1, <3>2, <3>3
  <2>4. rem \in 0 .. n
    BY <2>3
  <2>5. t \in 0 .. rem
    BY <2>3, TakenFits
  <2>6. PICK u \in Nat : u = t /\ u <= rem /\ u = Spi!TxTaken(rem)
    BY <2>3, <2>5
  <2>7. fill = <<>> \o Spi!TxBytes(k, n, rem)
    BY <2>2, <2>3
  <2> HIDE DEF t, fill
  <2>8. /\ <<>> \o Spi!TxBytes(k, n, rem) = Block(k, n - rem, u)
        /\ Len(Block(k, n - rem, u)) = u /\ ~(u > Depth * Width)
        /\ SubSeq(Block(k, n - rem, u), 1, Spi!LowOf(u, Depth * Width)) = Block(k, n - rem, u)
    <3>1. k \in Nat /\ n \in Nat /\ rem \in 0 .. n /\ u = Spi!TxTaken(rem)
      BY <2>4, <2>6
    <3>2. Holds(k, n, rem, Spi!TxTaken(rem))
      BY ONLY <3>1, Filled, Zenon
    <3>3. Holds(k, n, rem, u)
      BY ONLY <3>1, <3>2, Zenon
    <3> QED  BY ONLY <3>3, Zenon DEF Holds
  <2>9. txFifo' = Block(k, n - rem, u) /\ irq' = irq /\ Len(txFifo') = u /\ txRem' = rem - u
    <3>1. fill = Block(k, n - rem, u) /\ Len(fill) = u
      BY <2>7, <2>8, Zenon
    <3>2. txFifo' = Block(k, n - rem, u)
      BY <2>1, <2>8, <3>1, Zenon
    <3>3. irq' = irq \cup {}
      BY <2>1, <2>8, <3>1, Zenon
    <3> QED  BY <2>1, <2>3, <2>6, <2>8, <3>2, <3>3
  <2>10. Asked'
    BY <1>2, <1>3, <2>9 DEF FifoInv, Asked
  <2>11. Sent'
    <3>1. Moved' = a /\ xfer' = xfer /\ xfers' = k
      BY <1>2, <2>3 DEF Moved
    <3>2. CASE xfer.tx
      <4>1. n - rem = a /\ a + u + (rem - u) = n /\ rem - u \in Nat
        BY <2>3, <2>6, <3>2
      <4>2. wire' = Block(xfers', 0, Moved')
        BY <1>2, <1>3, <2>3, <3>1, <3>2 DEF FifoInv, Sent
      <4>3. txFifo' = Block(xfers', Moved', Len(txFifo'))
        BY <2>9, <3>1, <4>1
      <4> QED  BY <1>2, <2>3, <2>9, <3>1, <3>2, <4>1, <4>2, <4>3 DEF Sent
    <3>3. CASE ~xfer.tx
      <4>1. rem = 0 /\ u = 0 /\ n - rem \in Int
        BY <2>3, <2>6, <3>3
      <4>2. txFifo' = <<>>
        BY <2>9, <4>1, NoBlock
      <4> QED  BY <1>2, <2>9, <3>1, <3>3, <4>1, <4>2 DEF Sent
    <3> QED  BY <3>2, <3>3
  <2>12. FifoInv'
    BY <1>2, <1>3, <1>4, <2>10, <2>11 DEF FifoInv
  <2> QED  BY <1>1, <1>2, <2>12 DEF XferInv, Spi!XferTruth
<1> QED  BY <1>5, <1>6

(* The engine shifts a byte each way, or drops one (FIFO mode).            *)
LEMMA ShiftKeeps ==
  ASSUME XferInv, NEW dropped \in BOOLEAN, Spi!Shift(dropped), ~lost' PROVE XferInv'
<1>1. Known'
  BY KnownStep DEF XferInv, Spi!Next
<1>2. /\ hw # Spi!None /\ ~hw.dma /\ hw.left > 0 /\ (hw.tx => txFifo # <<>>)
      /\ dropped => hw.rx
      /\ hw' = [hw EXCEPT !.left = @ - 1]
      /\ IF hw.tx THEN wire' = Append(wire, Spi!Packed(Head(txFifo))) /\ txFifo' = Tail(txFifo)
         ELSE UNCHANGED <<wire, txFifo>>
      /\ rxFifo' = (IF hw.rx /\ ~dropped
                    THEN Append(rxFifo, Spi!Packed(<<hw.k, xfer.moves - hw.left + 1>>))
                    ELSE rxFifo)
      /\ irq' = (IF dropped THEN irq \cup {"fifo"} ELSE irq)
      /\ UNCHANGED <<sstep, xfer, txRem, rxRem, stat, snap, pend, buf, xfers>> /\ ~lost
  BY DEF Spi!Shift, Spi!xferVars, Spi!pollVars
<1>3. FifoInv /\ sstep # "idle"
  <2>1. sstep # "idle"
    BY <1>2 DEF XferInv, Clean
  <2>2. ~DmaInv
    BY <1>2 DEF DmaInv, Asked
  <2> QED  BY <1>2, <2>1, <2>2 DEF XferInv
<1>4. ASSUME NEW byte PROVE Spi!Packed(byte) = byte
  BY <1>3, PackedIs DEF XferInv, Known
<1>5. PICK l \in Nat, n \in Nat, k \in Nat, a \in Nat :
        /\ l = hw.left /\ l > 0 /\ n = xfer.moves /\ k = xfers /\ k = hw.k /\ k > 0
        /\ a = n - l /\ a = Moved /\ a + 1 = n - (l - 1) /\ n - l + 1 = a + 1
  <2>1. PICK l \in Nat, n \in Nat, k \in Nat :
          l = hw.left /\ l > 0 /\ n = xfer.moves /\ k = xfers /\ k = hw.k /\ k > 0 /\ l <= n
    BY <1>2, <1>3 DEF FifoInv, Asked
  <2>2. Moved = n - l
    BY <1>2, <2>1 DEF Moved
  <2>3. n - l \in Nat /\ (n - l) + 1 = n - (l - 1)
    BY <2>1
  <2> QED  BY <2>1, <2>2, <2>3
<1>6. /\ (hw.tx <=> xfer.tx) /\ (hw.rx <=> xfer.rx)
      /\ hw \in [tx : BOOLEAN, rx : BOOLEAN, left : Nat, dma : BOOLEAN, k : Nat]
  BY <1>2, <1>3 DEF FifoInv, Asked
<1>7. /\ hw' \in [tx : BOOLEAN, rx : BOOLEAN, left : Nat, dma : BOOLEAN, k : Nat]
      /\ hw'.tx = hw.tx /\ hw'.rx = hw.rx /\ hw'.dma = hw.dma /\ hw'.k = k /\ hw'.left = l - 1
  <2>1. hw' = [hw EXCEPT !.left = l - 1] /\ l - 1 \in Nat /\ hw.k = k
    BY <1>2, <1>5
  <2> QED  BY ONLY <1>6, <2>1
<1>8. hw' # Spi!None
  BY <1>5, <1>7 DEF Spi!None
<1>9. Moved' = a + 1
  BY <1>2, <1>5, <1>7, <1>8 DEF Moved
<1>10. Asked'
  <2>1. /\ (hw'.tx <=> xfer'.tx) /\ (hw'.rx <=> xfer'.rx) /\ (hw'.dma <=> xfer'.dma)
        /\ hw'.k = xfers' /\ hw'.left <= xfer'.moves
    BY <1>2, <1>3, <1>5, <1>6, <1>7 DEF FifoInv
  <2>2. "done" \notin irq /\ "done" \notin snap
    BY <1>2, <1>3 DEF FifoInv, Asked
  <2>3. "done" \notin irq' /\ "done" \notin snap' /\ "tx" \notin irq'
    BY <1>2, <1>3, <2>2 DEF FifoInv, Asked
  <2> QED  BY <1>2, <1>3, <1>7, <2>1, <2>3 DEF FifoInv, Asked
<1>11. Sent'
  <2>1. CASE xfer.tx
    <3>1. PICK t \in Nat : t = Len(txFifo) /\ txFifo = Block(k, a, t)
      BY <1>3, <1>5, <2>1 DEF FifoInv, Sent
    <3>2. txFifo # <<>> /\ wire' = Append(wire, Spi!Packed(Head(txFifo))) /\ txFifo' = Tail(txFifo)
      BY <1>2, <1>6, <2>1
    <3>3. t # 0 /\ k \in Int /\ a \in Int
      BY <3>1, <3>2, NoBlock
    <3>4. Head(txFifo) = <<k, a + 1>> /\ txFifo' = Block(k, a + 1, t - 1)
      <4>1. t \in Nat \ {0}
        BY <3>3
      <4>2. Head(Block(k, a, t)) = <<k, a + 1>> /\ Tail(Block(k, a, t)) = Block(k, a + 1, t - 1)
        BY <3>3, <4>1, BlockTail, Zenon
      <4> QED  BY ONLY <3>1, <3>2, <4>2, Zenon
    <3>5. wire' = Block(k, 0, a + 1)
      <4>1. wire = Block(k, 0, a)
        BY <1>3, <1>5, <2>1 DEF FifoInv, Sent
      <4>2. Append(Block(k, 0, a), <<k, 0 + a + 1>>) = Block(k, 0, a + 1)
        <5>1. k \in Int /\ 0 \in Int /\ a \in Nat
          OBVIOUS
        <5> QED  BY ONLY <5>1, BlockAppend, Zenon
      <4>3. Spi!Packed(Head(txFifo)) = <<k, 0 + a + 1>>
        BY <1>4, <3>4
      <4> QED  BY <3>2, <4>1, <4>2, <4>3
    <3>6. Len(txFifo') = t - 1 /\ t - 1 \in Nat
      <4>1. t - 1 \in Nat /\ a + 1 \in Int
        BY <3>3
      <4> QED  BY <3>3, <3>4, <4>1, BlockIs
    <3>7. txRem \in Nat /\ a + t + txRem = xfer.n
      BY <1>3, <1>5, <2>1, <3>1 DEF FifoInv, Sent
    <3>8. (a + 1) + (t - 1) + txRem = xfer.n
      BY <3>7
    <3>9. ~(sstep \in {"rx", "tx"} /\ "tx" \in snap)
      BY <1>3, <3>2 DEF FifoInv, Sent
    <3> QED  BY <1>2, <1>5, <1>9, <2>1, <3>4, <3>5, <3>6, <3>7, <3>8, <3>9 DEF Sent
  <2>2. CASE ~xfer.tx
    BY <1>2, <1>3, <1>6, <2>2 DEF FifoInv, Sent
  <2> QED  BY <2>1, <2>2
<1>12. Received'
  <2>1. CASE xfer.rx
    <3>1. /\ buf \in Seq(Byte) /\ rxFifo \in Seq(Byte)
          /\ rxRem \in Nat /\ rxRem + Len(buf) = xfer.n /\ InOrder(k, a, buf, rxFifo)
      BY <1>3, <1>5, <2>1 DEF FifoInv, Received
    <3>2. PICK b \in Nat, f \in Nat : b = Len(buf) /\ f = Len(rxFifo)
      BY <3>1
    <3>3. CASE dropped
      <4>1. rxFifo' = rxFifo /\ b + f < a + 1
        BY <1>2, <3>1, <3>2, <3>3 DEF InOrder
      <4>2. InOrder(k, a + 1, buf, rxFifo)
        BY <3>2, <4>1 DEF InOrder
      <4> QED  BY <1>2, <1>5, <1>9, <2>1, <3>1, <4>1, <4>2 DEF Received
    <3>4. CASE ~dropped
      <4> DEFINE e == <<k, a + 1>>
      <4>1. rxFifo' = Append(rxFifo, e)
        BY <1>2, <1>4, <1>5, <1>6, <2>1, <3>4
      <4>2. e \in Byte
        BY DEF Byte
      <4> HIDE DEF e
      <4>3. rxFifo' \in Seq(Byte) /\ Len(rxFifo') = f + 1
        <5>1. /\ Append(rxFifo, e) \in Seq(Byte)
              /\ Len(Append(rxFifo, e)) = Len(rxFifo) + 1
          <6>1. rxFifo \in Seq(Byte)
            BY <3>1
          <6> QED  BY ONLY <4>2, <6>1, AppendProperties, Zenon
        <5> QED  BY <3>2, <4>1, <5>1
      <4>4. InOrder(k, a + 1, buf, rxFifo')
        <5>1. CASE b + f < a
          <6>1. b + (f + 1) < a + 1
            BY <5>1
          <6> QED  BY <3>2, <4>3, <6>1 DEF InOrder
        <5>2. CASE ~(b + f < a)
          <6>1. b + f = a /\ buf = Block(k, 0, b) /\ rxFifo = Block(k, b, f)
            BY <3>1, <3>2, <5>2 DEF InOrder
          <6>2. Append(Block(k, b, f), <<k, b + f + 1>>) = Block(k, b, f + 1)
            <7>1. k \in Int /\ b \in Int /\ f \in Nat
              OBVIOUS
            <7> QED  BY ONLY <7>1, BlockAppend, Zenon
          <6>3. rxFifo' = Block(k, b, f + 1)
            BY <4>1, <6>1, <6>2 DEF e
          <6>4. b + (f + 1) = a + 1
            BY <6>1
          <6> QED  BY <3>2, <4>3, <6>1, <6>3, <6>4 DEF InOrder
        <5> QED  BY <5>1, <5>2
      <4> QED  BY <1>2, <1>5, <1>9, <2>1, <3>1, <4>3, <4>4 DEF Received
    <3> QED  BY <3>3, <3>4
  <2>2. CASE ~xfer.rx
    BY <1>2, <1>3, <1>6, <2>2 DEF FifoInv, Received
  <2> QED  BY <2>1, <2>2
<1>13. FifoInv'
  BY <1>2, <1>3, <1>10, <1>11, <1>12 DEF FifoInv
<1> QED  BY <1>1, <1>2, <1>3, <1>13 DEF XferInv, Spi!XferTruth

(* The channels move the whole transfer, perhaps without a byte.           *)
LEMMA DmaMoveKeeps ==
  ASSUME XferInv, NEW dropped \in BOOLEAN, Spi!DmaMove(dropped), ~lost' PROVE XferInv'
<1>1. Known'
  BY KnownStep DEF XferInv, Spi!Next
<1>2. /\ hw.dma /\ hw.left > 0 /\ (dropped => hw.rx)
      /\ hw' = [hw EXCEPT !.left = 0]
      /\ irq' = (IF dropped THEN irq \cup {"fifo"} ELSE irq)
      /\ UNCHANGED <<sstep, xfer, stat, snap, txFifo, rxFifo, xfers>> /\ ~lost
  BY DEF Spi!DmaMove, Spi!xferVars, Spi!pollVars
<1>3. hw # Spi!None
  BY <1>2 DEF Spi!None
<1>4. DmaInv /\ sstep # "idle"
  <2>1. sstep # "idle"
    BY <1>2, <1>3 DEF XferInv, Clean
  <2>2. ~FifoInv
    BY <1>2, <1>3 DEF FifoInv, Asked
  <2> QED  BY <1>2, <2>1, <2>2 DEF XferInv
<1>5. ASSUME NEW byte PROVE Spi!Packed(byte) = byte
  BY <1>4, PackedIs DEF XferInv, Known
<1>6. /\ (hw.tx <=> xfer.tx) /\ (hw.rx <=> xfer.rx) /\ xfer.moves \in Nat
      /\ hw \in [tx : BOOLEAN, rx : BOOLEAN, left : Nat, dma : BOOLEAN, k : Nat]
      /\ hw.k = xfers /\ xfers \in Nat /\ xfers > 0 /\ hw.left <= xfer.moves
  BY <1>3, <1>4 DEF DmaInv, Asked, XferInv, Known
<1>7. PICK n \in Nat : n = xfer.moves /\ n = hw.left
  <2>1. Moved = xfer.moves - hw.left /\ Moved \in {0, xfer.moves}
    BY <1>3, <1>4 DEF DmaInv, Moved
  <2>2. PICK n \in Nat, l \in Nat : n = xfer.moves /\ l = hw.left /\ l > 0 /\ l <= n
    BY <1>2, <1>6
  <2>3. n - l = 0 \/ n - l = n
    BY <2>1, <2>2
  <2>4. n = l
    BY <2>2, <2>3
  <2> QED  BY <2>2, <2>4
<1>8. /\ hw' \in [tx : BOOLEAN, rx : BOOLEAN, left : Nat, dma : BOOLEAN, k : Nat]
      /\ hw'.tx = hw.tx /\ hw'.rx = hw.rx /\ hw'.dma = hw.dma /\ hw'.k = hw.k /\ hw'.left = 0
  BY <1>2, <1>6
<1>9. hw' # Spi!None
  BY <1>2, <1>8 DEF Spi!None
<1>10. Moved' = n
  <2>1. Moved' = n - 0
    BY <1>2, <1>7, <1>8, <1>9 DEF Moved
  <2> QED  BY <2>1
<1>11. Asked'
  <2>1. "done" \notin irq /\ "done" \notin snap
    BY <1>3, <1>4 DEF DmaInv, Asked
  <2>2. "done" \notin irq' /\ "done" \notin snap' /\ "tx" \notin irq'
    BY <1>2, <1>4, <2>1 DEF DmaInv, Asked
  <2>3. /\ (hw'.tx <=> xfer'.tx) /\ (hw'.rx <=> xfer'.rx) /\ (hw'.dma <=> xfer'.dma)
        /\ hw'.k = xfers' /\ hw'.left <= xfer'.moves
    BY <1>2, <1>4, <1>6, <1>8 DEF DmaInv
  <2> QED  BY <1>2, <1>4, <1>8, <2>2, <2>3 DEF DmaInv, Asked
<1>12. /\ xfer.tx => wire' = Block(xfers, 0, n)
       /\ xfer.rx => dropped \/ buf' = Block(xfers, 0, n)
  <2> DEFINE got == [i \in 1 .. hw.left |-> Spi!Packed(<<xfers, i>>)]
  <2>1. got = Block(xfers, 0, n)
    <3>1. got = [i \in 1 .. n |-> <<xfers, i>>]
      BY <1>5, <1>7
    <3> QED  BY <3>1 DEF Block
  <2>2. /\ wire' = (IF hw.tx THEN got ELSE wire)
        /\ buf' = (IF hw.rx THEN (IF dropped THEN Tail(got) ELSE got) ELSE buf)
    BY <1>6 DEF Spi!DmaMove
  <2> HIDE DEF got
  <2> QED  BY <1>6, <2>1, <2>2
<1>13. dropped => "fifo" \in irq'
  BY <1>2
<1>14. DmaInv'
  BY <1>2, <1>4, <1>7, <1>10, <1>11, <1>12, <1>13 DEF DmaInv
<1> QED  BY <1>1, <1>2, <1>4, <1>14 DEF XferInv, Spi!XferTruth

(* A channel reports its end.                                              *)
LEMMA DmaDoneKeeps ==
  ASSUME XferInv, NEW d \in {"tx", "rx"}, Spi!DmaDone(d), ~lost' PROVE XferInv'
<1>1. Known'
  BY KnownStep DEF XferInv, Spi!Next
<1>2. /\ d \in pend
      /\ UNCHANGED <<sstep, xfer, stat, snap, hw, txFifo, rxFifo, irq, wire, buf, xfers>> /\ ~lost
  BY DEF Spi!DmaDone, Spi!xferVars, Spi!pollVars, Spi!engineVars, Spi!dataVars
<1>3. DmaInv /\ sstep # "idle"
  BY <1>2 DEF XferInv, Clean, FifoInv
<1>4. DmaInv'
  BY <1>2, <1>3 DEF DmaInv, Asked, Moved
<1> QED  BY <1>1, <1>2, <1>3, <1>4 DEF XferInv, Spi!XferTruth

(* The engine ends its command.                                            *)
LEMMA CmdDoneKeeps == ASSUME XferInv, Spi!CmdDone, ~lost' PROVE XferInv'
<1>1. Known'
  BY KnownStep DEF XferInv, Spi!Next
<1>2. /\ hw # Spi!None /\ hw.left = 0 /\ hw' = Spi!None /\ irq' = irq \cup {"done"}
      /\ UNCHANGED <<sstep, xfer, txRem, rxRem, stat, snap, txFifo, rxFifo, pend, wire, buf, xfers>>
      /\ ~lost
  BY DEF Spi!CmdDone, Spi!xferVars, Spi!pollVars, Spi!dataVars
<1>3. sstep # "idle"
  BY <1>2 DEF XferInv, Clean
<1>4. FifoInv \/ DmaInv
  BY <1>2, <1>3 DEF XferInv
<1>5. Asked /\ Asked'
  BY <1>2, <1>4 DEF FifoInv, DmaInv, Asked
<1>6. Moved' = Moved
  <2>1. PICK n \in Nat : n = xfer.moves
    BY <1>5 DEF Asked
  <2>2. Moved = n - 0 /\ Moved' = n
    BY <1>2, <2>1 DEF Moved
  <2> QED  BY <2>2
<1>7. CASE FifoInv
  <2>1. Sent' /\ Received'
    BY <1>2, <1>6, <1>7 DEF FifoInv, Sent, Received
  <2>2. FifoInv'
    BY <1>2, <1>5, <1>7, <2>1 DEF FifoInv
  <2> QED  BY <1>1, <1>2, <1>3, <2>2 DEF XferInv, Spi!XferTruth
<1>8. CASE DmaInv
  <2>1. DmaInv'
    BY <1>2, <1>5, <1>6, <1>8 DEF DmaInv
  <2> QED  BY <1>1, <1>2, <1>3, <2>1 DEF XferInv, Spi!XferTruth
<1> QED  BY <1>4, <1>7, <1>8

(* An engine that answers is at rest after the abort (spi_geni_handle_err).*)
LEMMA HandleErrKeeps ==
  ASSUME XferInv, NEW answers \in BOOLEAN, Spi!HandleErr(answers), ~lost' PROVE XferInv'
<1>1. Known'
  BY KnownStep DEF XferInv, Spi!Next
<1>2. CASE ~answers
  BY <1>2 DEF Spi!HandleErr
<1>3. CASE answers
  <2>1. /\ sstep' = "idle" /\ ret' = "err" /\ hw' = Spi!None /\ txFifo' = <<>> /\ rxFifo' = <<>>
        /\ lost' = (pend' # {})
    BY <1>3 DEF Spi!HandleErr
  <2>2. pend' = {}
    BY <2>1
  <2> QED  BY <1>1, <2>1, <2>2 DEF XferInv, Clean, Spi!XferTruth
<1> QED  BY <1>2, <1>3

(* Every step.                                                             *)
LEMMA XferStep == XferInv /\ [Spi!Next]_Spi!vars => XferInv'
<1> SUFFICES ASSUME XferInv, [Spi!Next]_Spi!vars PROVE XferInv'
  OBVIOUS
<1>1. Known'
  BY KnownStep DEF XferInv
<1>2. CASE lost'
  BY <1>1, <1>2 DEF XferInv, Spi!XferTruth
<1>3. CASE ~lost'
  <2>1. CASE Spi!ClaimBus
    <3>1. /\ sstep = "idle"
          /\ UNCHANGED <<sstep, ret, xfer, hw, txFifo, rxFifo, pend, wire, buf, xfers, lost, masked>>
      BY <2>1 DEF Spi!ClaimBus, Spi!xferVars, Spi!pollVars, Spi!engineVars, Spi!dataVars
    <3> QED  BY <1>1, <3>1 DEF XferInv, Clean, Spi!XferTruth, Spi!Whole
  <2>2. ASSUME NEW tx \in BOOLEAN, NEW rx \in BOOLEAN, NEW n \in Lengths, tx \/ rx,
               Spi!Xfer(tx, rx, n)
        PROVE  XferInv'
    BY <2>2, XferBegins
  <2>3. CASE UNCHANGED Spi!vars
    <3>1. UNCHANGED <<sstep, xfer, txRem, rxRem, ret, stat, snap, hw, txFifo, rxFifo, irq, pend,
                      wire, buf, xfers, lost, masked>>
      BY <2>3 DEF Spi!vars, Spi!xferVars, Spi!pollVars, Spi!engineVars, Spi!dataVars
    <3>2. Clean' = Clean /\ (Asked => Asked') /\ (Sent => Sent') /\ (Received => Received')
      BY <3>1 DEF Clean, Asked, Sent, Received, Moved
    <3>3. (FifoInv => FifoInv') /\ (DmaInv => DmaInv')
      BY <3>1, <3>2 DEF FifoInv, DmaInv, Moved
    <3>4. Spi!XferTruth'
      BY <3>1 DEF XferInv, Spi!XferTruth, Spi!Whole
    <3> QED  BY <1>1, <3>1, <3>2, <3>3, <3>4 DEF XferInv
  <2> QED  BY <1>3, <2>1, <2>2, <2>3, PollKeeps, HandleRxKeeps, HandleTxKeeps, IsrDoneKeeps,
              IsrDmaKeeps, HandleErrKeeps, ShiftKeeps, DmaMoveKeeps, DmaDoneKeeps, CmdDoneKeeps
           DEF Spi!Next
<1> QED  BY <1>2, <1>3

(* A transfer that succeeds has moved every byte of its words once and in  *)
(* order, both ways, unless a command was left in the engine or bytes in   *)
(* its FIFO, or a FIFO error was overwritten (do_spi_xfer, geni_spi_isr).  *)
THEOREM TransfersAreTrue == Spi!Spec => []XferTruth
<1>1. XferInv => XferTruth
  BY DEF XferInv, XferTruth
<1> QED  BY XferStart, XferStep, <1>1, PTL DEF Spi!Spec
=============================================================================
