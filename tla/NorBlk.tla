------------------------------- MODULE NorBlk -------------------------------
(***************************************************************************)
(* The SPI NOR flash as a block device (drivers/misc/qti_nor_blk.c).  A    *)
(* sector (LBA) is smaller than what the flash erases at once, so that     *)
(* nor_bwrite works through the erase blocks a write touches: it reads an  *)
(* erase block back unless all of it is to be written, erases it and       *)
(* writes it.  Any call of the flash may fail, and the power may go at any *)
(* moment; there is no second copy of an erased block.                     *)
(*                                                                         *)
(* Offsets are counted in sectors.                                         *)
(***************************************************************************)
EXTENDS Integers, Sequences

CONSTANTS
  E,         \* sectors in an erase block (totalblkcnt)
  L,         \* sectors of the flash (block_dev->lba)
  Data,      \* what a sector can hold
  Erased,    \* what an erased sector holds
  Factory,   \* what the flash holds at first
  Calls,     \* the writes asked for: a first sector and the data
  MaxCalls   \* bound: writes asked for

ASSUME NorAssumption ==
  /\ E \in Nat \ {0} /\ L \in Nat /\ L % E = 0
  /\ Erased \in Data
  /\ Factory \in [0 .. L-1 -> Data]
  /\ \A c \in Calls :
       /\ c \in [start : Nat, src : Seq(Data)]
       /\ c.src # <<>> /\ c.start + Len(c.src) <= L
  /\ MaxCalls \in Nat

VARIABLES
  nor,     \* the sectors of the flash
  pc,      \* where nor_bwrite is
  start,   \* its argument
  src,     \* the data; blkcnt is its length
  at,      \* startoffset
  left,    \* lblkcnt
  buff,    \* "own", or "unset" when nothing was allocated
  block,   \* what goes into the erase block: buff, or lsrc
  ok,      \* returns blkcnt, not 0
  calls,   \* writes asked for so far
  before   \* history: the flash when nor_bwrite was called

call == <<start, src, at, left, buff, block, ok, calls, before>>
vars == <<nor, pc, call>>

Sectors == 0 .. L-1
Gap(s) == s % E
Base(s) == s - Gap(s)
InBlock(i, s) == Base(s) <= i /\ i < Base(s) + E
Min2(a, b) == IF a < b THEN a ELSE b

Init ==
  /\ nor = Factory
  /\ pc = "idle" /\ ok = FALSE /\ calls = 0
  /\ start = 0 /\ src = <<>> /\ at = 0 /\ left = 0
  /\ buff = "own" /\ block = [i \in 0 .. E-1 |-> Erased]
  /\ before = Factory
-----------------------------------------------------------------------------
\* Mutant: only the first sector decides whether a buffer is needed.
StartUnaligned(s, n) == Gap(s) # 0

\* The buffer is allocated when an end of the write is within a block.
NeedsBuffer(s, n) == Gap(s) # 0 \/ n % E # 0

\* Mutant of BwriteCall below: the first sector is rounded down to its block.
BwriteRounded(c) ==
  /\ pc = "idle" /\ calls < MaxCalls
  /\ start' = c.start /\ src' = c.src /\ at' = Base(c.start) /\ left' = Len(c.src)
  /\ calls' = calls + 1 /\ ok' = FALSE /\ before' = nor /\ pc' = "turn"
  /\ UNCHANGED <<nor, buff, block>>

\* nor_bwrite is called; there may be no memory for the buffer.
BwriteCall(c) ==
  /\ pc = "idle" /\ calls < MaxCalls
  /\ start' = c.start /\ src' = c.src
  /\ at' = c.start /\ left' = Len(c.src)
  /\ buff' = IF NeedsBuffer(c.start, Len(c.src)) THEN "own" ELSE "unset"
  /\ calls' = calls + 1
  /\ ok' = FALSE /\ before' = nor
  /\ pc' \in {"turn"} \cup (IF buff' = "own" THEN {"idle"} ELSE {})
  /\ UNCHANGED <<nor, block>>
-----------------------------------------------------------------------------
\* Mutant: the gap before the first sector is not taken off.
CountNoGap == Min2(left, E)

\* The sectors this turn of the loop writes, and whether it reads the block.
Count == IF Gap(at) # 0 THEN Min2(left, E - Gap(at)) ELSE Min2(left, E)
Backup == Gap(at) # 0 \/ left <= E

Written == Len(src) - left

\* Mutant: the data goes to the start of the buffer.
MergedAtStart ==
  [i \in 0 .. E-1 |-> IF i < Count THEN src[Written + i + 1] ELSE nor[Base(at) + i]]

\* The block with this turn's data in its place.
Merged ==
  [i \in 0 .. E-1 |->
     IF Gap(at) <= i /\ i < Gap(at) + Count THEN src[Written + (i - Gap(at)) + 1]
     ELSE nor[Base(at) + i]]

\* A buffer that was not allocated is whatever the stack held: the read may
\* go through, or end the program.
ReadBack ==
  /\ pc = "turn" /\ left > 0 /\ Backup
  /\ block' = Merged
  /\ pc' \in {"erase"} \cup (IF buff = "unset" THEN {"wild"} ELSE {})
  /\ UNCHANGED <<nor, start, src, at, left, buff, ok, calls, before>>

\* The whole block is to be written.
NoReadBack ==
  /\ pc = "turn" /\ left > 0 /\ ~Backup
  /\ block' = [i \in 0 .. E-1 |-> src[Written + i + 1]]
  /\ pc' = "erase"
  /\ UNCHANGED <<nor, start, src, at, left, buff, ok, calls, before>>

EraseBlock ==
  /\ pc = "erase"
  /\ nor' = [i \in Sectors |-> IF InBlock(i, at) THEN Erased ELSE nor[i]]
  /\ pc' = "write"
  /\ UNCHANGED call

\* The first k sectors of the block are written.
Programmed(k) ==
  [i \in Sectors |-> IF InBlock(i, at) /\ i < Base(at) + k THEN block[i - Base(at)] ELSE nor[i]]

WriteBlock ==
  /\ pc = "write"
  /\ nor' = Programmed(E)
  /\ left' = left - Count
  /\ at' = at + Count
  /\ pc' = "turn"
  /\ UNCHANGED <<start, src, buff, block, ok, calls, before>>

\* Any of the calls of the flash fails: the loop is left.
ReadFails == pc = "turn" /\ left > 0 /\ Backup /\ pc' = "return" /\ UNCHANGED <<nor, call>>

EraseFails ==
  /\ pc = "erase"
  /\ nor' \in {nor, [i \in Sectors |-> IF InBlock(i, at) THEN Erased ELSE nor[i]]}
  /\ pc' = "return"
  /\ UNCHANGED call

WriteFails ==
  /\ pc = "write"
  /\ \E k \in 0 .. E-1 : nor' = Programmed(k)
  /\ pc' = "return"
  /\ UNCHANGED call

Finish ==
  /\ pc = "turn" /\ left = 0
  /\ ok' = TRUE
  /\ pc' = "return"
  /\ UNCHANGED <<nor, start, src, at, left, buff, block, calls, before>>

\* buff is freed, allocated or not: an exception of that is a Reset.
Return ==
  /\ pc = "return"
  /\ pc' = "idle"
  /\ UNCHANGED <<nor, call>>

\* Power failure, or the exception of a stray pointer.
Reset ==
  /\ pc # "idle"
  /\ pc' = "idle" /\ ok' = FALSE
  /\ UNCHANGED <<nor, start, src, at, left, buff, block, calls, before>>
-----------------------------------------------------------------------------
Turn ==
  \/ ReadBack \/ NoReadBack \/ EraseBlock \/ WriteBlock
  \/ ReadFails \/ EraseFails \/ WriteFails \/ Finish \/ Return

Next == (\E c \in Calls : BwriteCall(c)) \/ Turn \/ Reset

Spec == Init /\ [][Next]_vars
-----------------------------------------------------------------------------
TypeOK ==
  /\ nor \in [Sectors -> Data] /\ before \in [Sectors -> Data]
  /\ pc \in {"idle", "turn", "erase", "write", "wild", "return"}
  /\ start \in Nat /\ at \in Nat /\ left \in Nat
  /\ src \in Seq(Data) /\ start + Len(src) <= L
  /\ at + left = start + Len(src) /\ start <= at
  /\ buff \in {"own", "unset"} /\ block \in [0 .. E-1 -> Data]
  /\ ok \in BOOLEAN /\ calls \in 0 .. MaxCalls

\* What the flash is to hold when nor_bwrite returns blkcnt.
Wanted(i) == IF start <= i /\ i < start + Len(src) THEN src[i - start + 1] ELSE before[i]

(***************************************************************************)
(* A write that reports success wrote its sectors, all of them, in their   *)
(* places, and changed no other, wherever in an erase block it starts and  *)
(* ends (nor_bwrite).                                                      *)
(***************************************************************************)
WritesExactly == pc = "return" /\ ok => \A i \in Sectors : nor[i] = Wanted(i)

(***************************************************************************)
(* Whenever the write stops, by an error, an exception or a power failure, *)
(* the one erase block it was working on is all that can be lost: sectors  *)
(* before it hold the new data, sectors behind it what they held.          *)
(***************************************************************************)
OneBlockAtRisk ==
  pc # "idle" =>
    \A i \in Sectors :
      /\ i < at /\ ~(left > 0 /\ InBlock(i, at)) => nor[i] = Wanted(i)
      /\ i >= at /\ ~InBlock(i, at) => nor[i] = before[i]

(***************************************************************************)
(* The pointer that was never set is only read into where a write of whole *)
(* erase blocks comes to its last one, all others written and that one not *)
(* touched: nothing is lost on the flash when the program ends there.      *)
(***************************************************************************)
StrayLosesNothing ==
  pc = "wild" =>
    /\ Gap(start) = 0 /\ left = E
    /\ \A i \in Sectors : nor[i] = IF i < at THEN Wanted(i) ELSE before[i]
=============================================================================
