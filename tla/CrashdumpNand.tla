--------------------------- MODULE CrashdumpNand ---------------------------
(***************************************************************************)
(* A crash dump written to NAND by arch/arm/mach-ipq/cmd_crashdump.c: the  *)
(* entries of the dump are packed into pages, and a page or a run of pages *)
(* is written behind the last one, erasing each block on the way and       *)
(* passing over bad ones.  "flash" is DUMP_TO_FLASH: the entries one after *)
(* the other from the offset of the environment.  "nvmem" is DUMP_TO_NVMEM:*)
(* the partition is erased, the entries and then their list are written    *)
(* from the second block on, and only then the header into the first.      *)
(*                                                                         *)
(* Offsets are counted in pages from the start of the partition; the data  *)
(* of the dump in units, W to a page, numbered as they are handed over.    *)
(***************************************************************************)
EXTENDS Naturals, Sequences, FiniteSetsExt

CONSTANTS
  W,         \* units of data in a page (write_size)
  P,         \* pages in a block (erasesize)
  B,         \* blocks in the partition
  Sizes,     \* the sizes of dump entries, in units
  ListSize,  \* the size of the list of dumps, in units
  MaxUnits,  \* bound: units of all the entries of a dump
  Header, Pad, Old, Blank, Garbled  \* what else a page can hold

ASSUME NandAssumption ==
  /\ W \in Nat /\ W > 1
  /\ P \in Nat /\ P > 0
  /\ B \in Nat /\ B > 0
  /\ Sizes \subseteq Nat \ {0}
  /\ ListSize \in Nat \ {0} /\ MaxUnits \in Nat
  /\ Old # Blank /\ Old # Garbled /\ Blank # Garbled
  /\ Header # Pad /\ Header \notin Nat /\ Pad \notin Nat
  /\ \A c \in {Old, Blank, Garbled} : c \notin [1 .. W -> Nat \cup {Header, Pad}]

VARIABLES
  mode,    \* dump_to: "flash" or "nvmem"
  stage,   \* how far ipq_do_dump_data is
  bad,     \* the bad blocks of the partition
  flash,   \* the pages of the partition and of one block behind it
  home,    \* crashdump_offset
  part,    \* part_start and the end of the partition the context is in
  off,     \* cur_crashdump_offset
  temp,    \* the first cur_page_data_len units of temp_data
  calls,   \* what check_and_write_crashdump_nand_flash is called with next
  rest,    \* what goes into temp_data after these calls
  fed,     \* units handed over so far
  firstErase,  \* first_erase
  crossed  \* history: behind the block just checked, pages were written that
           \* are bad or were not erased

vars == <<mode, stage, bad, flash, home, part, off, temp, calls, rest, fed,
          firstErase, crossed>>

Pages == 0 .. (B+1)*P - 1
PartEnd == B*P
Block(p) == p \div P
Good == (0 .. B-1) \ bad

\* ipq_smem_getpart_from_offset: the block behind the partition belongs to
\* the next one.
PartOf(o) == IF o < PartEnd THEN <<0, PartEnd>> ELSE <<PartEnd, PartEnd + P>>

Init ==
  /\ mode \in {"flash", "nvmem"}
  /\ stage = "setup"
  /\ bad \in SUBSET (0 .. B-1)
  /\ flash = [p \in Pages |-> Old]
  /\ home = 0 /\ part = <<0, 0>> /\ off = 0
  /\ temp = <<>> /\ calls = <<>> /\ rest = <<>>
  /\ fed = 0 /\ firstErase = TRUE /\ crossed = FALSE
-----------------------------------------------------------------------------
\* init_crashdump_nand_flash_write.
Open(o) ==
  /\ off' = o
  /\ part' = PartOf(o)
  /\ temp' = <<>>

\* The offset in the environment is a multiple of the block size.
SetupFlash(b) ==
  /\ stage = "setup" /\ mode = "flash"
  /\ home' = b*P
  /\ Open(b*P)
  /\ stage' = "data"
  /\ UNCHANGED <<mode, bad, flash, calls, rest, fed, firstErase, crossed>>

\* Mutant: the data starts where the header goes.
NoDumpOff == 0

InitDumpOff == P

\* The home of the dump is the first good block, its data goes behind it.
SetupNv ==
  /\ stage = "setup" /\ mode = "nvmem"
  /\ Good # {}
  /\ \E b \in Good :
       /\ \A g \in Good : b <= g
       /\ home' = b*P
       /\ Open(b*P + InitDumpOff)
  /\ flash' = [p \in Pages |-> IF Block(p) \in Good THEN Blank ELSE flash[p]]
  /\ stage' = "data"
  /\ UNCHANGED <<mode, bad, calls, rest, fed, firstErase, crossed>>
-----------------------------------------------------------------------------
\* The units k+1 .. k+n of the dump.
Units(k, n) == [i \in 1 .. n |-> k + i]

\* n pages of the units s, behind its first k pages.
Paged(s, k, n) == [i \in 1 .. n |-> [j \in 1 .. W |-> s[(k+i-1)*W + j]]]

\* The first of the n whole pages of s, and the others if there are any.
Batches(s, n) ==
  IF n = 1 THEN <<Paged(s, 0, 1)>> ELSE <<Paged(s, 0, 1), Paged(s, 1, n-1)>>

\* Mutant: what is in temp_data is written again with the next data.
PutTwice(data) ==
  LET all == temp \o data
      n == Len(all) \div W
  IN /\ calls' = Batches(all, n)
     /\ rest' = SubSeq(data, 1, Len(all) - n*W)
     /\ UNCHANGED temp

\* crashdump_nand_flash_write_data of W units or more: the first page is
\* completed and written by itself, the other whole pages at once, and the
\* remainder kept.
PutPages(data) ==
  LET all == temp \o data
      n == Len(all) \div W
  IN /\ calls' = Batches(all, n)
     /\ rest' = SubSeq(all, n*W + 1, Len(all))
     /\ UNCHANGED temp

\* Mutant: a whole page is kept in temp_data.
KeepsPage(n) == n <= W

BelowPage(n) == n < W

WriteData(data) ==
  \/ /\ BelowPage(Len(temp) + Len(data))
     /\ temp' = temp \o data
     /\ UNCHANGED <<calls, rest>>
  \/ /\ ~BelowPage(Len(temp) + Len(data))
     /\ PutPages(data)

\* Mutant: nothing is refused.
AlwaysFits(n) == TRUE

\* DUMP_TO_NVMEM leaves the bad blocks out of part_size.
Fits(n) == mode = "nvmem" => W*P + fed + n <= W*P * Cardinality(Good)

\* One entry of the dump.
Entry(n) ==
  /\ stage = "data" /\ calls = <<>>
  /\ fed + n <= MaxUnits
  /\ Fits(n)
  /\ WriteData(Units(fed, n))
  /\ fed' = fed + n
  /\ UNCHANGED <<mode, stage, bad, flash, home, part, off, firstErase, crossed>>

\* DUMP_TO_NVMEM gives up without a header.
EntryRefused(n) ==
  /\ stage = "data" /\ calls = <<>>
  /\ fed + n <= MaxUnits
  /\ ~Fits(n)
  /\ stage' = "failed"
  /\ UNCHANGED <<mode, bad, flash, home, part, off, temp, calls, rest, fed,
                 firstErase, crossed>>

\* DUMP_TO_NVMEM: the list of the entries, whose size is not checked before.
WriteList ==
  /\ stage = "data" /\ calls = <<>> /\ mode = "nvmem" /\ fed > 0
  /\ WriteData(Units(fed, ListSize))
  /\ fed' = fed + ListSize
  /\ stage' = "list"
  /\ UNCHANGED <<mode, bad, flash, home, part, off, firstErase, crossed>>

\* deinit_crashdump_nand_flash_write pads the last page.  DUMP_TO_FLASH calls
\* it after a failure as well.
Deinit ==
  /\ calls = <<>>
  /\ \/ stage = "data" /\ mode = "flash" /\ fed > 0 /\ stage' = "closing"
     \/ stage = "aborted" /\ stage' = "aborting"
     \/ stage = "list" /\ stage' = "list_closing"
     \/ stage = "header" /\ stage' = "closing"
  /\ calls' = IF temp = <<>> THEN <<>>
              ELSE << << temp \o [i \in 1 .. W - Len(temp) |-> Pad] >> >>
  /\ rest' = <<>>
  /\ UNCHANGED <<mode, bad, flash, home, part, off, temp, fed, firstErase, crossed>>

\* The header, last, once the dump is known to fit.
PutHeader ==
  /\ stage = "list_closing" /\ calls = <<>>
  /\ Fits(0)
  /\ stage' = "header"
  /\ off' = home /\ part' = PartOf(home)
  /\ temp' = <<Header>>
  /\ UNCHANGED <<mode, bad, flash, home, calls, rest, fed, firstErase, crossed>>

HeaderRefused ==
  /\ stage = "list_closing" /\ calls = <<>>
  /\ ~Fits(0)
  /\ stage' = "failed"
  /\ UNCHANGED <<mode, bad, flash, home, part, off, temp, calls, rest, fed,
                 firstErase, crossed>>
-----------------------------------------------------------------------------
\* One turn of the loop of check_and_write_crashdump_nand_flash.  From the
\* block of the offset on, the first block that is not bad is taken, if the
\* partition has one; an offset inside the block it is in stays.
Todo == Head(calls)

Taken == Min({b \in Block(off) .. B+1 : b \notin bad \/ b*P >= part[2]})
At == IF Taken = Block(off) THEN off ELSE Taken*P

LeavesPartition == part[1] > At \/ At + Len(Todo) >= part[2]

\* Mutant: only the first block of the dump is erased.
EraseOnce == firstErase

EraseNeeded == At % P = 0 \/ firstErase

Erased == [p \in Pages |-> IF EraseNeeded /\ Block(p) = Block(At) THEN Blank ELSE flash[p]]

\* Up to a block is written in one go, wherever in its block it starts.
Length == IF Len(Todo) > P THEN P - (At % P) ELSE Len(Todo)

\* The first k pages of Todo are programmed.
Programmed(k) ==
  [p \in Pages |->
     IF p \notin At .. At + k - 1 THEN Erased[p]
     ELSE IF Block(p) \in bad \/ Erased[p] # Blank THEN Garbled
     ELSE Todo[p - At + 1]]

Strays(k) == \E p \in At .. At + k - 1 :
               Block(p) # Block(At) /\ (Block(p) \in bad \/ Erased[p] # Blank)

TurnDone ==
  /\ calls # <<>> /\ ~LeavesPartition
  /\ flash' = Programmed(Length)
  /\ off' = At + Length
  /\ calls' = IF Length = Len(Todo) THEN Tail(calls)
              ELSE [calls EXCEPT ![1] = SubSeq(@, Length + 1, Len(@))]
  /\ temp' = IF calls' = <<>> THEN rest ELSE temp
  /\ rest' = IF calls' = <<>> THEN <<>> ELSE rest
  /\ firstErase' = (firstErase /\ ~EraseNeeded)
  /\ crossed' = (crossed \/ Strays(Length))
  /\ UNCHANGED <<mode, stage, bad, home, part, fed>>

\* A failure ends the call; what is in temp_data stays.
Abort ==
  /\ calls' = <<>> /\ rest' = <<>>
  /\ stage' = IF stage = "data" /\ mode = "flash" THEN "aborted" ELSE "failed"
  /\ UNCHANGED <<mode, bad, home, part, temp, fed>>

TurnRefused ==
  /\ calls # <<>> /\ LeavesPartition
  /\ off' = At
  /\ Abort
  /\ UNCHANGED <<flash, firstErase, crossed>>

EraseFails ==
  /\ calls # <<>> /\ ~LeavesPartition /\ EraseNeeded
  /\ off' = At
  /\ Abort
  /\ UNCHANGED <<flash, firstErase, crossed>>

\* nand_write reports how many pages it wrote; the offset moves by as many,
\* but not within a longer write.
WriteFails(k) ==
  /\ calls # <<>> /\ ~LeavesPartition /\ k < Length
  /\ flash' = Programmed(k)
  /\ off' = IF Len(Todo) > P THEN At ELSE At + k
  /\ firstErase' = (firstErase /\ ~EraseNeeded)
  /\ crossed' = (crossed \/ Strays(k))
  /\ Abort
-----------------------------------------------------------------------------
Turn == TurnDone \/ TurnRefused \/ EraseFails \/ \E k \in 0 .. P-1 : WriteFails(k)

Next ==
  \/ \E b \in 0 .. B-1 : SetupFlash(b)
  \/ SetupNv
  \/ \E n \in Sizes : Entry(n) \/ EntryRefused(n)
  \/ WriteList \/ Deinit \/ PutHeader \/ HeaderRefused
  \/ Turn

Spec == Init /\ [][Next]_vars
-----------------------------------------------------------------------------
Unit == (1 .. MaxUnits + ListSize) \cup {Header, Pad}
FullPage == [1 .. W -> Unit]

TypeOK ==
  /\ mode \in {"flash", "nvmem"}
  /\ stage \in {"setup", "data", "list", "list_closing", "header", "closing",
                "aborted", "aborting", "failed"}
  /\ bad \subseteq 0 .. B-1
  /\ flash \in [Pages -> {Old, Blank, Garbled} \cup FullPage]
  /\ home \in Pages /\ off \in 0 .. (B+1)*P
  /\ temp \in Seq(Unit) /\ Len(temp) < W
  /\ rest \in Seq(Unit) /\ Len(rest) < W
  /\ calls \in Seq(Seq(FullPage)) /\ Len(calls) \in 0 .. 2
  /\ \A i \in 1 .. Len(calls) : calls[i] # <<>>
  /\ fed \in 0 .. MaxUnits + ListSize
  /\ firstErase \in BOOLEAN /\ crossed \in BOOLEAN

(***************************************************************************)
(* No page behind the partition is erased or written, although a dump in   *)
(* the last good block opens its context at the next partition.            *)
(***************************************************************************)
StaysInPartition == \A p \in Pages : p >= PartEnd => flash[p] = Old

\* Page r of n units and what fills the last page.
Page(r, n) == [j \in 1 .. W |-> IF r*W + j <= n THEN r*W + j ELSE Pad]

\* The good pages from one page up to another.
GoodPages(from, to) == {p \in from .. to-1 : Block(p) \notin bad}
Rank(from, p) == Cardinality(GoodPages(from, p))

(***************************************************************************)
(* The data is in the flash: page after page over the good blocks from a   *)
(* page on, every unit where it belongs, whatever the entries' sizes.      *)
(***************************************************************************)
Stored(from) ==
  /\ fed <= W * Rank(from, PartEnd)
  /\ \A p \in GoodPages(from, PartEnd) :
       Rank(from, p) * W < fed => flash[p] = Page(Rank(from, p), fed)

(***************************************************************************)
(* A dump to flash that reports success can be read back, provided no run  *)
(* of pages strayed from its block into a bad or unerased one.             *)
(***************************************************************************)
DumpReadsBack ==
  mode = "flash" /\ stage = "closing" /\ calls = <<>> /\ ~crossed => Stored(home)

(***************************************************************************)
(* A dump whose header is in the first block is complete, whenever the     *)
(* power goes and whichever write fails, with the same proviso.            *)
(***************************************************************************)
HeaderMeansDump ==
  /\ mode = "nvmem" /\ ~crossed
  /\ flash[home] = <<Header>> \o [i \in 1 .. W-1 |-> Pad]
  => Stored(home + P)

(***************************************************************************)
(* Until a write fails, no page is programmed that was not erased before,  *)
(* except where a run of pages strays from its block.                      *)
(***************************************************************************)
ErasedBeforeWritten ==
  (\E p \in Pages : flash[p] = Garbled) => crossed \/ stage \in {"aborting", "failed"}

(***************************************************************************)
(* What the comment above check_and_write_crashdump_nand_flash says: the   *)
(* function "checks if the block is non-bad, and skips if bad", so no page *)
(* of a bad block is written.                                              *)
(***************************************************************************)
BadBlocksSkipped ==
  [][\A p \in Pages : Block(p) \in bad => flash'[p] = flash[p]]_vars
=============================================================================
