------------------------------ MODULE QpicNand ------------------------------
(***************************************************************************)
(* The QPIC NAND controller's reads, writes and erases                     *)
(* (drivers/mtd/nand/raw/qcom_nand.c).                                     *)
(*                                                                         *)
(* A page is CW codewords, each with an error correction of its own.       *)
(* Pages are read in batches of at most MaxMulti; the controller leaves    *)
(* the status of every codeword of the batch in one buffer, which the      *)
(* driver then walks.  A codeword the controller calls uncorrectable may   *)
(* be an erased one with a few flipped bits: the page is read again, raw,  *)
(* to tell.  Every wait for the controller gives up after two seconds and  *)
(* nobody looks at its result.  The interrupt it waited for stays latched  *)
(* when it comes, and ends the next wait on its pipe before that wait's    *)
(* own descriptors have run; so does one that was never waited for.        *)
(*                                                                         *)
(* Offsets and lengths count units of Unit-th parts of a page.             *)
(***************************************************************************)
EXTENDS Naturals, Sequences, FiniteSets

CONSTANTS
  CW,          \* cws_per_page
  Unit,        \* units in a page (mtd->writesize)
  MaxMulti,    \* MAX_MULTI_PAGE
  MaxTo,       \* bound: the offset of a read
  Size,        \* mtd->size, in units
  Blocks,      \* mtd->size, in erase blocks
  CwSeen,      \* the conditions of codewords that reads meet
  EraseSeen    \* how the flash answers an erase

Conditions == {"data", "blank", "fixed", "weak", "lost", "fault"}

ASSUME QpicAssumption ==
  /\ CW \in Nat \ {0} /\ Unit \in Nat \ {0} /\ MaxMulti \in Nat \ {0, 1}
  /\ MaxTo \in Nat /\ Size \in Nat /\ Blocks \in Nat
  /\ CwSeen \subseteq Conditions
  /\ EraseSeen \subseteq {"done", "operr", "failbit"}

VARIABLES
  op,       \* the call: "none", "read", "readoob", "erase", "write"
  pc,       \* "idle", "batch", "judge", "copy", "erase", "write", "return"
  to, len,  \* arguments of the call
  left,     \* num_pages, or the blocks or pages still to do
  retlen,   \* ops->retlen
  truth,    \* the codewords of the batch as they are on the flash
  status,   \* status_buff, an entry for each codeword
  at,       \* tmp_status_buffer, the entry to look at
  page, cw, \* j and i of the loop over the statuses
  unc,      \* uncorrectable_err_cws
  got,      \* what the page function returns
  worst,    \* max_bitflips of the call
  failed,   \* mtd->ecc_stats.failed, counted from the start of the call
  scrub,    \* instr->scrub
  bad,      \* blocks whose first page carries the bad block mark
  erased,   \* history: blocks this call erased
  unmarked, \* history: blocks whose mark could not be written
  placed,   \* history: all data went where the caller wants it
  owed,     \* history: an error its status is looked at for was read
  gaveUp,   \* history: a wait has given up, in this call or earlier
  stray,    \* history: the data of a read was not waited for
  result    \* what the call returns

readVars  == <<truth, status, at, page, cw, unc, got, worst, failed, placed, owed>>
eraseVars == <<scrub, bad, erased, unmarked>>
lateVars  == <<gaveUp, stray>>
vars == <<op, pc, to, len, left, retlen, readVars, eraseVars, lateVars, result>>

Cws == 1 .. CW
NoPage == [c \in Cws |-> "blank"]
LessOf(a, b) == IF a < b THEN a ELSE b

Init ==
  /\ op = "none" /\ pc = "idle" /\ to = 0 /\ len = 0 /\ left = 0 /\ retlen = 0
  /\ truth = <<NoPage>> /\ status = <<>> /\ at = 1 /\ page = 1 /\ cw = 1
  /\ unc = {} /\ got = "clean" /\ worst = "clean" /\ failed = 0
  /\ scrub = FALSE /\ erased = {} /\ unmarked = {}
  /\ bad \in SUBSET (0 .. Blocks-1)
  /\ placed = TRUE /\ owed = FALSE /\ result = "none"
  /\ gaveUp \in BOOLEAN /\ stray = FALSE
-----------------------------------------------------------------------------
(* Reading *)

PageCount(t, n) == ((t + n - 1) \div Unit) - (t \div Unit) + 1

\* qti_read_page_scope reads in batches, qti_nandc_read_oob page by page.
ReadCall(t, n) ==
  /\ pc = "idle" /\ t + n <= Size
  /\ op' \in {"read", "readoob"} /\ to' = t /\ len' = n /\ left' = PageCount(t, n)
  /\ pc' = "batch"
  /\ UNCHANGED <<retlen, readVars, eraseVars, lateVars, result>>

Column == IF retlen = 0 THEN to % Unit ELSE 0
Multi == op = "read" /\ left > 1
Batch == IF Multi THEN LessOf(left, MaxMulti) ELSE 1

\* Mutant: only the errors of the last batch count.
LastOf(a, b) == b

\* Values of max_bitflips, which is unsigned: an error is the largest of them.
WorseOf(a, b) ==
  IF "EIO" \in {a, b} THEN "EIO" ELSE IF "flips" \in {a, b} THEN "flips" ELSE "clean"

\* What qti_nandc_check_read_status makes of a codeword's status.
Report(c) ==
  CASE c \in {"data", "blank"} -> "clean"
    [] c = "fixed"             -> "flips"
    [] c \in {"weak", "lost"}  -> "EBADMSG"
    [] c = "fault"             -> "EIO"

\* The status buffer when the controller has finished the first k codewords:
\* it was zeroed before, and zero reads as success.
StatusBuffer(t, k) ==
  [e \in 1 .. Len(t) * CW |->
     IF e <= k THEN Report(t[((e - 1) \div CW) + 1][((e - 1) % CW) + 1]) ELSE "clean"]

\* qti_read_page waits for the data, and the status of the last codeword comes
\* by a command behind them.
Awaited(c) == op = "read" \/ c # CW

\* The statuses of a page are lost when an earlier page of the batch is read
\* again; and a batch passes over those behind an uncorrectable codeword, of
\* which the raw read does not wait for the last.
Hidden(t, p, c) ==
  \/ \E q \in 1 .. p - 1 : \E d \in Cws : t[q][d] = "weak"
  \/ Multi /\ c = CW /\ t[p][c] = "fault" /\ \E d \in Cws : t[p][d] \in {"weak", "lost"}

Owing(t) ==
  \E p \in DOMAIN t, c \in Cws :
    Awaited(c) /\ ~Hidden(t, p, c) /\ t[p][c] \in {"lost", "fault"}

\* q_bam_wait_for_interrupt; nobody looks at what it returns.
Waits == gaveUp' \in {gaveUp, TRUE}

\* The codewords of the batch are whatever the flash holds.
Queue(n) ==
  /\ pc = "batch" /\ Waits
  /\ \E t \in [1 .. n -> [Cws -> CwSeen]], k \in 0 .. n * CW :
       /\ k = n * CW \/ gaveUp' \/ (op = "readoob" /\ (stray \/ k = n * CW - 1))
       /\ truth' = t /\ status' = StatusBuffer(t, k)
       /\ owed' = (owed \/ Owing(t))
  /\ at' = 1 /\ page' = 1 /\ cw' = 1 /\ unc' = {} /\ got' = "clean"
  /\ pc' = "judge"
  /\ UNCHANGED <<op, to, len, left, retlen, worst, failed, placed, eraseVars, stray, result>>

\* All descriptors of the batch are queued, then one command.
ReadMulti == Multi /\ Queue(Batch)

\* One page, a command for each codeword.
ReadPage == op = "read" /\ ~Multi /\ Queue(1)

\* The same, with the statuses read by commands.
ReadPageOob == op = "readoob" /\ Queue(1)

JudgeFine ==
  /\ pc = "judge" /\ cw <= CW
  /\ status[at] \in {"clean", "flips"}
  /\ got' = WorseOf(got, status[at])
  /\ at' = at + 1 /\ cw' = cw + 1
  /\ UNCHANGED <<op, pc, to, len, left, retlen, truth, status, page, unc, worst,
                 failed, placed, owed, eraseVars, lateVars, result>>

\* In a batch, the loop goes on without moving on in the status buffer.
JudgeUncorrectable ==
  /\ pc = "judge" /\ cw <= CW
  /\ status[at] = "EBADMSG"
  /\ unc' = unc \cup {cw}
  /\ at' = (IF Multi THEN at ELSE at + 1) /\ cw' = cw + 1
  /\ UNCHANGED <<op, pc, to, len, left, retlen, truth, status, page, got, worst,
                 failed, placed, owed, eraseVars, lateVars, result>>

\* Any other error ends the batch.
JudgeFault ==
  /\ pc = "judge" /\ cw <= CW
  /\ status[at] = "EIO"
  /\ got' = "EIO" /\ pc' = "copy"
  /\ UNCHANGED <<op, to, len, left, retlen, truth, status, at, page, cw, unc, worst,
                 failed, placed, owed, eraseVars, lateVars, result>>

NextPage ==
  /\ page' = page + 1 /\ cw' = 1
  /\ pc' = IF page = Batch THEN "copy" ELSE "judge"

PageFine ==
  /\ pc = "judge" /\ cw > CW /\ unc = {}
  /\ NextPage
  /\ UNCHANGED <<op, to, len, left, retlen, truth, status, at, unc, got, worst,
                 failed, placed, owed, eraseVars, lateVars, result>>

\* Codewords with more zeros than the correction could repair.
NotErased == {c \in unc : truth[page][c] \notin {"blank", "weak"}}

\* What a raw read leaves: no error, and zeros after its page.
RawStatus == [e \in DOMAIN status |-> "clean"]

\* The page is read raw by qti_read_page, through the same status buffer, and
\* its codewords counted failed unless they are erased; what is read of one
\* that cannot be read may look like either.  unc is kept for the next page.
CheckErased ==
  /\ pc = "judge" /\ cw > CW /\ unc # {} /\ Waits
  /\ \/ /\ \A c \in Cws \ {CW} : truth[page][c] # "fault"
        /\ \E unclear \in SUBSET {c \in NotErased : truth[page][c] = "fault"} :
             failed' = failed + Cardinality(NotErased \ unclear)
     \/ (gaveUp' \/ stray) /\ failed' \in failed .. failed + Cardinality(unc)
  /\ status' = RawStatus
  /\ got' = WorseOf(got, "flips")
  /\ NextPage
  /\ UNCHANGED <<op, to, len, left, retlen, truth, at, unc, worst, placed, owed,
                 eraseVars, stray, result>>

\* The raw read fails, for one of the codewords.
CheckErasedFails ==
  /\ pc = "judge" /\ cw > CW /\ unc # {}
  /\ \E c \in Cws : truth[page][c] = "fault"
  /\ got' = "EIO" /\ pc' = "copy"
  /\ UNCHANGED <<op, to, len, left, retlen, truth, status, at, page, cw, unc, worst,
                 failed, placed, owed, eraseVars, lateVars, result>>

Remaining == IF retlen <= len THEN len - retlen ELSE Batch * Unit

\* Mutant: every read counts whole pages.
DataLenWhole == Batch * Unit

\* What qti_nandc_read_datcopy adds to retlen.
DataLen ==
  IF Multi THEN Batch * Unit
  ELSE IF Column = 0 /\ Remaining >= Unit THEN Unit
  ELSE LessOf(Remaining, Unit - Column)

\* The page function's locals end with it.
DropLocals ==
  /\ truth' = <<NoPage>> /\ status' = <<>> /\ at' = 1 /\ page' = 1 /\ cw' = 1
  /\ unc' = {} /\ got' = "clean"

\* A page function's error is only recorded, as a number of bit flips.  A
\* batch read into the one-page pad buffer is not copied out of it, and one
\* longer than the rest of the request runs past the caller's buffer.
CopyBatch ==
  /\ pc = "copy"
  /\ worst' = WorseOf(worst, got)
  /\ retlen' = retlen + DataLen
  /\ placed' = (placed /\ (Multi => Column = 0 /\ Remaining >= Batch * Unit))
  /\ left' = left - Batch
  /\ pc' = IF left = Batch THEN "return" ELSE "batch"
  /\ result' = IF failed > 0 THEN "EBADMSG" ELSE WorseOf(worst, got)
  /\ DropLocals
  /\ UNCHANGED <<op, to, len, failed, owed, eraseVars, lateVars>>
-----------------------------------------------------------------------------
(* Erasing and writing *)

EraseCall(b, n, s) ==
  /\ pc = "idle" /\ b + n <= Blocks
  /\ op' = "erase" /\ to' = b /\ len' = n /\ left' = n /\ scrub' = s
  /\ pc' = "erase"
  /\ UNCHANGED <<retlen, readVars, bad, erased, unmarked, lateVars, result>>

Block == to + len - left

NextBlock == left' = left - 1 /\ pc' = IF left = 1 THEN "return" ELSE "erase"

\* A bad block, or one whose mark cannot be read, ends the call; in the last
\* case the data pipe is not waited for.
EraseRefused ==
  /\ pc = "erase" /\ ~scrub /\ Waits
  /\ \/ (Block \in bad \/ gaveUp' \/ stray) /\ UNCHANGED stray
     \/ ("operr" \in EraseSeen \/ gaveUp') /\ stray' = TRUE
  /\ result' = "EIO" /\ pc' = "return"
  /\ UNCHANGED <<op, to, len, left, retlen, readVars, eraseVars>>

EraseAllowed == pc = "erase" /\ Waits /\ (scrub \/ Block \notin bad \/ gaveUp' \/ stray)

\* What the flash made of the erase; after a wait that gave up it may not have
\* got to it, and the status may be that of another command.
EraseAnswers == EraseSeen \cup IF gaveUp' THEN {"none"} ELSE {}

\* An erased block has lost its mark.
BadAfter(s) == IF s = "done" THEN bad \ {Block} ELSE bad
ErasedAfter(s) == IF s = "done" THEN erased \cup {Block} ELSE erased

\* Mutant: check_status looks at the errors of a read only.
EraseStatusBlind(s) == "clean"

\* What check_status makes of the answer; PROG_ERASE_OP_RESULT is not among
\* the bits it looks at, and is tested in its result afterwards.
EraseStatus(s) == IF s = "operr" THEN "EIO" ELSE "clean"

EraseDone ==
  /\ EraseAllowed
  /\ \E s \in EraseAnswers :
       /\ EraseStatus(s) = "clean" \/ gaveUp'
       /\ erased' = ErasedAfter(s) /\ bad' = BadAfter(s)
  /\ result' = "clean"
  /\ NextBlock
  /\ UNCHANGED <<op, to, len, retlen, readVars, scrub, unmarked, stray>>

\* The first page of the block is written with zeros to mark it, which may
\* fail, and the loop goes on: a later block's success is the result of the call.
EraseFailed ==
  /\ EraseAllowed
  /\ \E s \in EraseAnswers :
       /\ EraseStatus(s) = "EIO" \/ gaveUp'
       /\ erased' = ErasedAfter(s)
       /\ \/ bad' = bad \cup {Block} /\ UNCHANGED unmarked
          \/ bad' = BadAfter(s) /\ unmarked' = unmarked \cup {Block}
  /\ result' = "EIO"
  /\ NextBlock
  /\ UNCHANGED <<op, to, len, retlen, readVars, scrub, stray>>

WriteCall(t, n) ==
  /\ pc = "idle" /\ t + n <= Size /\ t % Unit = 0 /\ n % Unit = 0
  /\ op' = "write" /\ to' = t /\ len' = n /\ left' = n \div Unit
  /\ pc' = "write"
  /\ UNCHANGED <<retlen, readVars, eraseVars, lateVars, result>>

\* The data descriptors and, one by one, the commands of the codewords.
WritePage ==
  /\ pc = "write" /\ Waits
  /\ retlen' = retlen + Unit /\ left' = left - 1 /\ result' = "clean"
  /\ pc' = IF left = 1 THEN "return" ELSE "write"
  /\ UNCHANGED <<op, to, len, readVars, eraseVars, stray>>

\* The status of a codeword is replaced by what check_status made of it, and
\* checked a second time: any error is then EPERM.  Later pages are not written.
WriteFails ==
  /\ pc = "write" /\ Waits
  /\ result' = "EPERM" /\ pc' = "return"
  /\ UNCHANGED <<op, to, len, left, retlen, readVars, eraseVars, stray>>

\* Past the end, or not aligned.
Refuse ==
  /\ pc = "idle"
  /\ result' = "EINVAL" /\ pc' = "return"
  /\ UNCHANGED <<op, to, len, left, retlen, readVars, eraseVars, lateVars>>

Return ==
  /\ pc = "return"
  /\ pc' = "idle"
  /\ op' = "none" /\ to' = 0 /\ len' = 0 /\ left' = 0 /\ retlen' = 0
  /\ DropLocals
  /\ worst' = "clean" /\ failed' = 0 /\ placed' = TRUE /\ owed' = FALSE
  /\ scrub' = FALSE /\ erased' = {} /\ unmarked' = {}
  /\ result' = "none"
  /\ UNCHANGED <<bad, lateVars>>
-----------------------------------------------------------------------------
Next ==
  \/ \E t \in 0 .. MaxTo, n \in 1 .. Size : ReadCall(t, n) \/ WriteCall(t, n)
  \/ \E b \in 0 .. Blocks, n \in 1 .. Blocks, s \in BOOLEAN : EraseCall(b, n, s)
  \/ ReadMulti \/ ReadPage \/ ReadPageOob \/ JudgeFine \/ JudgeUncorrectable \/ JudgeFault
  \/ PageFine \/ CheckErased \/ CheckErasedFails \/ CopyBatch
  \/ EraseRefused \/ EraseDone \/ EraseFailed
  \/ WritePage \/ WriteFails \/ Refuse \/ Return

Spec == Init /\ [][Next]_vars
-----------------------------------------------------------------------------
TypeOK ==
  /\ op \in {"none", "read", "readoob", "erase", "write"}
  /\ pc \in {"idle", "batch", "judge", "copy", "erase", "write", "return"}
  /\ to \in Nat /\ len \in Nat /\ left \in Nat /\ retlen \in Nat
  /\ truth \in Seq([Cws -> Conditions])
  /\ status \in Seq({"clean", "flips", "EBADMSG", "EIO"})
  /\ at \in 1 .. Len(status) + 1 /\ page \in Nat \ {0} /\ cw \in 1 .. CW + 1
  /\ pc = "judge" => page <= Len(truth) /\ Len(truth) = Batch /\ (page - 1) * CW + cw >= at
  /\ pc = "judge" => Len(status) = Len(truth) * CW
  /\ unc \subseteq Cws /\ failed \in Nat
  /\ got \in {"clean", "flips", "EIO"} /\ worst \in {"clean", "flips", "EIO"}
  /\ scrub \in BOOLEAN /\ placed \in BOOLEAN /\ owed \in BOOLEAN
  /\ gaveUp \in BOOLEAN /\ stray \in BOOLEAN
  /\ bad \subseteq 0 .. Blocks-1 /\ erased \subseteq 0 .. Blocks-1
  /\ unmarked \subseteq 0 .. Blocks-1
  /\ pc \in {"batch", "judge", "copy", "erase", "write"} => left > 0
  /\ pc = "erase" => Block \in 0 .. Blocks-1
  /\ result \in {"none", "clean", "flips", "EBADMSG", "EIO", "EPERM", "EINVAL"}

(***************************************************************************)
(* A read that returns no error delivered no codeword that was lost and    *)
(* none whose read failed, although the loop over the pages goes on after  *)
(* an error and although an error is kept as a number of bit flips.  Four  *)
(* cases are left out, in which the code does return success for lost      *)
(* data.  A wait has given up, in this call or earlier: the zeroed status  *)
(* buffer reads as success, and the late interrupt ends the next wait too  *)
(* early.  The read of a bad block mark failed earlier and left its        *)
(* interrupt to a read that waits for data only.  The last codeword of a   *)
(* page that qti_read_page reads: its status is not waited for.  And in a  *)
(* batch what is behind a codeword called uncorrectable that is erased:    *)
(* the statuses of its page are passed over, and reading it again          *)
(* overwrites those of later pages (qti_nandc_multi_page_read,             *)
(* qti_read_page, q_bam_wait_for_interrupt).                               *)
(***************************************************************************)
NoLossUnreported ==
  pc = "return" /\ owed /\ ~gaveUp /\ ~stray => result \in {"EBADMSG", "EIO"}

(***************************************************************************)
(* A read of whole pages, and any read of one page, puts the data where    *)
(* the caller wants it and counts exactly what it asked for, in whatever   *)
(* batches it is done (qti_read_page_scope, qti_nandc_read_datcopy).       *)
(***************************************************************************)
DeliversRequest ==
  /\ pc = "return" /\ op \in {"read", "readoob"}
  /\ (to % Unit = 0 /\ len % Unit = 0) \/ PageCount(to, len) = 1
  => placed /\ retlen = len

(***************************************************************************)
(* Of the blocks an erase has passed, each one was erased, or is marked    *)
(* bad, or could not be marked either: a failure that a later block's      *)
(* success hides from the caller is still on the flash (qti_nandc_erase).  *)
(* Once a wait has given up a stale status may pass for the erase's.       *)
(***************************************************************************)
FailedEraseMarked ==
  op = "erase" /\ ~gaveUp => \A b \in to .. Block - 1 : b \in erased \cup bad \cup unmarked
=============================================================================
