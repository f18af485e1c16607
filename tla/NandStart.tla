----------------------------- MODULE NandStart -----------------------------
(***************************************************************************)
(* How the QPIC NAND controller is brought up (qti_nand_probe of           *)
(* drivers/mtd/nand/raw/qcom_nand.c): the flash is identified and its      *)
(* feature registers set, and the serial clock is then trained: at each    *)
(* frequency, from the highest down, a page is read with every phase of    *)
(* the clock and the middle of the phases that read it is kept.            *)
(*                                                                         *)
(* Reading a feature register may fail; the driver keeps the negative      *)
(* error in an unsigned variable, so that it reads as all bits set.        *)
(***************************************************************************)
EXTENDS Integers, FiniteSets

CONSTANTS
  Phases,     \* TOTAL_NUM_PHASE
  Freqs,      \* entries of io_macro_freq_tbl
  TrainBlks   \* MAXIMUM_ALLOCATED_TRAINING_BLOCK

\* What the constants are.
StartAssumption ==
  Phases \in Nat \ {0, 1, 2} /\ Freqs \in Nat \ {0} /\ TrainBlks \in Nat \ {0}

VARIABLES
  step,       \* where qti_nand_probe is
  chip,       \* the flash: Winbond or not, quad mode to be checked or not
  prot,       \* its block protection register
  feat,       \* its feature register
  quad,       \* nandc->quad_mode
  blkCnt,     \* training blocks found bad
  fb,         \* FB_CLK_BIT: the feedback clock, for the untrained rate
  rate,       \* the clock: an index into the table, or Freqs by default
  phase,      \* the phase of all lines, 0 when not set
  index,      \* the table entry tried
  tries,      \* training_seq_cnt
  passed,     \* the phases that read the training page
  blind       \* history: a feature register could not be read

cfgVars   == <<chip, prot, feat, quad, blind>>
trainVars == <<blkCnt, fb, rate, phase, index, tries, passed>>
vars == <<step, cfgVars, trainVars>>

DefaultRate == Freqs
AllBits == {"ecc", "buff", "quad", "otp"}
Ph == 1 .. Phases

\* qti_bam_init's result is not looked at; qti_spi_init turns the feedback
\* clock on.
Init ==
  /\ step = "scan"
  /\ chip \in [winbond : BOOLEAN, check : BOOLEAN]
  /\ prot \in BOOLEAN /\ feat \in SUBSET {"ecc", "buff", "quad"}
  /\ quad = FALSE /\ blind = FALSE
  /\ blkCnt = 0 /\ fb = TRUE /\ rate = DefaultRate /\ phase = 0
  /\ index = Freqs - 1 /\ tries = Freqs /\ passed = {}
-----------------------------------------------------------------------------
(* Identification and configuration *)

\* The flash is found in the table by its identifier, or is not known.  Its
\* entry says that quad mode is to be checked, or is given, or neither.
Identify ==
  /\ step = "scan"
  /\ \/ step' = "config" /\ quad' \in (IF chip.check THEN {FALSE} ELSE BOOLEAN)
     \/ step' = "failed" /\ UNCHANGED quad
  /\ UNCHANGED <<chip, prot, feat, blind, trainVars>>

\* The configurations of the reads and writes are worked out; a page or an
\* error correction that is not supported ends it.
SaveConfig ==
  /\ step = "config"
  /\ step' \in {"unlock", "failed"}
  /\ UNCHANGED <<cfgVars, trainVars>>

\* What is read of a register, and what it holds once it was written.
Reg(f) == {[val |-> f, ok |-> TRUE], [val |-> AllBits, ok |-> FALSE]}
Flag(p) == {[val |-> p, ok |-> TRUE], [val |-> TRUE, ok |-> FALSE]}
Written(old, new) == {old, new}

\* Blocks are unlocked, and the register read again.
Unlock ==
  /\ step = "unlock"
  /\ \E r \in Flag(prot) :
       \/ /\ ~r.val
          /\ step' = "ecc" /\ UNCHANGED <<prot, blind>>
       \/ /\ r.val
          /\ prot' \in Written(prot, FALSE)
          /\ \E s \in Flag(prot') :
               /\ step' = IF s.val THEN "failed" ELSE "ecc"
               /\ blind' = (blind \/ ~r.ok \/ ~s.ok)
  /\ UNCHANGED <<chip, feat, quad, trainVars>>

\* Mutant: the register is not read again.
InternalEccTrusting ==
  /\ step = "ecc"
  /\ \E r \in Reg(feat) :
       /\ feat' \in IF "ecc" \in r.val THEN Written(feat, r.val \ {"ecc"}) ELSE {feat}
       /\ blind' = (blind \/ ~r.ok)
  /\ step' = "buffer"
  /\ UNCHANGED <<chip, prot, quad, trainVars>>

\* The flash's own error correction is switched off, and the register read
\* again.
InternalEcc ==
  /\ step = "ecc"
  /\ \E r \in Reg(feat) :
       \/ /\ "ecc" \notin r.val
          /\ step' = "buffer" /\ UNCHANGED <<feat, blind>>
       \/ /\ "ecc" \in r.val
          /\ feat' \in Written(feat, r.val \ {"ecc"})
          /\ \E s \in Reg(feat') :
               /\ step' = IF "ecc" \in s.val THEN "failed" ELSE "buffer"
               /\ blind' = (blind \/ ~r.ok \/ ~s.ok)
  /\ UNCHANGED <<chip, prot, quad, trainVars>>

\* Winbond's continuous buffer mode; nothing is read again.
BufferMode ==
  /\ step = "buffer"
  /\ \/ /\ chip.winbond
        /\ \E r \in Reg(feat) :
             /\ feat' \in IF "buff" \in r.val THEN {feat} ELSE Written(feat, r.val \cup {"buff"})
             /\ blind' = (blind \/ ~r.ok)
     \/ ~chip.winbond /\ UNCHANGED <<feat, blind>>
  /\ step' = "quad"
  /\ UNCHANGED <<chip, prot, quad, trainVars>>

\* The quad bit is set by writing it alone: the buffer bit goes.
QuadMode ==
  /\ step = "quad"
  /\ \/ ~chip.check /\ UNCHANGED <<feat, quad, blind>>
     \/ /\ chip.check
        /\ \E r \in Reg(feat) :
             \/ "quad" \in r.val /\ quad' = TRUE /\ blind' = (blind \/ ~r.ok) /\ UNCHANGED feat
             \/ /\ "quad" \notin r.val
                /\ feat' \in Written(feat, {"quad"})
                /\ \E s \in Reg(feat') :
                     quad' = ("quad" \in s.val) /\ blind' = (blind \/ ~s.ok)
  /\ step' = "register"
  /\ UNCHANGED <<chip, prot, trainVars>>

\* Buffers are allocated and the device registered; the device tree says
\* whether there is a training to do, and up to which frequency.
Register ==
  /\ step = "register"
  /\ \/ step' = "failed" /\ UNCHANGED <<index, tries>>
     \/ step' = "ready" /\ UNCHANGED <<index, tries>>
     \/ step' = "blocks" /\ index' \in 0 .. Freqs - 1 /\ tries' = index' + 1
  /\ UNCHANGED <<cfgVars, blkCnt, fb, rate, phase, passed>>
-----------------------------------------------------------------------------
(* Training *)

GiveUp == step' = "fallback"

SkipBadBlock ==
  /\ step = "blocks" /\ blkCnt < TrainBlks
  /\ blkCnt' = blkCnt + 1
  /\ step' = IF blkCnt' = TrainBlks THEN "fallback" ELSE "blocks"
  /\ UNCHANGED <<cfgVars, fb, rate, phase, index, tries, passed>>

\* No training partition, or the block cannot be erased or written, or is
\* not read without an error; a correction counts as one.
PrepareFails == step = "blocks" /\ GiveUp /\ UNCHANGED <<cfgVars, trainVars>>

\* The page reads, but not as it was written: the clock is left as it is.
PrepareDiffers == step = "blocks" /\ step' = "ready" /\ UNCHANGED <<cfgVars, trainVars>>

Prepare ==
  /\ step = "blocks"
  /\ fb' = FALSE /\ rate' = index /\ step' = "phases"
  /\ UNCHANGED <<cfgVars, blkCnt, phase, index, tries, passed>>

\* Mutant: two neighbours are enough.
CentersLoose(s) == {p \in s : p - 1 \in s}

\* The phases in the middle of three in a row.
Centers(s) == {p \in s : p - 1 \in s /\ p + 1 \in s}

MiddleOf(s) ==
  CHOOSE p \in s : Cardinality({q \in s : q < p}) = (Cardinality(s) - 1) \div 2

SetPhase(p) == IF p \in Ph THEN p ELSE phase

\* All phases of one frequency: set, read, compare.
TryPhases ==
  /\ step = "phases" /\ passed = {} /\ phase # Phases
  /\ passed' \in SUBSET Ph
  /\ phase' = SetPhase(Phases)
  /\ UNCHANGED <<step, cfgVars, blkCnt, fb, rate, index, tries>>

\* A read returns an error, or a number of corrected bits.
TrialReadFails ==
  /\ step = "phases" /\ passed = {} /\ phase # Phases
  /\ phase' \in Ph
  /\ GiveUp
  /\ UNCHANGED <<cfgVars, blkCnt, fb, rate, index, tries, passed>>

Select ==
  /\ step = "phases" /\ Centers(passed) # {}
  /\ phase' = SetPhase(MiddleOf(Centers(passed)))
  /\ step' = "ready"
  /\ UNCHANGED <<cfgVars, blkCnt, fb, rate, index, tries, passed>>

\* Without three phases in a row the count of them less one is unsigned, and
\* the choice reads far outside the array: whatever lies there, of which
\* qti_set_phase refuses what is no phase, or a fault.
SelectOutside ==
  /\ step = "phases" /\ Cardinality(passed) > 1 /\ Centers(passed) = {}
  /\ \/ step' = "ready" /\ \E p \in 0 .. Phases + 1 : phase' = SetPhase(p)
     \/ step' = "lost" /\ UNCHANGED phase
  /\ UNCHANGED <<cfgVars, blkCnt, fb, rate, index, tries, passed>>

\* With one phase the bound of the loop, which is compared as unsigned, is
\* UINT_MAX: it runs through memory and over the array it writes.
SelectOverruns ==
  /\ step = "phases" /\ Cardinality(passed) = 1
  /\ step' = "lost"
  /\ UNCHANGED <<cfgVars, trainVars>>

\* Mutant: the count of the frequencies left is not kept.
LowerUncounted ==
  /\ step = "phases" /\ passed = {} /\ phase = Phases
  /\ index' = index - 1 /\ rate' = index' /\ phase' = 0
  /\ UNCHANGED <<step, cfgVars, blkCnt, fb, passed, tries>>

\* No phase read the page: the next lower frequency, if there is one.  The
\* entry in front of the table is read, but not used.
Lower ==
  /\ step = "phases" /\ passed = {} /\ phase = Phases
  /\ index' = index - 1 /\ tries' = tries - 1
  /\ \/ tries' > 0 /\ rate' = index' /\ phase' = 0 /\ UNCHANGED step
     \/ tries' = 0 /\ GiveUp /\ UNCHANGED <<rate, phase>>
  /\ UNCHANGED <<cfgVars, blkCnt, fb, passed>>

\* The training failed: back to the default rate.
Fallback ==
  /\ step = "fallback"
  /\ fb' = TRUE /\ rate' = DefaultRate /\ phase' = 0
  /\ step' = "ready"
  /\ UNCHANGED <<cfgVars, blkCnt, index, tries, passed>>

\* qti_nand_deinit, before the kernel takes over.
Deinit ==
  /\ step = "ready"
  /\ step' = "removed"
  /\ UNCHANGED <<cfgVars, trainVars>>
-----------------------------------------------------------------------------
Next ==
  \/ Identify \/ SaveConfig \/ Unlock \/ InternalEcc \/ BufferMode \/ QuadMode \/ Register
  \/ SkipBadBlock \/ PrepareFails \/ PrepareDiffers \/ Prepare
  \/ TryPhases \/ TrialReadFails \/ Select \/ SelectOutside \/ SelectOverruns
  \/ Lower \/ Fallback \/ Deinit

Spec == Init /\ [][Next]_vars
-----------------------------------------------------------------------------
TypeOK ==
  /\ step \in {"scan", "config", "unlock", "ecc", "buffer", "quad", "register", "blocks",
               "phases", "fallback", "ready", "failed", "lost", "removed"}
  /\ chip \in [winbond : BOOLEAN, check : BOOLEAN]
  /\ prot \in BOOLEAN /\ feat \subseteq AllBits /\ quad \in BOOLEAN /\ blind \in BOOLEAN
  /\ blkCnt \in 0 .. TrainBlks /\ fb \in BOOLEAN /\ rate \in 0 .. Freqs
  /\ phase \in 0 .. Phases /\ passed \subseteq Ph
  /\ tries \in 0 .. Freqs /\ index = tries - 1

(***************************************************************************)
(* When the flash is put to use, its blocks are unlocked and its own error *)
(* correction is off, although the driver never notices that a command for *)
(* the feature registers failed; and it is read over four lines only if    *)
(* its quad bit is set, unless one of those commands failed                *)
(* (qti_spi_nand_config).                                                  *)
(***************************************************************************)
ReadyConfigured ==
  step \in {"register", "blocks", "phases", "fallback", "ready"} =>
    /\ ~prot /\ "ecc" \notin feat
    /\ chip.check /\ quad /\ ~blind => "quad" \in feat

(***************************************************************************)
(* However the training ends, the clock is one that works: the default     *)
(* rate with its feedback clock, or the highest rate at which any phase    *)
(* read the page, at a phase whose two neighbours read it as well, if      *)
(* there is one.  Without one the training does not always end: it may be  *)
(* lost outside its arrays, with a single phase for sure                   *)
(* (qti_serial_training, qti_find_most_appropriate_phase, qti_nand_probe). *)
(***************************************************************************)
ReadyClock ==
  step = "ready" =>
    \/ fb /\ rate = DefaultRate /\ phase = 0
    \/ /\ ~fb /\ rate = index /\ index \in 0 .. Freqs - 1 /\ Cardinality(passed) > 1
       /\ Centers(passed) # {} => {phase - 1, phase, phase + 1} \subseteq passed
=============================================================================
