----------------------------- MODULE MCQpicNand -----------------------------
(* Either the controller is brought up, or calls are made of it once it is: *)
(* the two share no state but the registers that stay as they were left.    *)
EXTENDS QpicNand

CONSTANTS Phases, Freqs, TrainBlks
VARIABLES task, step, chip, prot, feat, quad, blkCnt, fb, rate, phase, index, tries, passed, blind

Start == INSTANCE NandStart
ASSUME StartIs == Start!StartAssumption
startVars == <<step, chip, prot, feat, quad, blkCnt, fb, rate, phase, index, tries, passed, blind>>

AtRest ==
  /\ step = "ready" /\ chip = [winbond |-> FALSE, check |-> FALSE]
  /\ prot = FALSE /\ feat = {} /\ quad = TRUE /\ blind = FALSE
  /\ blkCnt = 0 /\ fb = TRUE /\ rate = Freqs /\ phase = 0
  /\ index = Freqs - 1 /\ tries = Freqs /\ passed = {}

MCInit ==
  /\ Init
  /\ \/ task = "calls" /\ AtRest
     \/ task = "start" /\ bad = {} /\ ~gaveUp /\ Start!Init

MCNext ==
  /\ UNCHANGED task
  /\ \/ task = "calls" /\ Next /\ UNCHANGED startVars
     \/ task = "start" /\ Start!Next /\ UNCHANGED vars

MCSpec == MCInit /\ [][MCNext]_<<task, vars, startVars>>

\* The types of both.
MCTypeOK == TypeOK /\ Start!TypeOK
\* The flash is only put to use configured (qti_spi_nand_config).
ReadyConfigured == Start!ReadyConfigured
\* However the training ends, the clock is one that works
\* (qti_serial_training).
ReadyClock == Start!ReadyClock
=============================================================================
