------------------------------ MODULE MCNorBlk ------------------------------
(* Three erase blocks of three sectors, every range of them written, twice;  *)
(* each sector starts with a content of its own.  Or: up to three flash      *)
(* commands on boards of every flash type, with two partition tables that    *)
(* place a partition in different flashes.  Or: two transfers of the SPI     *)
(* master under the NOR flash, with two FIFO entries of two bytes, lengths   *)
(* between an entry and the FIFO and above it, and words of 8 and 12 bits:   *)
(* three bytes do not make whole ones of 12.                                 *)
EXTENDS NorBlk

CONSTANTS
  Versions, Place, Boards, Given, MaxCommands,              \* of FlashUtility
  Depth, Width, Lengths, WordLens, Polls, MaxXfers          \* of GeniSpi

VARIABLES task, board, sfiType, geom, ptable, gFlash, gptsel, pte, attached, known, gpt, fits,
          content, vols, cmd, fpc, res, xt, torn, fails, typed,
          sstep, bpw, msb, dmaDisable, xfer, txRem, rxRem, stat, ret, snap, rounds, wm, hw,
          txFifo, rxFifo, last, irq, pend, dma, wire, buf, xfers, lost, masked

MCOld == [i \in 0 .. 8 |-> 10 + i]
MCData == {0} \cup (1 .. 9) \cup (10 .. 18)
MCCalls == UNION {{[start |-> s, src |-> [k \in 1 .. n |-> k]] : n \in 1 .. 9 - s} : s \in 0 .. 8}

MCPlace ==
  << [raw |-> "nor", rootfs |-> "nand", rootfs_1 |-> "nand", absent |-> "none"],
     [raw |-> "nand", rootfs |-> "nand", rootfs_1 |-> "none", absent |-> "none"] >>
MCBoards ==
  { [boot |-> "norgpt", mmc |-> TRUE, active |-> "rootfs_1"],
    [boot |-> "nor", mmc |-> TRUE, active |-> "rootfs"],
    [boot |-> "nand", mmc |-> FALSE, active |-> "rootfs"],
    [boot |-> "mmc", mmc |-> TRUE, active |-> "rootfs"] }

MCGiven == {"default", "nor"}

FU == INSTANCE FlashUtility WITH MaxCalls <- MaxCommands, pc <- fpc, calls <- typed
ASSUME FlashIs == FU!FlashAssumption

fuVars == <<board, sfiType, geom, ptable, gFlash, gptsel, pte, attached, known, gpt, fits,
            content, vols, cmd, fpc, res, xt, torn, fails, typed>>

Spi == INSTANCE GeniSpi WITH step <- sstep, cmd <- hw, left <- rounds
ASSUME SpiIs == Spi!SpiAssumption

\* Whatever the length of a word, the vectors move its bits in order.
ASSUME PackingIs ==
  \A b \in 4 .. 32, high \in BOOLEAN : Spi!BitsMoved(b, high) = Spi!BitsInOrder(b, high)

spiVars == <<sstep, bpw, msb, dmaDisable, xfer, txRem, rxRem, stat, ret, snap, rounds, wm, hw,
             txFifo, rxFifo, last, irq, pend, dma, wire, buf, xfers, lost, masked>>

MCInit ==
  /\ Init /\ FU!Init /\ Spi!Init
  /\ task \in {"blocks", "commands", "transfers"}
  /\ task # "commands" => board = CHOOSE b \in Boards : TRUE
  /\ task # "transfers" => dmaDisable

MCNext ==
  /\ UNCHANGED task
  /\ \/ task = "blocks" /\ Next /\ UNCHANGED <<fuVars, spiVars>>
     \/ task = "commands" /\ FU!Next /\ UNCHANGED <<vars, spiVars>>
     \/ task = "transfers" /\ Spi!Next /\ UNCHANGED <<vars, fuVars>>

MCSpec == MCInit /\ [][MCNext]_<<task, vars, fuVars, spiVars>>

\* The types of both.
MCTypeOK == TypeOK /\ FU!TypeOK
\* A flash command that reports success wrote its image where its name says,
\* whatever earlier commands left behind, but for entries of another table and
\* a block size that is not the flash's (do_flash, get_gpt_entry,
\* do_mibib_reload).
FlashHonest == FU!FlashHonest
\* Both partition tables of a flash are only lost after two failures of the
\* flash (prepare_mmc_flash, prepare_nor_gpt, gpt_update_params).
TablesSurvive == FU!TablesSurvive
\* A partition UBI is attached to is not written by itself, but from a place
\* counted in blocks of the wrong size (do_flash, ubi_vol_present,
\* do_mibib_reload).
RawNotAttached == FU!RawNotAttached
\* A transfer that succeeds has moved every byte of its words, in order
\* (do_spi_xfer, geni_spi_isr).
XferTruth == Spi!XferTruth
=============================================================================
