# TLA+ models of the IPQ U-Boot board code

This directory holds TLA+ specifications of the Qualcomm IPQ board files for
U-Boot (`src/`): what the boot loader and its companion tool do with DMA
rings, with the network, with the flash and with the two sets of images of a
board. Every definition is a translation of the C code; `PROJECT.json` gives,
for each definition, the lines it stands for. TLC checks the specifications
on small instances and TLAPS proves some of the results for every value of
the constants.

Run a model with `tlc -workers 2 -config MCDualBoot.cfg MCDualBoot`, and the
proofs with `tlapm BootProofs.tla`.

## 1. The system

The repository is one half of a boot loader: the board, SoC and driver files
that are dropped into an upstream U-Boot tree (which is not here), and some
host and target tools. It runs on one CPU, without interrupts and without
preemption; what runs concurrently with it are engines (DMA, NAND, Ethernet,
serial), the secondary cores it starts, the first loader before it and Linux
after it. Three things make its behaviour hard:

- engines share memory with polling loops that have timeouts and, often,
  callers that ignore their result;
- everything kept in flash is rewritten in several steps, each of which may
  fail or be the last before the power goes;
- decisions taken at one stage (which set, which partition, which device) are
  kept in globals and used at later stages, commands and boots.

| Component | State it keeps | Operations | Interacts with | What makes it correct |
|---|---|---|---|---|
| BAM DMA (`drivers/dma/bam_dma.c`) | pipe flags, descriptor ring, write pointer; engine offset, event and interrupt registers | of_xlate, request, enable, disable, rfree, send, prepare_rcv_buf, receive | NAND and SPI drivers; the engine | driver and engine agree on the ring; a reported completion is true; calls return |
| EDMA rings (`drivers/net/qcom/nss-switch.c`) | four rings and their buffers, ports, link state | start, send, recv, free_pkt, halt; PPE and port set-up | U-Boot's network stack; the engine; PHY drivers | frames in order and whole; no buffer reused early; no stall |
| Crash dump (`cmd_crashdump.c`) | write context with a carry-over page, offset and partition; dump list and header | dump to flash, nvmem, eMMC, USB, TFTP; minidump TLVs | MTD, SMEM partition table, environment | the dump can be read back; nothing outside its partition; header last |
| Boot selection and bootipq (`common.c`, `cmd_bootipq.c`) | smem info, boot configuration, active set, authentication state, bootargs | read configuration, choose set, load, authenticate, configure, boot | first loader, secure monitor, sysupgrade | a usable, consistent set is started |
| sysupgrade (`tools/sysupgrade.c`) | `/tmp/bootconfig.bin`, version files | mark, commit, override, check image, record versions | upgrade script, U-Boot | an upgrade is atomic under power failure |
| Flash utilities (`cmd_flutility.c`) | selected GPT, current device | flash, flread, flerase, xtract_n_flash, flupdate, mibib_reload | NAND, NOR, eMMC, UBI, SMEM table | a sequence is applied whole or fails visibly |
| NOR block device (`misc/qti_nor_blk.c`) | none but the flash | read, write, erase | SPI flash | neighbours of a written sector survive |
| QPIC NAND (`mtd/nand/raw/qcom_nand.c`, `dma/bam.c`) | command and data pipes, ECC layout, training | page read/write, erase, bad-block check, layout switch | three BAM pipes | command order; ECC status taken from its page |
| Multicore and secure commands (`cmd_ipq.c`, `scm.c`) | per-core stacks, status and results in shared memory | runmulticore, secure calls, nand layout, fuse and TZ commands | secondary cores, secure monitor | a core's result is taken once; its stack is freed after it is off |
| GENI serial engine (`spi-geni-qcom.c`, `qcom-geni-se.c`) | transfer cursor, watermark interrupts | claim, transfer, cancel, abort | SPI flash, MDIO over I2C | every byte once; an aborted command leaves nothing behind |
| Ports, PHYs, switches (`net/phy/*`, `*_port_config.c`) | link, speed and serdes mode of a port | probe, start, link change | EDMA driver | MAC, serdes and PHY are set to one mode |
| Board and SoC support (`common.c`, `board.c`, `fdt_fixup.c`, `cmd_smem.c`) | partition caches, attached UBI device, environment location | partition look-up, device tree fix-ups | all of the above | cached answers stay true |
| Watchdog (`qcom_wdt.c`) | three registers | start, stop, reset | - | bark before bite, no overflow |
| Clocks, pins, serdes (`clk`, `pinctrl`, `phy`) | registers | table look-ups | - | - |
| Packing tools (`pack.py`, `pack_v3.py`) | - | generate scripts and FIT sources on a host | - | - |

The hazards of each component, with the line where each bites and the
properties that watch it, are listed in `PROJECT.json`.

## 2. Modules

| Module | Models |
|---|---|
| `BamQueue` | what a DMA pipe promises: a bounded queue of descriptors |
| `BamPipe` | `bam_dma.c` and the engine; implements `BamQueue` |
| `BamPipeProofs` | proofs about `BamPipe` |
| `FrameChannel` | what each direction of the Ethernet DMA promises |
| `EdmaRing` | `ipq_eth_send`, `ipq_eth_recv` and all they call, and the engine; implements `FrameChannel` twice |
| `EthernetProofs` | proofs about `EdmaRing`, `PortLink`, `Qca8x8x` and their composition `MCEdmaRx` |
| `CrashdumpNand` | the path of a crash dump to NAND in `cmd_crashdump.c` |
| `CrashdumpNandProofs` | proofs about `CrashdumpNand` |
| `NorBlk` | `nor_bwrite` of `qti_nor_blk.c` |
| `NorBlkProofs` | proofs about `NorBlk` and `GeniSpi` |
| `AtomicUpgrade` | what two sets and a boot configuration are for |
| `DualBoot` | set selection and bootipq in U-Boot, marks and commit of sysupgrade; implements `AtomicUpgrade` |
| `QpicNand` | reads, writes and erases of the QPIC NAND driver, `qcom_nand.c` |
| `NandStart` | its probe: identification, configuration, clock training |
| `QpicNandProofs` | proofs about `QpicNand` and `NandStart` |
| `FlashUtility` | the flash commands of `cmd_flutility.c` and the partition look-ups of `common.c` below them |
| `FlashUtilityProofs` | proofs about `FlashUtility` |
| `CrashDump` | the crash dump command above the flash writer |
| `CrashDumpProofs` | proofs about `CrashDump` |
| `ImageCheck` | `do_board_upgrade_check` of `sysupgrade.c` |
| `MultiCore` | `do_runmulticore` of `cmd_ipq.c` and the cores it starts |
| `BootProofs` | proofs about `DualBoot`, `ImageCheck`, `MultiCore` and their composition `MCDualBoot` |
| `PortLink` | probe, start and link set-up of the Ethernet ports, `nss-switch.c` and the port tables |
| `Qca8x8x` | the QCA8x8x as PHYs, switch and bypass, `qcom_qca8x8x.c` |
| `GeniSpi` | the SPI transfers of `spi-geni-qcom.c` and the serial engine |
| `MC*` | values of the constants for TLC |

An `MC` module may hold several independent components, one of which a
behaviour picks in its first state (`task`) and then follows; the others stay
as they are. `MCNorBlk` holds `NorBlk`, `FlashUtility` and `GeniSpi`,
`MCCrashdumpNand` the two crash dump modules, `MCDualBoot` `DualBoot`,
`ImageCheck` and `MultiCore`, `MCEdmaRx` `EdmaRing`, `PortLink` and `Qca8x8x`,
`MCQpicNand` the two NAND modules. In the program these too run one at a time.

Operators whose comment starts with "Mutant" are plausible mistakes in one
definition of the module. Each property of a passing run is violated when the
mutant paired with it in `PROJECT.json` takes the definition's place.

### BamPipe

`dir`, `inUse`, `enabled` and `rxLen` are fields of `struct bam_pipe`; `cur`
is `fifo.current`, `mem` the descriptors in memory, `evnt`, `irq` and `hwOn`
registers, `rd` the engine's own offset. `pc`, `left`, `n`, `flags` and `buf`
are the locals of the call in progress. `pend`, `batch`, `fault` and
`abandoned` are history: the descriptors notified and not executed, those
written by the call, whether the client has misused the pipe, and whether a
call was given up.

One call of `bam_dma_send` is the sequence `Send`, `AddDesc` for each
descriptor, `GenEvent`, and one of the ways `bam_wait_for_interrupt` ends
(`WaitProcessed`, `WaitError`, `TimerExpires` then `WaitTimeout`).
`HwExecute` and `HwRaise` may come between any two of these. Lengths are
counted in descriptors and ring offsets in slots. The heap memory `of_xlate`
does not clear makes `inUse`, `enabled` and `rxLen` arbitrary in `Init`
(`Heap` is what a length may hold by chance); a receive for which no buffer was
prepared gathers whatever length is there, more than the ring holds, or none,
and then waits all the same.

What the clients do is taken from how `src/` uses a pipe: none frees a pipe
it left enabled. `ImplementsQueue` says nothing more after `fault`, which
records a descriptor written over one not yet executed or one
`bam_add_one_desc` refused; behaviour after that is not followed until the
pipe is enabled again.

### EdmaRing

`fill`, `rx`, `tx` and `cmpl` hold the producer and consumer index registers;
buffers belong to ring slots for good, as in `ipq_edma_setup_ring_resources`.
`pc` walks through `ipq_eth_recv`: `ipq_edma_clean_rx`, `ipq_edma_clean_tx`
(index read, index write), `ipq_edma_alloc_rx_buffer` (index read, index
write), and then the stack's handler, which may call `ipq_eth_send` before it
returns. The engine receives into the next posted buffer and transmits, with
its own steps, whenever the rings have room. A received descriptor may name a
source that is not a port (`"type"`) or is a port out of range (`"range"`).
With the latter the code returns the frame's length without its buffer.

### CrashdumpNand

A dump is a sequence of `Entry` steps of arbitrary sizes. `WriteData` is
`crashdump_nand_flash_write_data`: it keeps what does not fill a page in
`temp` and queues the calls of `check_and_write_crashdump_nand_flash` in
`calls`; `TurnDone`, `TurnRefused`, `EraseFails` and `WriteFails` are one
round of that function's loop each. `Deinit` pads and writes the last page,
and for `DUMP_TO_NVMEM` the list and then the header follow. A page holds the
numbered units written to it, so that `DumpReadsBack` compares content and
not lengths. A page programmed without an erase or in a bad block is
`Garbled`.

### NorBlk

`nor` is the flash, counted in sectors; `at`, `left`, `buff` are `startoffset`,
`lblkcnt` and `buff` of `nor_bwrite`, `Gap`, `Base` and `Count` its `gap`,
`offset` and `tempcnt`. A turn of the loop is `ReadBack` or `NoReadBack`, then
`EraseBlock` and `WriteBlock`; each may fail, an erase or a write with part of
its effect. `buff` is `"unset"` when the code skipped the allocation and left
the pointer uninitialised: reading into it may go through or end the program
(`"wild"`). A write is within the flash, as the block layer that calls
`nor_bwrite` checks.

### DualBoot

The flash holds `bc` (the boot configuration) and `image` (the version in
each set, `Torn` while it is being written). U-Boot's stages are
`FindBootconfig`, `CheckBootconfig`, `ReadKernel`, `Authenticate`,
`ConfigSelect`, `SetBootargs` and `BootKernel`. `ActiveSet` is
`ipq_get_rootfs_active_partition` composed with the flag it sets, so that
`BOOT_SET_INVALID` counts as set B. In Linux, `InvalidateBootconfig` and
`CommitBootconfig` are the two uses of `invalidate_bootconfig`; `Extract`,
`StoreMark`, `BeginWrite`, `EndWrite`, `ExtractAgain` and `StoreCommit` are
what the script that calls the tool has to do. `Reset` may come at any
moment and leaves the flash alone. `preset` is a `fsbootargs` the environment
holds before `set_bootargs` looks, which is kept whatever set is booted, and
`appended` says that the kernel's FIT names a root file system of its own in
`append-bootargs`; in both U-Boot does not choose one, and
`RootfsFollowsKernel` says nothing.

The script and the first loader are not in the repository. About the script
the model assumes that it starts an upgrade only on the selected and usable
set, and that it commits a trial only when one set is marked and the trial
runs the newer. Without the first assumption `sysupgrade` marks the set that
is not *selected* while the script writes the set that does not *run*, and
the upgrade is not atomic. A write of the boot configuration is one step.

### QpicNand and NandStart

A page is `CW` codewords, each in one of the conditions of `Conditions` on the
flash: data, erased (`"blank"`), corrected (`"fixed"`), erased with flipped
bits so that the controller gives up on it (`"weak"`), beyond correction
(`"lost"`), or a failing operation (`"fault"`). A read is `ReadCall`, then per
batch `ReadMulti` or per page `ReadPage` and `ReadPageOob`, which leave the
statuses in `status`; the loop over them judges one codeword per step and
reads the page again where the driver does. `Waits` is a
`q_bam_wait_for_interrupt` whose result nobody looks at. Once one has given up
(`gaveUp`) the late interrupt stays latched, so every later wait, in this call
or another, may end before its descriptors have run: the status buffer then
holds the first few codewords and zeros, which read as success, an erase may be
judged by another command's status, and a bad block mark may be missed. Where
the code waits for one pipe only, the same happens without a wait giving up:
`Awaited` is all but the last codeword of a page read by `qti_read_page`, and
`stray` the interrupt that a failed read of a bad block mark leaves to the next
such read. Erase and write are calls of their own. `NandStart` is
`qti_nand_probe` from the identification to `"ready"`: `quad`, `prot` and
`feat` are the feature registers, `passed` the phases that read the training
page. The choice of the phase is unsigned: with one good phase, or with no
three in a row, an index wraps below zero; then the search takes a phase it
finds (`SelectOutside`) or runs out of its arrays (`SelectOverruns`), after
which nothing more is said (`"lost"`). The descriptors in `drivers/dma/bam.c`
are one transfer here.

### FlashUtility

`ptable`, `pte`, `known`, `attached`, `gFlash` and `gptsel` are what the
commands leave to one another: the SMEM table, the cached GPT entries, the
places of the root file systems, the UBI device, and the two globals of the
file. `cmd` is a command between its look-up (`pc = "find"`), its writes
(`"act"`), the correction of a GPT (`"update"`) and its result. A partition is
a slot of a flash and holds an image; a table is a version, 0 when unreadable.
`Reset` restarts the board with what is on the flash. Partitions are taken to
be aligned to erase blocks, and the check of an APPSBL image's header is left
out. `geom` says whether `sfi->flash_block_size` is that of the flash:
`mibib_reload` stores the size it is given before it checks the type, the image
and the table, so also when it then refuses (`MibibRefused`). With a wrong size
a partition that the table of SMEM places in NOR is looked for at a wrong place
(`Displaced`); a write there hits the partition itself or spoils one other
(`PutThere`). Places of the NAND flash are counted in its own block size, except
those of root file systems kept in `sfi->rootfs`, whose UBI attachment under a
wrong size is not followed.

### CrashDump

`ParseConfig` to `VerifyIface` are the variables of the environment,
`AddDram`, `AddPlain` and `AddModules` build the table, and `DumpPlain`,
`Backup`, `Compress`, `Put` and `DumpToMem` are `dump_to_dst`. A unit of memory
holds its own number until something is written over it, so that a file can
be compared with the memory at the crash. `Begin` is where the first part,
`EBICS0.BIN`, is copied into the buffer to be compressed downwards. A table that
cannot be built ends the dump (`TableFails`), except that with
`MINIDUMP_AND_FULLDUMP` the result for the minidump takes the place of the full
dump's: the dump goes on without what was missing, which `short` records. The
list of TLVs the kernel left
ends in its terminator, and the search of the log for a crash signature is a
choice of whose modules are dumped. `comp_out_addr` and `comp_out_size` are
`out` and `outSz`; `cur` is what is being compressed, where it has been moved to.

### ImageCheck

A check is one process; `recorded`, `kernel` and `metadata` are what it leaves
in `/tmp` for the next one. An image is the set of its sections, those of them
that are genuine, and a version; the parsing of MBN, SBL and ELF headers is
abstracted to that. Each call of another program or of TrustZone may fail
(`failed`), and where the code drops the result, `masked` records it. `Over`
is the writing of a number over a longer one in a file that is not truncated.
The kernel and metadata files are not truncated either; whoever reads them goes
by the headers at the start, so they count as the new image's. Sections not named are treated like `u-boot` and `tz`.

### MultiCore

`i`, `delay`, `core_status` and `core_on_status` are the locals of
`do_runmulticore`. A core comes up, runs its command, writes its result and its
completion and goes off; `stored` and `visible` are what it wrote and what the
boot core can see, in any order, as there is no barrier. `panic`, Ctrl-C and a
core that never comes up restart the board. The invalidation of the data cache
on the ways out is not modelled: what is `visible` already is taken from memory.

### PortLink and Qca8x8x

`PortLink` keeps what the driver believes of a port (`cur_speed`,
`cur_uniphy_mode`, `cur_gmac_type`) apart from what the hardware was set to
(`uniphy`, `channel`, `mux`, `xgmac`, `gmac`, `rate`, `tx_mac`). `Row` is a row
of `port_config` of a SoC. A MAC reset is taken to clear the speed bits into
which later settings are OR'ed. Duplex, flow control, emulation and the
reading of an SFP's EEPROM are left out.

`Qca8x8x` is the chip's registers (`chip`) with the table of raw serdes clocks
the driver keeps: per generator (`rcg`) the source and the half-integer
divider, per clock a further divider (`cdiv`), branches that are on, modes of
the serdes, speeds of channels and MACs. `RateSet` is `qti_8x8x_clk_rate_set`
with its unsigned division; `Config`, `StartupPhy`, `StartupBypass` and
`SwitchLinkUpdate` are `qti_8x8x_config` and the ways through
`qti_8x8x_startup`. `Runs` computes the frequency the registers produce,
independently of how they were written. The chip is assumed to come out of
reset in the mode of four PHYs with its switch core's clock on; calibration
and branch resets leave nothing behind; the waits for hardware that the code
does not bound end. `MacStatusSet` is how the driver switches a port's MAC: for
a PHY's port whose `LINK_EN` is set (`LinkEn`) it is refused with `-EACCES`,
which no caller looks at, and the chip switches the MAC by the link itself.
A restart without a reset of the chip (`Restart`) writes nothing to it:
`ipq_eth_8x8x_pre_init` (`nss-switch.c` 2783) ends by writing 20c41h to a
register and returns at once when it reads that value there. The function
`qti_8x8x_pre_init` (`qcom_qca8x8x.c` 4240), which would write in any case, is
called from nowhere.

### GeniSpi

`cmd` is the command in the engine, `txFifo`, `rxFifo` and `last` its FIFOs,
`irq` the latched bits; the driver's poll is `Poll`, which takes the snapshot
`snap`, then `HandleRx`, `HandleTx` and `IsrDone`, or `IsrDma`. The engine works
on between any two of them (`Shift`, `DmaMove`, `DmaDone`, `CmdDone`). Watermark
bits are levels, the others are latched whether enabled or not, and an abort
that is answered empties the FIFOs: this is how the code uses them, the engine
itself is not in the repository. Errors end in cancel, abort and reset
(`HandleErr`), which the engine answers or does not. The engine is told a number
of words of one, two or four bytes (`InWords`), while the FIFO and the channels
get all bytes of the transfer: what does not make a word is not sent, with
success, and what stays in a FIFO or channel (`LeftOver`) is in the way of the
next transfer, which is not followed (`lost`).

## 3. Runs

| Run | Instance | Shows |
|---|---|---|
| `bam_pipe` | ring of 4; transfers of 1, 3, 4, 5 descriptors, and receives of 0 or 5 that nobody prepared; good and refused flags | the ring agrees after every mixture of outcomes (`RingAgrees`), completions are true unless a call was given up (`CompletionIsTrue`), calls return (`CallReturns`), the pipe is a queue (`ImplementsQueue`) |
| `bam_stale_irq` | same | violation of `WaitMeansProcessed`: a late interrupt completes the next transfer |
| `edma_rx` | receive rings of 4, two frames, good and bad sources; or four boards of two ports at 10, 1000 and 2500 Mb/s; or the QCA8x8x with PHYs 1 and 4 at four speeds, port 4 with `LINK_EN` set | no buffer is reused early (`NextBufferIsFree`), frames are received in order (`ReceivesInOrder`), a good frame at the head is handled (`GoodFrameHandled`); ports run at the speeds of their links whatever came before (`PortsFollowLinks`), and so do the clocks of the PHYs' chip (`ClocksFollowLinks`) |
| `edma_tx` | transmit rings of 4, two frames, receive rings of 2 | frames are sent in order (`SendsInOrder`), busy passes (`BusyPasses`), buffers return (`BuffersReturn`) |
| `edma_rx_stall` | rings of 2 | violation of `HeadMovesOn`: a bad descriptor is never consumed |
| `crashdump_nand` | pages of 2 units, blocks of 2 pages, 5 blocks, any of them bad, 12 units; or the command with memory of 4 to 13 units, files of at most 4, one or two banks, and every set of variables | `StaysInPartition`, `DumpReadsBack`, `HeaderMeansDump`, `ErasedBeforeWritten`; files hold the memory as it was at the crash although it is compressed within (`FilesAreTheMemory`), and a header or a success stands for a whole dump (`DumpIsWhole`) |
| `crashdump_nand_bad` | same | violation of `BadBlocksSkipped`: a write runs into an unchecked block |
| `nor_blk` | 3 erase blocks of 3 sectors, every range of them, two writes; or three flash commands on boards of four kinds; or two SPI transfers of 3 or 6 bytes, of words of 8 and 12 bits, with three rounds of the wait | success writes these sectors and no others (`WritesExactly`), a failure costs one erase block (`OneBlockAtRisk`), the uninitialised buffer costs nothing on the flash (`StrayLosesNothing`); a flash command that reports success wrote where its name says (`FlashHonest`), no attached partition is written by itself (`RawNotAttached`), two failures are needed to lose both tables of a flash (`TablesSurvive`); a transfer that succeeds moved every byte of its words (`XferTruth`) |
| `dual_boot` | versions 0 to 2, every boot configuration and image state; or two checks of images of versions 9 and 10; or two commands on up to three cores | `UpgradeIsAtomic`, `CommitSwitches`, `MarkedSetNotBooted`, `RootfsFollowsKernel`; a verdict is its own image's (`VerdictFits`); stacks go back after the cores are off and results are told truly (`CoresReturned`) |
| `boot_default_set` | versions 0 and 1 | violation of `PrimaryByDefault`: an unread buffer chooses the set |
| `nand` | reads of any range in three pages of two codewords, batches of two, erases of two blocks; or the bring-up with five phases and three frequencies | data beyond correction is reported (`NoLossUnreported`), what was asked for is delivered (`DeliversRequest`), a block that did not erase is marked (`FailedEraseMarked`), the flash is configured and its clock works when it is put to use (`ReadyConfigured`, `ReadyClock`) |
| `nand_erase_result` | same, with a flash that reports a failed erase in the result bit | violation of `FailedEraseMarked` |

**Bounds.** A ring of four slots has three in use, so that it fills, wraps and
empties with a transfer of any admitted length at any offset; 4 and 5 are the
two lengths that are refused, by the notification and by the space check. The
Ethernet rings of four give every relative position of the indices, and two
frame contents distinguish an overtaken frame from a repeated one. The receive
ring is small where transmission is checked because the two directions share
only `pc` and the polling. Dump entries of 1, 3, 4 and 7 units against
pages of 2 and blocks of 4 cover a remainder kept, a page completed, a block
left half written and a write of more than a block; twelve units fill the
partition when two or more blocks are bad. Three erase blocks of three sectors
give a write a first, a whole and a last block with every gap, and the second
write starts from whatever the first left. Two upgrades bring the board back
to the set it started from, with every failed attempt in between; nothing in
`DualBoot` depends on the version but the comparison.

Of the other tasks: a crash dump of 4 to 13 units against files of 4 has none,
one, two and three whole parts, with and without the halves that compression
makes. Two checks suffice for one to find the other's
files, and 9 and 10 are the versions of one and of two digits; three cores are
all the command takes, and waits of two seconds instead of five still end
before and after each event. Two ports on each board share a serdes or do not,
and the speeds 10, 1000 and 2500 are those at which modes, clocks and MACs
differ. PHYs 1 and 4 of the QCA8x8x are one of the three that are alike and the
one that may bypass; its four speeds need every way the divider is computed. A
FIFO of two entries of two bytes is smaller and larger than the two lengths,
with packings of one and of more words per entry, and 3 bytes are no whole
number of words of 12 bits; three polls are enough to run out in any state of
the engine, and the second transfer meets what the first left. Two codewords and three pages in batches of
two give a first, a middle and a last codeword, page and batch. Three flash
commands are one that fails, one that meets what it left, and one that shows
it.

**Deadlock.** `BamPipe` may stop (a client told that the pipe is busy gives up;
the engine may be disabled), a dump ends, and so do the writes of `NorBlk`;
their configurations, also for the tasks that share them, switch the deadlock
check off; so does that of the NAND, whose bring-up ends. In the other models it
is on, and none is found.

**Fairness.** `BamPipe!FairSpec` has weak fairness of the driver's steps
(one CPU, nothing preempts it) and of `HwExecute` (a live engine);
`HwRaise`, errors and clients have none. `EdmaRing!FairSpec` has weak fairness
of the bodies of send and receive and of the engine's transmission. Polling
and the return of a handler get strong fairness, because a send, which the
stack starts from the same loop and which ends by itself, may disable them for
a moment; `net_loop` polls on each turn. No frame is assumed to arrive or to
be sent. `MCEdmaRx!MCFairSpec` is the same, for the behaviours whose task is
the frames. All other models have safety properties only and need none.

## 4. Disagreements between code and comments

Each is a run that TLC ends with a counterexample, listed under `findings`:

1. `bam_dma_send` ignores the result of the wait under the comment "Wait for
   the descriptors to be processed"; after one timeout the late interrupt ends
   the next wait.
2. `ipq_edma_clean_rx` says "Update consumer index" and does so only when a
   good frame was found; one unusable descriptor stops reception.
3. `check_and_write_crashdump_nand_flash` "checks if the block is non-bad, and
   skips if bad", but not for the block a short write runs into.
4. "if bdinfo is NULL , consider primary as default valid boot": after a read
   error the pointer is not NULL and its target not initialised.
5. "Check for PROG_ERASE_OP_RESULT bit for the result of erase operation.":
   `qti_nandc_block_erase` tests a variable that no longer holds the register,
   and a block that failed to erase by that bit is not marked.

Where the code falls short of a property without contradicting a comment, the
property says which case it leaves out and a history variable records it:
`~torn` (cached entries of a table not in force) and `Displaced` (a block size
taken by a `mibib_reload`, also by one that is refused) in `FlashHonest`, the
latter in `RawNotAttached` too, `~short` (an allocation that failed while a bank
was split, or a full dump's failure that the minidump's result overwrites) in
`DumpIsWhole`, `~over` (with three whole parts of memory that does not compress,
a part or its output runs past the end of the memory) in `DumpIsWhole` and
`FilesAreTheMemory`, `~gaveUp` (a wait for the controller has given up, in this
call or earlier), `~stray` (the read of a bad block mark has failed), `Awaited`
(the last codeword of a page, whose status nobody waits for) and `Hidden`
(statuses overwritten by a second look or passed over before it) in
`NoLossUnreported`, `~gaveUp` in `FailedEraseMarked`, the state `"lost"` (a
search outside its arrays) in `ReadyClock`, `preset` and `appended` (a root file
system named by the environment or the FIT) in `RootfsFollowsKernel`, `LinkEn`
(MACs the chip switches itself) in `ClocksFollowLinks`, `~masked` (a result
nobody looks at) and `KernelComes` (a signed root file system without a kernel,
about which TrustZone is never asked) in `VerdictFits`, `~lost` and `~masked` (a
wait that ran out because its counter wraps; bytes that make no word; a FIFO
error that the DMA results hide, read before the last of them or not read at
all) in `XferTruth`, `starved` (stacks leaked after a failed allocation) in
`CoresReturned`, `whole` (a set-up that failed is not tried again) in
`PortsFollowLinks`.

## 5. Proofs

All for every value of the constants, from the assumptions named
`...Assumption` in the modules and nothing else (`PackingIs` has no constant in
it and is evaluated whole).

- **BamPipeProofs.** `IInv == TypeOK /\ RingAgrees`. Neither is inductive
  alone: the engine's step takes the head of `pend`, and only `RingAgrees`
  knows that an engine behind the event register has one; and the bound on
  `n + left` is what keeps the batch of a send within the ring; a receive that
  nobody prepared may run over it, which is `fault`. `TypeCorrect`, `RingCorrect`
  and, from them, `QueueImplemented`: each step is a step of `BamQueue` or
  leaves its variables alone. `OneCall` is why a wait can be believed as long as
  no call was given up (`WaitIsTrue`): only the last descriptor of a transfer
  asks for an interrupt, and none is pending when a call begins.
- **EthernetProofs.** Of the rings, `IInv` adds `BufferIsSlot` (the RXFILL
  consumer and the RXDESC producer are always equal, so a descriptor's buffer
  has the number of its slot, and the buffer in the stack's hands is the one
  just before the RXDESC consumer) and `SendOwnsSlot` (a frame being copied has
  a free slot). That is the reason `BuffersSafe` holds, although buffers are
  posted without regard to who reads them: the engine cannot run further ahead
  of the consumer than the RXDESC ring allows, and the two rings have one size.
  `SendChannel` is the refinement of `FrameChannel` by transmission. Reception
  refines it too (`ReceiveChannel`), with the frame in the stack's hands in
  front of those in the ring: `Named` (a written descriptor names its slot's
  buffer) and `Told` (a length that `ipq_eth_recv` returns has its buffer) say
  what the two are. The theorem supposes that no frame reports a port out of
  range (`"range" \notin Kinds`): for such a frame the code returns a length and
  leaves the buffer of it unset. `RingPut` and `RingGet` are what a ring of any
  size does to the queue in it.

  Of the ports, `LinkInv` says that the driver is right in what it believes of
  each port's serdes and MAC (`Believed`), which is not inductive: one port's
  set-up changes the serdes of another. `OneMode` adds that the PHYs that share
  one need one mode at all speeds, `Blank` what holds before the first start,
  `Running` that a port set up to the end still runs at the speed remembered of
  it, `ReadOnce` and `Silent` how far the loop of a start is. `TablesFit` goes
  through the rows of the three tables once. The boards are any of which
  `BoardAssumption` holds, as it does of every device tree in
  `src/dts/upstream/src/arm64/qcom`: a PHY the table of the SoC knows on every
  port, and a serdes shared only by ports of one QCA8075, or of the PHYs of one
  QCA8x8x, which is on serdes 0. Without the latter `PortsFollowLinks` fails:
  two PHYs that want different modes of one serdes undo each other's.
  `PortsFollow`.

  Of the QCA8x8x, `ChipInv`. A rate is made by dividing the source a generator
  is set to, so what `ClocksFollowLinks` says of a PHY's clocks holds only as
  long as nobody selects another source, and a source is selected when a board
  is configured, not when a link comes up. `PhyReady`, `SwitchReady` and
  `BypassReady` say what each mode has selected; `WorkModeFits` when a mode is
  the chip's - after a reboot the chip may still be in the mode it was left in -
  and `Configured` that each configured device found it so. `ClocksFit` is then
  what a PHY's last reading asks of the chip, in every mode. It is stated of a
  chip rather than of the state, so that the lemmas can follow the chip through
  the twenty-odd writes of one `Config` or `StartupPhy`: `Untouched` is what
  such a sequence leaves of the other ports' clocks, `StillFed` that it leaves
  their sources. The arithmetic is in a few lemmas: `Divides`, that the dividers
  the driver computes give each rate exactly from a source that can give it, and
  `RateSetFrame`, that a rate asked of any source, also one with which the
  unsigned division wraps and all bits of the generator are written, reaches no
  other generator. `ClocksFollow` holds for any set of PHYs that has the
  switch's (1) and the bypass's (4). `EthernetSideBySide` is about the
  composition the run checks.
- **NorBlkProofs.** What one sector holds is `Exact`: the new data before `at`,
  the old from `at` on. `IInv` adds to `TypeOK` that this is so for all sectors
  at the head of the loop and for those outside the current block elsewhere
  (`Settled`), and that the prepared block has the right content
  (`BlockReady`); `OneBlockAtRisk` alone says nothing of the sectors a block
  shares with the write before its first one, and is not inductive.
  `BlockFits` and `BlocksStep` hold the arithmetic of blocks. All four
  invariants of the run follow.
- **NorBlkProofs, the SPI master.** While a transfer runs and nothing was left
  in the engine, the invariant places every byte: those the engine has moved
  (`Moved`) are on the wire, those it has still to send in the FIFO or yet to be
  put there (`Sent`); of those received some are in the buffer and the others in
  the FIFO, all in order, or one was dropped and the sum falls short for good
  (`Received`), so that the driver's count does not come to 0. With the channels
  none or all were moved, and what came short is an error that was read or still
  will be (`DmaInv`). `Asked` ties the engine's command and the snapshot to the
  transfer at hand, `Clean` says that the engine is at rest between two: without
  it the next transfer would take bytes of the last. The lemmas on `Block`
  (append, tail, concatenation, subsequence) are all that is used of sequences.
  That the packing vectors keep the bits of a word in order is a formula without
  constants or variables, over 29 lengths and two bit orders: `PackingIs`, which
  TLC evaluates. Result: `TransfersAreTrue`. The attempt showed that a FIFO
  error can stay unread: after a transfer that timed out with the watermark on,
  a later DMA transfer's first poll sees that bit, and a byte dropped then is
  not looked at again once the DMA results are there. That takes three
  transfers; the run has two, as three are too many states, and the theorem any
  number.
- **BootProofs.** Of `DualBoot`, two lemmas relate sysupgrade to U-Boot once and for all:
  `MarkKeepsSelection` (marking never changes the set U-Boot picks) and
  `CommitMovesSelection` (a commit moves it exactly when one set is marked).
  `IInv` adds to `TypeOK` that the selected set is whole, that all stages since
  `ReadKernel` work on one set, and what each step of the script has
  established (`Progress`), so that the one step that moves the selection
  finds a newer set there. `BankFits` ties the set U-Boot works on to the boot
  configuration it has read, for `MarkedSetNeverBooted`. Other results:
  `TypeCorrect`, `CommitSwitchesSet`, `RootfsIsKernels`, `UpgradeAtomic`.
- **FlashUtilityProofs.** `TablesCounted` adds to `TablesSurvive` that a table
  is lost only to a failure and that the counter is within its range: the lemmas
  `OneLoss` and `NoLoss` say what a failing and any other step may do, and each
  action is one of them. `DetachedStep` shows that a step that changes a root
  file system of the NAND flash leaves UBI detached from it. `FlashInv` is the
  reason a command's success can be believed: what was found is where the name
  says (`Found`), because the entries kept are those of the table in force
  (`Kept`) or its place was counted in blocks of a wrong size, which does not
  change under a command (`PlaceStays`), and what was written is there when only the table is left to be
  corrected (`Stored`). Every step that looks a name up (`FindStep`) leaves all
  three whatever UBI device, flash type and tables earlier commands left:
  `FlashIsHonest`. `NorSideBySide` is about the composition the run checks, the
  SPI master included.
- **QpicNandProofs.** For every page, batch and condition of the codewords.
  `CallOK` says which call is under way. `Delivered` counts: of whole pages what
  was read and what is left add up to what was asked for. `Accounted` is the
  reason no loss is silent: an error that was read is in the count of failures
  (`Caught`), or the loop over the statuses has not come to it, and then the
  statuses that are waited for are still those the controller gave (`Faithful`);
  `QueueFaithful` is where this needs that no wait has given up (`NoneGaveUp`),
  and `CountedOrHidden` what a second look at a page counts or hides. Results:
  `NoLossIsUnreported`, `RequestIsDelivered`, and `FailedEraseIsMarked` under
  the hypothesis that a failed erase is not reported in the fail bit alone
  (`"failbit" \notin EraseSeen`), as `nand_erase_result` shows there must be
  one. Of `NandStart`, `ClockInv` and `ConfigInv` say which clock and which
  feature bits each step has already set. The search for the middle of three
  good phases is a least number, which `LeastNumber` provides from the
  well-foundedness of `<`: `ClockWorks`, `ConfiguredFirst`. `BothTyped` is about
  the composition the run checks.
- **CrashdumpNandProofs.** For every page, block and partition, all bad blocks
  and all entries. The content of a page depends on how many good pages precede
  it (`Rank`), a cardinality. `Placed` keeps the context in its partition, with
  the one case (`NoRoom`) where the context is opened behind it and nothing can
  be written; `Fresh` says which pages at and behind the offset are erased;
  `Stream` that pages written, pages in the calls still to be made and what is
  kept for the next entry are one prefix of the dump; `Headed` that the header
  comes when all of it is written. `Fresh` and `Stream` need each other: a page
  is only known to hold the stream if it was erased when it was programmed.
  Results: `NothingBehindThePartition`, `ErasedFirst`, `DumpIsReadBack`,
  `HeaderVouches`.
- **CrashDumpProofs.** For every board, size of a file, list of TLVs and reserved
  memory. The proof of `FilesAreTheMemory` is one of geometry. `Shape` says how
  the table lies in memory: the first bank from its top down, then the second,
  then what is not memory (`PartsAre`, `FirstBank`, `SecondBank`, `OthersBehind`).
  `Told` says that nothing still to be dumped has been written to (`Keeps`) and
  that the buffer is at the first entry or above it, in memory that is dumped
  already; only the unit below that entry is ever given up, and for it there is
  the backup (`Saved`), which `InBack` needs while the first part's file has not
  yet taken its name. The buffer moves up with every part, so it can run out of
  the bank: `~over` is where the property stops. `FilesAreTheMemory` is not
  inductive, as it says nothing of what has not been stored. `Sound` adds what is
  in the table: what had its turn is listed (`Listed`), the banks that had theirs
  are covered (`Covered`), and since the log that narrows the modules comes before
  them (`Later`), they are chosen with the final `seg`. Of reserved memory it says
  that the old header goes before the first byte is written and the new one
  comes after the list (`Filling`, `Header`). `DumpAssumption` asks of a board
  with two banks that the first is a whole number of files and the second starts
  further behind it than one file: `ipq5424.h`, the one board that is built with
  two, has 2 GiB at 80000000h and the second bank at 800000000h, and a file is
  1 GiB. Without the former two parts of the two banks have one number.
  Results: `DumpIsTrue`, `DumpIsComplete`.
- **BootProofs, the other two.** Of `ImageCheck`, `LoadOK` is what makes a check
  independent of those before it: unless a result was dropped, every file is
  either still to be loaded or loaded, and kernel, metadata and versions are
  those of the image at hand. `AuthOK` and `UpdateOK` say what was established
  for the sections already looked at: `VerdictIsTheImages`. Of `MultiCore`,
  `HeapAndSwitches` and `OnlyStarted` tie the cores that are on to the loop that
  started them, and `AllTold` orders what a core writes before it goes off:
  `StacksAfterCores`. `SideBySide` is about the composition the run checks.

**Only model-checked:** the liveness properties (`CallReturns`,
`GoodFrameHandled`, `BusyPasses`, `BuffersReturn`) - liveness under fairness is
not within reach of the prover. The other way round, type correctness of
`BamPipe`, `EdmaRing` and `PortLink` is proved and in no run; that of `Qca8x8x`
is stated beside the model and in no run, and proved as far as `ChipInv` needs it
(`ChipTyped`).

## 6. Not modelled, and why

- Registers whose values no decision depends on: clocks and pins of the SoC,
  PCIe serdes, queues and schedulers of the packet engine, the watchdog.
- The other PHYs (`qcom_qca81xx.c`, `qcom_qca8075.c`, `qcom_qca8081.c`,
  `qcom_qca8033.c`) beyond the link and speed they report, bit-banged MDIO,
  MDIO over I2C, EEE and the queues of the switch.
- Text and data conversion: environment strings, command lines, device tree
  fix-ups, SMEM parsing, the packing tools, ELF, MBN and certificate parsing
  (through openssl).
- In the modelled files: the stream writers of a crash dump to eMMC and to SPI
  NOR; BOOTCONFIG_V2 and the recovery mode; the manual override of one member
  of a boot configuration (`update_bootconfig`); reads of the spare area alone;
  clock, mode and chip-select settings of the SPI master and the loading of
  its firmware; the commands that pass one request to the secure monitor.

## 7. Plan

1. An abstract specification of a flash command (the target changes to the new
   content and nothing else does, or a failure is reported) that
   `FlashUtility` implements.
2. The rest of the modelled files: the stream writers of a dump,
   `update_bootconfig`, the recovery mode.
