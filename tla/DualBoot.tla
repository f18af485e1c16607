------------------------------ MODULE DualBoot ------------------------------
(***************************************************************************)
(* Two sets of images, A and B, and the boot configuration (BOOTCONFIG_V3) *)
(* that says which of them to start.  U-Boot reads it, picks a set and     *)
(* takes the stages of bootipq (arch/arm/mach-ipq/common.c,                *)
(* cmd_bootipq.c); Linux changes it with tools/sysupgrade.c while a new    *)
(* version is written to the set that does not run.  The first loader,     *)
(* which decides on a trial boot, and the script that calls sysupgrade are *)
(* not in the repository.  The power may go at any moment.                 *)
(***************************************************************************)
EXTENDS Naturals

CONSTANTS
  MaxVersion,  \* bound: the last version an upgrade writes
  Torn,        \* a set that is being written, or was when the power went
  NoInfo       \* sfi->binfo is NULL; no /tmp/bootconfig.bin; no fsbootargs

ASSUME DualBootAssumption ==
  /\ MaxVersion \in Nat
  /\ Torn \notin Nat
  /\ NoInfo \notin [set : {0, 1, 2}, status : 0 .. 4]

VARIABLES
  bc,        \* the boot configuration in the flash
  image,     \* the version each set holds
  secure,    \* is_board_support_image_auth
  nand,      \* boots from NAND, otherwise from eMMC
  preset,    \* the set fsbootargs of the saved environment names, if any
  try,       \* SMEM_TRY_MODE_INPROGRESS
  binfo,     \* sfi->binfo
  unread,    \* history: ipq_read_bootconfig returned an error
  bank,      \* ACTIVE_BOOT_SET of gd->board_type, then boot_info.active_bank
  kernel,    \* the set the kernel comes from
  rootfs,    \* the set the kernel's arguments name
  appended,  \* append-bootargs of the FIT took the place of fsbootargs
  authed,    \* KERNEL_AUTH_SUCCESS (and ROOTFS_AUTH_SUCCESS, if it counts)
  pc,        \* the next stage of U-Boot, "linux" or "off"
  file,      \* /tmp/bootconfig.bin
  step       \* how far the upgrade script is

flash    == <<bc, image, secure, nand, preset>>
uboot    == <<try, binfo, unread, bank, kernel, rootfs, appended, authed>>
upgrade  == <<file, step>>
vars     == <<flash, uboot, pc, upgrade>>

Sets == {0, 1}
SET_AB_USABLE  == 0
DONT_USE_SET_A == 1
DONT_USE_SET_B == 2
DONT_USE_SET_AB == 3
Bootconfig == [set : Sets, status : SET_AB_USABLE .. DONT_USE_SET_AB]

\* What malloc left where the boot configuration should be: boot_set may be
\* neither A nor B.
Garbage == [set : Sets \cup {2}, status : SET_AB_USABLE .. DONT_USE_SET_AB + 1]

Marked(b, s) ==
  b.status = DONT_USE_SET_AB \/ b.status = (IF s = 0 THEN DONT_USE_SET_A ELSE DONT_USE_SET_B)

\* Mutant: the health of the sets is not looked at.
BootSetOnly(b, t) == IF b.set = 1 THEN 1 ELSE 0

\* ipq_get_rootfs_active_partition, as the flag ACTIVE_BOOT_SET keeps it: any
\* value but zero is set B, BOOT_SET_INVALID included.
ActiveSet(b, t) ==
  LET healthy == IF b.set = 0 THEN IF b.status = DONT_USE_SET_A THEN 1 ELSE 0
                 ELSE IF b.set = 1 THEN IF b.status = DONT_USE_SET_B THEN 0 ELSE 1
                 ELSE 0
  IN IF b.status = DONT_USE_SET_AB THEN 1
     ELSE IF t THEN 1 - healthy ELSE healthy

Selected == ActiveSet(bc, FALSE)

Init ==
  /\ bc \in Bootconfig
  /\ image \in [Sets -> 0 .. MaxVersion \cup {Torn}]
  /\ image[Selected] # Torn
  /\ secure \in BOOLEAN /\ nand \in BOOLEAN /\ preset \in Sets \cup {NoInfo}
  /\ try = FALSE /\ binfo = NoInfo /\ unread = FALSE
  /\ bank = 0 /\ kernel = 0 /\ rootfs = 0 /\ appended = FALSE /\ authed = FALSE
  /\ pc = "off"
  /\ file = NoInfo /\ step = "none"

\* Power failure, watchdog, reset_cpu or reboot: only the flash survives.
Reset ==
  /\ pc' = "off"
  /\ try' = FALSE /\ binfo' = NoInfo /\ unread' = FALSE
  /\ bank' = 0 /\ kernel' = 0 /\ rootfs' = 0 /\ appended' = FALSE /\ authed' = FALSE
  /\ file' = NoInfo /\ step' = "none"
  /\ UNCHANGED flash

\* The first loader may announce a trial and may hand the boot configuration
\* over in shared memory.
PowerOn ==
  /\ pc = "off"
  /\ try' \in BOOLEAN
  /\ binfo' \in {NoInfo, bc}
  /\ pc' = "read_bootconfig"
  /\ UNCHANGED <<flash, unread, bank, kernel, rootfs, appended, authed, upgrade>>

(***************************************************************************)
(* U-Boot: ipq_find_board_bdconfig, then bootipq.                          *)
(***************************************************************************)
ReadBootconfig ==
  /\ binfo' = IF binfo = NoInfo THEN bc ELSE binfo
  /\ UNCHANGED unread

\* The buffer stays when the read fails, and its contents are used.
ReadBootconfigFails ==
  /\ binfo = NoInfo
  /\ binfo' \in Garbage
  /\ unread' = TRUE

\* The buffer could not be allocated, or what was read has a wrong checksum.
NoBootconfig ==
  /\ binfo = NoInfo
  /\ UNCHANGED binfo
  /\ unread' = TRUE

FindBootconfig ==
  /\ pc = "read_bootconfig"
  /\ ReadBootconfig \/ ReadBootconfigFails \/ NoBootconfig
  /\ bank' = IF binfo' = NoInfo THEN 0 ELSE ActiveSet(binfo', try)
  /\ pc' = "check_bootconfig"
  /\ UNCHANGED <<flash, try, kernel, rootfs, appended, authed, upgrade>>

\* A board with no usable set stops here; so does ReadKernel when the flash
\* cannot be read.  A stage that fails starts the watchdog.
CheckBootconfig ==
  /\ pc = "check_bootconfig"
  /\ binfo # NoInfo => binfo.status # DONT_USE_SET_AB
  /\ pc' = "read_kernel"
  /\ UNCHANGED <<flash, uboot, upgrade>>

\* 0:HLOS or 0:HLOS_1 of the eMMC; on NAND the UBI device, attached to the
\* partition the flag names.
ReadKernel ==
  /\ pc = "read_kernel"
  /\ kernel' = bank
  /\ pc' = "authenticate"
  /\ UNCHANGED <<flash, try, binfo, unread, bank, rootfs, appended, authed, upgrade>>

\* The failure of the kernel is no failure of the stage, its code being zero.
Authenticate ==
  /\ pc = "authenticate"
  /\ authed' \in {FALSE, secure /\ image[kernel] # Torn}
  /\ pc' = "config_select"
  /\ UNCHANGED <<flash, try, binfo, unread, bank, kernel, rootfs, appended, upgrade>>

\* A torn image may show here, or not.
ConfigSelect ==
  /\ pc = "config_select"
  /\ pc' = "set_bootargs"
  /\ UNCHANGED <<flash, uboot, upgrade>>

\* Mutant: the NAND root file system is always the first, as it is without
\* BOOTCONFIG_V3.
PrimaryOnNand == IF preset # NoInfo THEN preset ELSE IF nand THEN 0 ELSE bank

\* fsbootargs is set to the active bank's root file system where the
\* environment has none.
FsBootargs == IF preset # NoInfo THEN preset ELSE bank

\* set_fs_bootargs: what the kernel's FIT asks to append comes in the place
\* of fsbootargs, and may name anything.  Arguments that are too long are
\* left out, and the kernel finds no root file system.
SetBootargs ==
  /\ pc = "set_bootargs"
  /\ \/ rootfs' = FsBootargs /\ appended' = FALSE
     \/ rootfs' \in Sets /\ appended' = TRUE
  /\ pc' = "boot_kernel"
  /\ UNCHANGED <<flash, try, binfo, unread, bank, kernel, authed, upgrade>>

\* An unauthenticated kernel goes no further.
arch_preboot_os == secure => authed

\* Torn images do not come up.
BootKernel ==
  /\ pc = "boot_kernel"
  /\ arch_preboot_os
  /\ image[kernel] # Torn /\ image[rootfs] # Torn
  /\ pc' = "linux"
  /\ UNCHANGED <<flash, uboot, upgrade>>

(***************************************************************************)
(* Linux: the script of an upgrade, and sysupgrade where it calls it.      *)
(***************************************************************************)
Script(from, to) == pc = "linux" /\ step = from /\ step' = to /\ UNCHANGED <<flash, uboot, pc>>

\* Mutants: the running set is marked; the set is switched by counting.
MarkRunning(b) ==
  IF b.status # SET_AB_USABLE THEN b
  ELSE [b EXCEPT !.status = IF b.set = 0 THEN DONT_USE_SET_A ELSE DONT_USE_SET_B]
CommitCounts(b) ==
  IF Marked(b, 1 - b.set) THEN [set |-> b.set + 1, status |-> SET_AB_USABLE]
  ELSE [b EXCEPT !.status = SET_AB_USABLE]
CommitClears(b) == [b EXCEPT !.status = SET_AB_USABLE]

\* update_bootinfo(info, 2): the set that is not the boot set is marked.
Mark(b) ==
  IF b.status # SET_AB_USABLE THEN b
  ELSE [b EXCEPT !.status = IF b.set = 0 THEN DONT_USE_SET_B ELSE DONT_USE_SET_A]

\* update_bootinfo(info, 0): the marked set becomes the boot set.
Commit(b) ==
  [set |-> IF b.set = 0 /\ b.status = DONT_USE_SET_B THEN 1
           ELSE IF b.set = 1 /\ b.status = DONT_USE_SET_A THEN 0
           ELSE b.set,
   status |-> SET_AB_USABLE]

\* The script copies the boot configuration out of the flash.  It is assumed
\* to start an upgrade only when the set that runs is the one selected, and
\* usable: not in a trial, and not when U-Boot could not read the boot
\* configuration and started another set.
Extract ==
  /\ ~try /\ kernel = Selected /\ ~Marked(bc, kernel)
  /\ Script("none", "extracted")
  /\ file' = bc

\* invalidate_bootconfig 5.
InvalidateBootconfig ==
  /\ Script("extracted", "marked")
  /\ file' = Mark(file)

Store(from, to) ==
  /\ pc = "linux" /\ step = from /\ step' = to
  /\ bc' = file
  /\ UNCHANGED <<image, secure, nand, preset, uboot, pc, file>>

\* The set that does not run is written.
Other == 1 - kernel

WriteSet(from, to, version) ==
  /\ pc = "linux" /\ step = from /\ step' = to
  /\ image' = [image EXCEPT ![Other] = version]
  /\ UNCHANGED <<bc, secure, nand, preset, uboot, pc, file>>

BeginWrite == WriteSet("stored", "writing", Torn) /\ image[kernel] < MaxVersion
EndWrite == WriteSet("writing", "written", image[kernel] + 1)

\* The new version is made the one to start, at once or after the trial of
\* the one set that is marked, once it has proved newer than the other.
Accepted ==
  /\ try /\ Selected # kernel
  /\ bc.status \notin {SET_AB_USABLE, DONT_USE_SET_AB}
  /\ image[Other] = Torn \/ image[kernel] > image[Other]

ExtractAgain ==
  /\ \/ Script("written", "extracted again")
     \/ Script("none", "extracted again") /\ Accepted
  /\ file' = bc

\* invalidate_bootconfig with an argument other than 4 and 5.
CommitBootconfig ==
  /\ Script("extracted again", "switched")
  /\ file' = Commit(file)

StoreMark == Store("marked", "stored")
StoreCommit == Store("switched", "committed")
-----------------------------------------------------------------------------
UBoot ==
  \/ FindBootconfig \/ CheckBootconfig \/ ReadKernel \/ Authenticate
  \/ ConfigSelect \/ SetBootargs \/ BootKernel

Upgrade ==
  \/ Extract \/ InvalidateBootconfig \/ StoreMark
  \/ BeginWrite \/ EndWrite
  \/ ExtractAgain \/ CommitBootconfig \/ StoreCommit

Next == PowerOn \/ UBoot \/ Upgrade \/ Reset

Spec == Init /\ [][Next]_vars
-----------------------------------------------------------------------------
TypeOK ==
  /\ bc \in Bootconfig
  /\ image \in [Sets -> 0 .. MaxVersion \cup {Torn}]
  /\ secure \in BOOLEAN /\ nand \in BOOLEAN /\ try \in BOOLEAN /\ unread \in BOOLEAN
  /\ preset \in Sets \cup {NoInfo} /\ appended \in BOOLEAN
  /\ binfo \in Garbage \cup {NoInfo}
  /\ bank \in Sets /\ kernel \in Sets /\ rootfs \in Sets /\ authed \in BOOLEAN
  /\ pc \in {"off", "read_bootconfig", "check_bootconfig", "read_kernel",
             "authenticate", "config_select", "set_bootargs", "boot_kernel", "linux"}
  /\ file \in Bootconfig \cup {NoInfo}
  /\ step \in {"none", "extracted", "marked", "stored", "writing", "written",
               "extracted again", "switched", "committed"}

(***************************************************************************)
(* An upgrade is atomic: outside a trial, the set U-Boot would start holds *)
(* a whole version at every moment, and only ever a newer one.  The marks  *)
(* update_bootinfo makes in Linux and the way U-Boot reads them have to    *)
(* agree for every state a board may be in, also after attempts that       *)
(* failed half way.                                                        *)
(***************************************************************************)
Board == INSTANCE AtomicUpgrade WITH live <- image[Selected]

UpgradeIsAtomic == Board!ASpec

(***************************************************************************)
(* Once a commit is stored, U-Boot starts the newer set.                   *)
(***************************************************************************)
CommitSwitches ==
  step = "committed" =>
    image[1 - Selected] = Torn \/ image[Selected] >= image[1 - Selected]

(***************************************************************************)
(* Outside a trial no stage of bootipq works on a set the boot             *)
(* configuration marks, although the value for "no set" counts as set B.   *)
(***************************************************************************)
MarkedSetNotBooted ==
  pc \notin {"off", "read_bootconfig", "check_bootconfig", "linux"} /\ ~try /\ binfo = bc
    => ~Marked(bc, bank)

(***************************************************************************)
(* Where U-Boot chooses the root file system, Linux never runs the kernel  *)
(* of one set on the other's.  It does not choose where the environment    *)
(* holds fsbootargs, which set_bootargs leaves alone whatever bank is      *)
(* booted, nor where the kernel's FIT names another.                       *)
(***************************************************************************)
RootfsFollowsKernel ==
  pc = "linux" /\ preset = NoInfo /\ ~appended => rootfs = kernel

(***************************************************************************)
(* What the comment "if bdinfo is NULL , consider primary as default valid *)
(* boot" in ipq_get_rootfs_active_partition promises a board whose boot    *)
(* configuration cannot be read.                                           *)
(***************************************************************************)
PrimaryByDefault == pc = "linux" /\ unread => kernel = 0
=============================================================================
