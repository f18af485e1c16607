----------------------------- MODULE BootProofs -----------------------------
(***************************************************************************)
(* Proofs about DualBoot, for every number of versions; about MultiCore,   *)
(* for every waiting time; about ImageCheck, for every set of images and   *)
(* of installed versions; each for any number of upgrades, commands and    *)
(* checks; and about the three side by side.                               *)
(*                                                                         *)
(* What update_bootinfo of sysupgrade.c does to a boot configuration is    *)
(* related once to the set U-Boot picks from it (MarkKeepsSelection,       *)
(* CommitMovesSelection); the inductive invariant of DualBoot then says    *)
(* what each step of the upgrade script has established, so that the one   *)
(* step that changes the selection finds a newer set there.                *)
(***************************************************************************)
EXTENDS MCDualBoot, TLAPS, Integers
-----------------------------------------------------------------------------
(* Dual boot and the upgrade.                                              *)

\* Since ReadKernel the stages work on one set, and Linux runs whole images.
OneSet ==
  /\ pc \in {"authenticate", "config_select", "set_bootargs", "boot_kernel", "linux"}
       => kernel = bank
  /\ pc \in {"boot_kernel", "linux"} /\ preset = NoInfo /\ ~appended => rootfs = bank
  /\ pc = "linux" => image[kernel] # Torn

\* The selection may move: exactly one set is marked, and the other is newer.
Ready ==
  /\ bc.status \in {DONT_USE_SET_A, DONT_USE_SET_B}
  /\ image[1 - Selected] # Torn /\ image[1 - Selected] > image[Selected]

\* What the script has established at each of its steps.
Progress ==
  /\ step # "none" => pc = "linux"
  /\ step = "extracted" => file = bc
  /\ step = "marked" => file = Mark(bc)
  /\ step \in {"extracted", "marked", "stored", "writing", "written"}
       => Selected = kernel /\ ~Marked(bc, kernel)
  /\ step \in {"stored", "writing", "written"}
       => bc.status \in {DONT_USE_SET_A, DONT_USE_SET_B}
  /\ step = "writing" => image[kernel] < MaxVersion
  /\ step = "written" => image[1 - kernel] = image[kernel] + 1
  /\ step = "extracted again" => file = bc /\ Ready
  /\ step = "switched" => file = Commit(bc) /\ Ready

Whole == image[Selected] # Torn

IInv == TypeOK /\ Whole /\ OneSet /\ Progress /\ CommitSwitches

(* U-Boot picks one of the two sets from any boot configuration.            *)
LEMMA Selects ==
  ASSUME NEW b \in Garbage, NEW t \in BOOLEAN
  PROVE  ActiveSet(b, t) \in Sets
BY DEF Garbage, ActiveSet, Sets, SET_AB_USABLE, DONT_USE_SET_A, DONT_USE_SET_B, DONT_USE_SET_AB

(* A boot configuration is one of the values an unread buffer can hold.    *)
LEMMA BootconfigIsGarbage == Bootconfig \subseteq Garbage
BY DEF Bootconfig, Garbage, Sets, SET_AB_USABLE, DONT_USE_SET_AB

(* update_bootinfo(info, 2) marks a set and never the one U-Boot picks.     *)
LEMMA MarkKeepsSelection ==
  ASSUME NEW b \in Bootconfig
  PROVE  /\ Mark(b) \in Bootconfig
         /\ ActiveSet(Mark(b), FALSE) = ActiveSet(b, FALSE)
         /\ ~Marked(b, ActiveSet(b, FALSE)) =>
              /\ ~Marked(Mark(b), ActiveSet(b, FALSE))
              /\ Mark(b).status \in {DONT_USE_SET_A, DONT_USE_SET_B}
<1>1. PICK s \in Sets, st \in 0 .. 3 : b = [set |-> s, status |-> st]
  BY DEF Bootconfig, SET_AB_USABLE, DONT_USE_SET_AB
<1>2. b.set = s /\ b.status = st /\ b \in [set : Sets, status : 0 .. 3]
  BY <1>1
<1>3. /\ Mark(b) = [set |-> s, status |-> IF st # 0 THEN st ELSE IF s = 0 THEN 2 ELSE 1]
  BY <1>1, <1>2 DEF Mark, SET_AB_USABLE, DONT_USE_SET_A, DONT_USE_SET_B
<1>4. QED
  BY <1>1, <1>2, <1>3 DEF Bootconfig, ActiveSet, Marked, Sets, SET_AB_USABLE,
     DONT_USE_SET_A, DONT_USE_SET_B, DONT_USE_SET_AB

(* update_bootinfo(info, 0) clears the marks and, when exactly one set is   *)
(* marked, moves the choice U-Boot makes to the other set.                  *)
LEMMA CommitMovesSelection ==
  ASSUME NEW b \in Bootconfig
  PROVE  /\ Commit(b) \in Bootconfig
         /\ b.status \in {DONT_USE_SET_A, DONT_USE_SET_B}
              => ActiveSet(Commit(b), FALSE) = 1 - ActiveSet(b, FALSE)
<1>1. b.set \in Sets /\ b.status \in 0 .. 3
  BY DEF Bootconfig, SET_AB_USABLE, DONT_USE_SET_AB
<1>2. Commit(b).set = (IF b.set = 0 /\ b.status = 2 THEN 1
                       ELSE IF b.set = 1 /\ b.status = 1 THEN 0 ELSE b.set)
  BY DEF Commit, DONT_USE_SET_A, DONT_USE_SET_B
<1>3. Commit(b).status = 0
  BY DEF Commit, SET_AB_USABLE
<1>4. Commit(b) \in Bootconfig
  BY <1>1 DEF Commit, Bootconfig, Sets, SET_AB_USABLE, DONT_USE_SET_A,
     DONT_USE_SET_B, DONT_USE_SET_AB
<1>5. QED
  BY <1>1, <1>2, <1>3, <1>4 DEF ActiveSet, Sets, DONT_USE_SET_A, DONT_USE_SET_B, DONT_USE_SET_AB

(* The set U-Boot would start is one of the two, and holds what the other   *)
(* variables say.                                                           *)
LEMMA SelectedIsSet ==
  ASSUME TypeOK
  PROVE  /\ Selected \in Sets /\ 1 - Selected \in Sets /\ 1 - kernel \in Sets
         /\ \A s \in Sets : image[s] \in 0 .. MaxVersion \cup {Torn}
         /\ \A s \in Sets : image[s] # Torn => image[s] \in 0 .. MaxVersion
<1>1. ActiveSet(bc, FALSE) \in Sets
  BY Selects, BootconfigIsGarbage DEF TypeOK
<1>0. \A s \in Sets : 1 - s \in Sets
  BY DEF Sets
<1>2. Selected \in Sets /\ 1 - Selected \in Sets
  BY <1>1, <1>0 DEF Selected
<1>3. 1 - kernel \in Sets
  BY <1>0 DEF TypeOK
<1>4. \A s \in Sets : image[s] \in 0 .. MaxVersion \cup {Torn}
  BY DEF TypeOK
<1>5. QED
  BY <1>2, <1>3, <1>4

(* Initially everything holds: the selected set is whole.                   *)
LEMMA InitInv == Init => IInv
<1> SUFFICES ASSUME Init PROVE IInv
  OBVIOUS
<1>1. TypeOK
  BY DEF Init, TypeOK, Sets
<1>2. QED
  BY <1>1 DEF Init, IInv, Whole, OneSet, Progress, CommitSwitches

(* Every step keeps the types.                                              *)
LEMMA TypeStep == IInv /\ [Next]_vars => TypeOK'
<1> SUFFICES ASSUME IInv, [Next]_vars PROVE TypeOK'
  OBVIOUS
<1> USE DEF flash, uboot, upgrade
<1>0. TypeOK
  BY DEF IInv
<1>1. CASE PowerOn
  <2>1. binfo' \in Garbage \cup {NoInfo}
    BY <1>1, BootconfigIsGarbage DEF PowerOn, IInv, TypeOK
  <2>2. QED
    BY <1>1, <2>1 DEF PowerOn, IInv, TypeOK
<1>2. CASE FindBootconfig
  <2>1. binfo' \in Garbage \cup {NoInfo} /\ unread' \in BOOLEAN
    BY <1>2, BootconfigIsGarbage
       DEF FindBootconfig, ReadBootconfig, ReadBootconfigFails, NoBootconfig, IInv, TypeOK
  <2>2. bank' \in Sets
    BY <1>2, <2>1, Selects DEF FindBootconfig, Sets, IInv, TypeOK
  <2>3. QED
    BY <1>2, <2>1, <2>2, <1>0 DEF FindBootconfig, TypeOK
<1>3. CASE UBoot /\ ~FindBootconfig
  <2>1. CASE CheckBootconfig \/ ConfigSelect \/ BootKernel
    BY <2>1, <1>0, ZenonT(60) DEF CheckBootconfig, ConfigSelect, BootKernel, TypeOK
  <2>2. CASE ReadKernel \/ SetBootargs
    BY <2>2, <1>0, ZenonT(60) DEF ReadKernel, SetBootargs, FsBootargs, TypeOK
  <2>3. CASE Authenticate
    <3>1. authed' \in BOOLEAN
      BY <2>3 DEF Authenticate, IInv, TypeOK
    <3>2. QED
      BY <2>3, <3>1, <1>0 DEF Authenticate, TypeOK
  <2>4. QED
    BY <1>3, <2>1, <2>2, <2>3 DEF UBoot
<1>4. CASE Reset
  BY <1>4 DEF Reset, Sets, IInv, TypeOK
<1>5. CASE Extract \/ InvalidateBootconfig \/ ExtractAgain \/ CommitBootconfig
  <2>1. file' \in Bootconfig
    BY <1>5, MarkKeepsSelection, CommitMovesSelection
       DEF Extract, InvalidateBootconfig, ExtractAgain, CommitBootconfig, Script,
           IInv, TypeOK, Progress
  <2>2. /\ bc' = bc /\ image' = image /\ secure' = secure /\ nand' = nand /\ preset' = preset /\ try' = try
        /\ binfo' = binfo /\ unread' = unread /\ bank' = bank /\ kernel' = kernel /\ rootfs' = rootfs /\ appended' = appended
        /\ authed' = authed /\ pc' = pc
    BY <1>5 DEF Extract, InvalidateBootconfig, ExtractAgain, CommitBootconfig, Script
  <2>3. step' \in {"extracted", "marked", "extracted again", "switched"}
    BY <1>5 DEF Extract, InvalidateBootconfig, ExtractAgain, CommitBootconfig, Script
  <2>4. QED
    BY <2>1, <2>2, <2>3, <1>0, ZenonT(60) DEF TypeOK
<1>6. CASE StoreMark \/ StoreCommit
  <2>1. bc' \in Bootconfig /\ step' \in {"stored", "committed"}
    BY <1>6, MarkKeepsSelection, CommitMovesSelection
       DEF StoreMark, StoreCommit, Store, IInv, TypeOK, Progress
  <2>2. /\ image' = image /\ secure' = secure /\ nand' = nand /\ preset' = preset /\ try' = try /\ binfo' = binfo
        /\ unread' = unread /\ bank' = bank /\ kernel' = kernel /\ rootfs' = rootfs /\ appended' = appended /\ authed' = authed
        /\ pc' = pc /\ file' = file
    BY <1>6 DEF StoreMark, StoreCommit, Store
  <2>3. QED
    BY <2>1, <2>2, <1>0, ZenonT(60) DEF TypeOK
<1>7. CASE BeginWrite \/ EndWrite
  <2>1. step = "writing" => image[kernel] \in Nat /\ image[kernel] + 1 \in 0 .. MaxVersion
    <3> SUFFICES ASSUME step = "writing"
                 PROVE  image[kernel] \in Nat /\ image[kernel] + 1 \in 0 .. MaxVersion
      OBVIOUS
    <3>1. image[kernel] # Torn /\ image[kernel] < MaxVersion /\ kernel \in Sets
      BY DEF IInv, Progress, OneSet, TypeOK
    <3>2. image[kernel] \in 0 .. MaxVersion
      BY <3>1, SelectedIsSet DEF IInv
    <3>3. QED
      BY <3>1, <3>2, DualBootAssumption
  <2>2. image' \in [Sets -> 0 .. MaxVersion \cup {Torn}]
    BY <1>7, <2>1 DEF BeginWrite, EndWrite, WriteSet, Other, IInv, TypeOK
  <2>3. step' \in {"writing", "written"}
    BY <1>7 DEF BeginWrite, EndWrite, WriteSet
  <2>4. /\ bc' = bc /\ secure' = secure /\ nand' = nand /\ preset' = preset /\ try' = try /\ binfo' = binfo
        /\ unread' = unread /\ bank' = bank /\ kernel' = kernel /\ rootfs' = rootfs /\ appended' = appended /\ authed' = authed
        /\ pc' = pc /\ file' = file
    BY <1>7 DEF BeginWrite, EndWrite, WriteSet
  <2>5. QED
    BY <2>2, <2>3, <2>4, <1>0, ZenonT(60) DEF TypeOK
<1>8. CASE UNCHANGED vars
  <2>1. /\ bc' = bc /\ image' = image /\ secure' = secure /\ nand' = nand /\ preset' = preset
        /\ try' = try /\ binfo' = binfo /\ unread' = unread /\ bank' = bank
        /\ kernel' = kernel /\ rootfs' = rootfs /\ appended' = appended /\ authed' = authed
    BY <1>8 DEF vars
  <2>2. pc' = pc /\ file' = file /\ step' = step
    BY <1>8 DEF vars
  <2>3. TypeOK
    BY DEF IInv
  <2>4. /\ secure' \in BOOLEAN /\ nand' \in BOOLEAN /\ try' \in BOOLEAN
        /\ unread' \in BOOLEAN /\ authed' \in BOOLEAN /\ appended' \in BOOLEAN
        /\ preset' \in Sets \cup {NoInfo}
    BY <2>1, <2>3, Zenon DEF TypeOK
  <2>5. /\ bc' \in Bootconfig /\ image' \in [Sets -> 0 .. MaxVersion \cup {Torn}]
        /\ binfo' \in Garbage \cup {NoInfo} /\ file' \in Bootconfig \cup {NoInfo}
    BY <2>1, <2>2, <2>3, Zenon DEF TypeOK
  <2>6. bank' \in Sets /\ kernel' \in Sets /\ rootfs' \in Sets
    BY <2>1, <2>3, Zenon DEF TypeOK
  <2>7. QED
    BY <2>2, <2>3, <2>4, <2>5, <2>6 DEF TypeOK
<1>9. QED
  BY <1>1, <1>2, <1>3, <1>4, <1>5, <1>6, <1>7, <1>8 DEF Next, UBoot, Upgrade

(* Writing the other set leaves the running one as it is.                   *)
LEMMA OtherIsNotRunning ==
  ASSUME TypeOK, NEW v, image' = [image EXCEPT ![Other] = v]
  PROVE  image'[kernel] = image[kernel] /\ image'[1 - kernel] = v
<1>1. kernel \in Sets /\ 1 - kernel \in Sets
  BY SelectedIsSet DEF TypeOK
<1>2. kernel # 1 - kernel
  BY <1>1 DEF Sets
<1>3. image \in [Sets -> 0 .. MaxVersion \cup {Torn}]
  BY DEF TypeOK
<1>4. QED
  BY <1>1, <1>2, <1>3 DEF Other

(* The stages of U-Boot and the script leave the other stages' set alone.   *)
LEMMA OneSetStep == IInv /\ [Next]_vars => OneSet'
<1> SUFFICES ASSUME IInv, [Next]_vars PROVE OneSet'
  OBVIOUS
<1> USE DEF IInv, OneSet
<1>1. CASE PowerOn
  BY <1>1 DEF PowerOn
<1>2. CASE FindBootconfig \/ CheckBootconfig \/ ReadKernel
  BY <1>2 DEF FindBootconfig, CheckBootconfig, ReadKernel
<1>3. CASE Authenticate \/ ConfigSelect
  BY <1>3 DEF Authenticate, ConfigSelect, flash, uboot
<1>4. CASE SetBootargs
  <2>1. /\ pc = "set_bootargs" /\ pc' = "boot_kernel" /\ preset' = preset
        /\ kernel' = kernel /\ bank' = bank
        /\ appended' = TRUE \/ rootfs' = FsBootargs
    BY <1>4 DEF SetBootargs, flash
  <2>2. preset' = NoInfo /\ ~appended' => rootfs' = bank'
    BY <2>1 DEF FsBootargs
  <2>3. QED
    BY <2>1, <2>2
<1>5. CASE BootKernel
  BY <1>5 DEF BootKernel, flash, uboot
<1>6. CASE Reset
  BY <1>6 DEF Reset
<1>7. CASE Extract \/ InvalidateBootconfig \/ ExtractAgain \/ CommitBootconfig
  BY <1>7 DEF Extract, InvalidateBootconfig, ExtractAgain, CommitBootconfig,
     Script, flash, uboot
<1>8. CASE StoreMark \/ StoreCommit
  BY <1>8 DEF StoreMark, StoreCommit, Store, uboot
<1>9. CASE BeginWrite \/ EndWrite
  <2>1. \E v : image' = [image EXCEPT ![Other] = v]
    BY <1>9 DEF BeginWrite, EndWrite, WriteSet
  <2>2. image'[kernel] = image[kernel]
    BY <2>1, OtherIsNotRunning
  <2>3. pc' = pc /\ kernel' = kernel /\ rootfs' = rootfs /\ appended' = appended /\ bank' = bank
        /\ preset' = preset
    BY <1>9 DEF BeginWrite, EndWrite, WriteSet, uboot
  <2>4. QED
    BY <2>2, <2>3
<1>10. CASE UNCHANGED vars
  BY <1>10 DEF vars, flash, uboot
<1>11. QED
  BY <1>1, <1>2, <1>3, <1>4, <1>5, <1>6, <1>7, <1>8, <1>9, <1>10 DEF Next, UBoot, Upgrade

(* Steps that touch neither the flash nor the script keep what it has       *)
(* established.                                                             *)
LEMMA FrameKeepsProgress ==
  ASSUME Whole, Progress, CommitSwitches,
         bc' = bc, image' = image, kernel' = kernel, pc' = pc, file' = file, step' = step
  PROVE  Whole' /\ Progress' /\ CommitSwitches'
<1>1. Selected' = Selected
  BY DEF Selected
<1>2. QED
  BY <1>1 DEF Whole, Progress, CommitSwitches, Ready

(* While no script runs, only the selected set counts.                      *)
LEMMA IdleKeepsProgress ==
  ASSUME Whole, bc' = bc, image' = image, step' = "none"
  PROVE  Whole' /\ Progress' /\ CommitSwitches'
<1>1. Selected' = Selected
  BY DEF Selected
<1>2. QED
  BY <1>1 DEF Whole, Progress, CommitSwitches

(* A stored commit moves the selection to the other, newer set.             *)
LEMMA StoreCommitMoves ==
  ASSUME IInv, StoreCommit
  PROVE  /\ Selected' = 1 - Selected /\ Selected \in Sets
         /\ image' = image /\ step' = "committed"
         /\ image[Selected] \in Nat /\ image[1 - Selected] \in Nat
         /\ image[1 - Selected] > image[Selected]
<1>1. bc' = Commit(bc) /\ image' = image /\ step' = "committed" /\ Ready
  BY DEF StoreCommit, Store, IInv, Progress
<1>2. Selected' = 1 - Selected
  BY <1>1, CommitMovesSelection DEF Selected, Ready, IInv, TypeOK
<1>3. Selected \in Sets /\ 1 - Selected \in Sets
  BY SelectedIsSet DEF IInv
<1>4. image[Selected] \in 0 .. MaxVersion /\ image[1 - Selected] \in 0 .. MaxVersion
  BY <1>1, <1>3, SelectedIsSet DEF IInv, Whole, Ready
<1>5. QED
  BY <1>1, <1>2, <1>3, <1>4 DEF Ready

(* A stored mark leaves the selection where it is, on an unmarked set.      *)
LEMMA StoreMarkKeeps ==
  ASSUME IInv, StoreMark
  PROVE  /\ Selected' = Selected /\ Selected = kernel /\ kernel' = kernel
         /\ image' = image /\ step' = "stored" /\ pc' = pc
         /\ ~Marked(bc', kernel) /\ bc'.status \in {DONT_USE_SET_A, DONT_USE_SET_B}
<1>1. /\ bc' = Mark(bc) /\ image' = image /\ step' = "stored" /\ kernel' = kernel
      /\ Selected = kernel /\ ~Marked(bc, kernel) /\ pc' = pc
  BY DEF StoreMark, Store, uboot, IInv, Progress
<1>2. bc \in Bootconfig
  BY DEF IInv, TypeOK
<1>3. QED
  BY <1>1, <1>2, MarkKeepsSelection DEF Selected

(* The script reads the boot configuration again when the set to switch to  *)
(* is whole and newer.                                                      *)
LEMMA ReadyToSwitch ==
  ASSUME IInv, ExtractAgain
  PROVE  Ready /\ file' = bc /\ step' = "extracted again"
<1>1. file' = bc /\ step' = "extracted again"
  BY DEF ExtractAgain, Script
<1>2. CASE step = "written"
  <2>1. /\ Selected = kernel /\ image[1 - kernel] = image[kernel] + 1
        /\ bc.status \in {DONT_USE_SET_A, DONT_USE_SET_B}
    BY <1>2 DEF IInv, Progress
  <2>2. image[kernel] \in 0 .. MaxVersion
    BY <1>2, <2>1, SelectedIsSet DEF IInv, Whole
  <2>3. image[1 - kernel] # Torn /\ image[1 - kernel] > image[kernel]
    BY <2>1, <2>2, DualBootAssumption
  <2>4. QED
    BY <1>1, <2>1, <2>3 DEF Ready
<1>3. CASE Accepted /\ pc = "linux"
  <2>1. Selected \in Sets /\ kernel \in Sets /\ Selected # kernel
    BY <1>3, SelectedIsSet DEF Accepted, IInv, TypeOK
  <2>2. kernel = 1 - Selected /\ Other = Selected
    BY <2>1 DEF Sets, Other
  <2>3. image[kernel] # Torn /\ image[Selected] # Torn
    BY <1>3 DEF IInv, OneSet, Whole
  <2>4. image[kernel] > image[Selected]
    BY <1>3, <2>2, <2>3 DEF Accepted
  <2>5. bc.status \in {DONT_USE_SET_A, DONT_USE_SET_B}
    <3>1. bc.status \in 0 .. 3
      BY DEF IInv, TypeOK, Bootconfig, SET_AB_USABLE, DONT_USE_SET_AB
    <3>2. QED
      BY <1>3, <3>1 DEF Accepted, SET_AB_USABLE, DONT_USE_SET_A, DONT_USE_SET_B, DONT_USE_SET_AB
  <2>6. QED
    BY <1>1, <2>2, <2>3, <2>4, <2>5 DEF Ready
<1>4. QED
  BY <1>2, <1>3 DEF ExtractAgain, Script

(* Every step keeps the selected set whole and the script's record true.    *)
LEMMA ProgressStep == IInv /\ [Next]_vars => Whole' /\ Progress' /\ CommitSwitches'
<1> SUFFICES ASSUME IInv, [Next]_vars PROVE Whole' /\ Progress' /\ CommitSwitches'
  OBVIOUS
<1>1. CASE PowerOn \/ UBoot
  <2>1. bc' = bc /\ image' = image /\ step' = step
    BY <1>1 DEF PowerOn, UBoot, FindBootconfig, CheckBootconfig, ReadKernel, Authenticate,
       ConfigSelect, SetBootargs, BootKernel, flash, upgrade
  <2>2. pc # "linux"
    BY <1>1 DEF PowerOn, UBoot, FindBootconfig, CheckBootconfig, ReadKernel, Authenticate,
       ConfigSelect, SetBootargs, BootKernel
  <2>3. step' = "none"
    BY <2>1, <2>2 DEF IInv, Progress
  <2>4. QED
    BY <2>1, <2>3, IdleKeepsProgress DEF IInv
<1>2. CASE Reset
  BY <1>2, IdleKeepsProgress DEF Reset, flash, IInv
<1>3. CASE Extract \/ InvalidateBootconfig \/ CommitBootconfig \/ ExtractAgain
  <2>1. /\ bc' = bc /\ image' = image /\ kernel' = kernel /\ pc' = pc /\ pc = "linux"
        /\ step' \in {"extracted", "marked", "extracted again", "switched"}
    BY <1>3 DEF Extract, InvalidateBootconfig, CommitBootconfig, ExtractAgain, Script,
       flash, uboot
  <2>2. Selected' = Selected
    BY <2>1 DEF Selected
  <2>3. Whole' /\ CommitSwitches'
    BY <2>1, <2>2 DEF IInv, Whole, CommitSwitches
  <2>4. CASE Extract
    <3>1. step' = "extracted" /\ file' = bc /\ Selected = kernel /\ ~Marked(bc, kernel)
      BY <2>4 DEF Extract, Script
    <3>2. QED
      BY <2>1, <2>2, <2>3, <3>1 DEF Progress
  <2>5. CASE InvalidateBootconfig
    <3>1. step = "extracted" /\ step' = "marked" /\ file' = Mark(file)
      BY <2>5 DEF InvalidateBootconfig, Script
    <3>2. file = bc /\ Selected = kernel /\ ~Marked(bc, kernel)
      BY <3>1 DEF IInv, Progress
    <3>3. QED
      BY <2>1, <2>2, <2>3, <3>1, <3>2 DEF Progress
  <2>6. CASE CommitBootconfig
    <3>1. step = "extracted again" /\ step' = "switched" /\ file' = Commit(file)
      BY <2>6 DEF CommitBootconfig, Script
    <3>2. file = bc /\ Ready
      BY <3>1 DEF IInv, Progress
    <3>3. Ready'
      BY <2>1, <2>2, <3>2 DEF Ready
    <3>4. QED
      BY <2>1, <2>3, <3>1, <3>2, <3>3 DEF Progress
  <2>7. CASE ExtractAgain
    <3>1. Ready /\ file' = bc /\ step' = "extracted again"
      BY <2>7, ReadyToSwitch
    <3>2. Ready'
      BY <2>1, <2>2, <3>1 DEF Ready
    <3>3. QED
      BY <2>1, <2>3, <3>1, <3>2 DEF Progress
  <2>8. QED
    BY <1>3, <2>4, <2>5, <2>6, <2>7
<1>4. CASE StoreMark
  <2>1. pc = "linux"
    BY <1>4 DEF StoreMark, Store
  <2>2. QED
    BY <1>4, <2>1, StoreMarkKeeps DEF IInv, Whole, Progress, CommitSwitches
<1>5. CASE StoreCommit
  <2>1. 1 - Selected' = Selected
    BY <1>5, StoreCommitMoves DEF Sets
  <2>2. Whole' /\ CommitSwitches'
    BY <1>5, <2>1, StoreCommitMoves, DualBootAssumption DEF Whole, CommitSwitches
  <2>3. pc' = "linux"
    BY <1>5 DEF StoreCommit, Store
  <2>4. QED
    BY <1>5, <2>2, <2>3, StoreCommitMoves DEF Progress
<1>6. CASE BeginWrite \/ EndWrite
  <2>1. /\ bc' = bc /\ kernel' = kernel /\ pc' = pc /\ pc = "linux"
        /\ step \in {"stored", "writing"} /\ step' \in {"writing", "written"}
    BY <1>6 DEF BeginWrite, EndWrite, WriteSet, uboot
  <2>2. Selected' = Selected /\ Selected = kernel /\ ~Marked(bc, kernel)
        /\ bc.status \in {DONT_USE_SET_A, DONT_USE_SET_B}
    BY <2>1 DEF Selected, IInv, Progress
  <2>3. image'[kernel] = image[kernel]
    BY <1>6, OtherIsNotRunning DEF BeginWrite, EndWrite, WriteSet, IInv
  <2>4. CASE BeginWrite
    BY <2>1, <2>2, <2>3, <2>4 DEF BeginWrite, WriteSet, IInv, Whole, Progress, CommitSwitches
  <2>5. CASE EndWrite
    <3>1. image'[1 - kernel] = image[kernel] + 1 /\ step' = "written"
      BY <2>5, OtherIsNotRunning DEF EndWrite, WriteSet, IInv
    <3>2. QED
      BY <2>1, <2>2, <2>3, <3>1 DEF IInv, Whole, Progress, CommitSwitches
  <2>6. QED
    BY <1>6, <2>4, <2>5
<1>7. CASE UNCHANGED vars
  BY <1>7, FrameKeepsProgress DEF vars, flash, uboot, upgrade, IInv
<1>8. QED
  BY <1>1, <1>2, <1>3, <1>4, <1>5, <1>6, <1>7 DEF Next, Upgrade

(* The inductive invariant holds in every reachable state.                  *)
LEMMA Invariance == Spec => []IInv
<1>1. IInv /\ [Next]_vars => IInv'
  BY TypeStep, OneSetStep, ProgressStep DEF IInv
<1>2. QED
  BY InitInv, <1>1, PTL DEF Spec

(* Every variable has its type in every reachable state.                    *)
THEOREM TypeCorrect == Spec => []TypeOK
BY Invariance, PTL DEF IInv

(* Once update_bootinfo's commit is in the flash, U-Boot's choice is the    *)
(* newer set.                                                               *)
THEOREM CommitSwitchesSet == Spec => []CommitSwitches
BY Invariance, PTL DEF IInv

(* Linux never runs one set's kernel on the other set's root file system,   *)
(* unless a saved fsbootargs or the kernel's FIT names it (set_bootargs).   *)
THEOREM RootfsIsKernels == Spec => []RootfsFollowsKernel
<1>1. IInv => RootfsFollowsKernel
  BY DEF IInv, OneSet, RootfsFollowsKernel
<1>2. QED
  BY Invariance, <1>1, PTL

\* Until the next reset U-Boot works with what it made of the boot
\* configuration it found, and goes on only if that leaves it a set.
BankFits ==
  pc \notin {"off", "read_bootconfig"} /\ binfo # NoInfo =>
    /\ bank = ActiveSet(binfo, try)
    /\ pc # "check_bootconfig" => binfo.status # DONT_USE_SET_AB

(* Every step keeps U-Boot's choice and the configuration it comes from.    *)
LEMMA BankFitsStep == BankFits /\ [Next]_vars => BankFits'
<1> SUFFICES ASSUME BankFits, [Next]_vars PROVE BankFits'
  OBVIOUS
<1>1. CASE PowerOn \/ Reset
  BY <1>1 DEF PowerOn, Reset, BankFits
<1>2. CASE FindBootconfig
  BY <1>2 DEF FindBootconfig, BankFits
<1>3. CASE CheckBootconfig
  <2>1. pc = "check_bootconfig" /\ (binfo # NoInfo => binfo.status # DONT_USE_SET_AB)
    BY <1>3 DEF CheckBootconfig
  <2>2. binfo' = binfo /\ bank' = bank /\ try' = try
    BY <1>3 DEF CheckBootconfig, uboot
  <2> QED
    BY <2>1, <2>2 DEF BankFits
<1>4. ASSUME UNCHANGED <<binfo, bank, try>>,
             pc' = pc \/ pc \notin {"off", "read_bootconfig", "check_bootconfig"}
      PROVE  BankFits'
  BY <1>4 DEF BankFits
<1>5. ReadKernel \/ Authenticate \/ ConfigSelect \/ SetBootargs \/ BootKernel
        => /\ UNCHANGED <<binfo, bank, try>>
           /\ pc \notin {"off", "read_bootconfig", "check_bootconfig"}
  BY DEF ReadKernel, Authenticate, ConfigSelect, SetBootargs, BootKernel, uboot
<1>6. Upgrade \/ UNCHANGED vars => UNCHANGED <<binfo, bank, try>> /\ pc' = pc
  BY DEF Upgrade, Extract, InvalidateBootconfig, ExtractAgain, CommitBootconfig, Script,
     StoreMark, StoreCommit, Store, BeginWrite, EndWrite, WriteSet, uboot, vars
<1> QED
  BY <1>1, <1>2, <1>3, <1>4, <1>5, <1>6 DEF Next, UBoot

(* Outside a trial, no stage of bootipq works on a set that the boot        *)
(* configuration it read from the flash marks, for every boot configuration *)
(* a board may hold and whatever upgrade it is in.                          *)
THEOREM MarkedSetNeverBooted == Spec => []MarkedSetNotBooted
<1>1. Init => BankFits
  BY DEF Init, BankFits
<1>2. Spec => []BankFits
  BY <1>1, BankFitsStep, PTL DEF Spec
<1>3. TypeOK /\ BankFits => MarkedSetNotBooted
  <2> SUFFICES ASSUME TypeOK, BankFits, ~try, binfo = bc,
                      pc \notin {"off", "read_bootconfig", "check_bootconfig", "linux"}
               PROVE  ~Marked(bc, bank)
    BY DEF MarkedSetNotBooted
  <2>0. NoInfo \notin Garbage
    BY DualBootAssumption DEF Garbage, Sets, SET_AB_USABLE, DONT_USE_SET_AB
  <2>1. bc \in Bootconfig /\ bc # NoInfo
    BY <2>0, BootconfigIsGarbage DEF TypeOK
  <2>2. bank = ActiveSet(bc, FALSE) /\ bc.status # DONT_USE_SET_AB
    BY <2>1 DEF BankFits, TypeOK
  <2>3. bc.set \in Sets /\ bc.status \in 0 .. 3
    BY <2>1 DEF Bootconfig, SET_AB_USABLE, DONT_USE_SET_AB
  <2> QED
    BY <2>2, <2>3 DEF ActiveSet, Marked, Sets, DONT_USE_SET_A, DONT_USE_SET_B, DONT_USE_SET_AB
<1> QED
  BY TypeCorrect, <1>2, <1>3, PTL

(* The set U-Boot would start changes in one step, to a newer version.      *)
LEMMA AtomicStep == IInv /\ [Next]_vars => [Board!Switch]_(image[Selected])
<1> SUFFICES ASSUME IInv, [Next]_vars
             PROVE  image'[Selected'] = image[Selected] \/ Board!Switch
  OBVIOUS
<1>1. CASE StoreCommit
  BY <1>1, StoreCommitMoves DEF Board!Switch
<1>2. CASE StoreMark
  BY <1>2, StoreMarkKeeps
<1>3. CASE BeginWrite \/ EndWrite
  <2>1. image'[kernel] = image[kernel]
    BY <1>3, OtherIsNotRunning DEF BeginWrite, EndWrite, WriteSet, IInv
  <2>2. bc' = bc /\ step \in {"stored", "writing"}
    BY <1>3 DEF BeginWrite, EndWrite, WriteSet
  <2>3. Selected' = Selected /\ Selected = kernel
    BY <2>2 DEF Selected, IInv, Progress
  <2>4. QED
    BY <2>1, <2>3
<1>4. CASE bc' = bc /\ image' = image
  BY <1>4 DEF Selected
<1>5. (Next /\ ~StoreCommit /\ ~StoreMark /\ ~BeginWrite /\ ~EndWrite) \/ UNCHANGED vars
        => bc' = bc /\ image' = image
  BY DEF Next, UBoot, Upgrade, PowerOn, FindBootconfig, CheckBootconfig, ReadKernel,
     Authenticate, ConfigSelect, SetBootargs, BootKernel, Reset, Extract,
     InvalidateBootconfig, ExtractAgain, CommitBootconfig, Script, vars, flash
<1>6. QED
  BY <1>1, <1>2, <1>3, <1>4, <1>5

(* The two sets and the boot configuration implement an atomic upgrade, for *)
(* any number of versions and whatever the states the flash starts from.    *)
THEOREM UpgradeAtomic == Spec => UpgradeIsAtomic
<1>1. IInv => Board!AInit
  <2>1. ASSUME IInv PROVE image[Selected] \in 0 .. MaxVersion
    BY <2>1, SelectedIsSet DEF IInv, Whole
  <2>2. QED
    BY <2>1, DualBootAssumption DEF Board!AInit
<1>2. QED
  BY InitInv, Invariance, AtomicStep, <1>1, PTL DEF Spec, UpgradeIsAtomic, Board!ASpec
-----------------------------------------------------------------------------
(* Secondary cores.                                                        *)

\* While a command is under way its cores have their stacks; afterwards
\* nothing is left of it.
HeapAndSwitches ==
  /\ at # "prompt" => argc \in Core /\ stack = 1 .. argc /\ {"watchdog", "dcache"} \subseteq off
  /\ at = "prompt" => off = {} /\ core_on_status = {} /\ (stack = {} \/ starved)
  /\ at \in {"power_on", "wait_up"} => i \in 1 .. argc
  /\ at \in {"complete", "power_off"} => i = argc + 1
  /\ at = "power_off" => core_status = {}

\* The cores the command at hand has powered up so far.
Started(c) == c < i \/ (c = i /\ at = "wait_up")

\* A core that is on was powered up and is not yet seen off.
OnlyStarted ==
  \A c \in Core : power[c] = "on" =>
    /\ at # "prompt" /\ Started(c)
    /\ c \in core_on_status \/ (at = "wait_up" /\ c = i)

\* What a core has told: its result before its completion, and everything
\* once it is off again.
Told(c) ==
  /\ visible[c] \subseteq stored[c]
  /\ "cmd_complete" \in stored[c] => "cmd_result" \in stored[c]
  /\ at # "prompt" /\ Started(c) /\ power[c] = "off" =>
       visible[c] = stored[c] /\ "cmd_complete" \in stored[c]
AllTold == \A c \in Core : Told(c)

\* What was printed when the prompt came back.
Reported ==
  at = "prompt" => \A c \in Core : report[c] \in {"PASS", "FAIL"} =>
                                     (report[c] = "FAIL" <=> outcome[c] = -1)

CoresInv == Cores!TypeOK /\ HeapAndSwitches /\ OnlyStarted /\ AllTold /\ Reported

LEMMA CoreIs == Core = 1 .. 3 /\ UpWait \in Nat \ {0} /\ OffWait \in Nat \ {0} /\ MaxCalls \in Nat
BY CoresAre DEF Cores!MultiCoreAssumption

LEMMA CoresStart == Cores!Init => CoresInv
<1> SUFFICES ASSUME Cores!Init PROVE CoresInv
  OBVIOUS
<1>1. Cores!TypeOK
  <2>1. stored \in [Core -> SUBSET Cores!Words] /\ visible \in [Core -> SUBSET Cores!Words]
    BY DEF Cores!Init, Cores!Words
  <2>2. power \in [Core -> {"off", "on"}] /\ outcome \in [Core -> {-1, 0, 1}]
        /\ report \in [Core -> {"none", "usage", "INCOMPLETE", "PASS", "FAIL"}]
    BY DEF Cores!Init
  <2>3. argc \in Core \cup {0} /\ i \in Core \cup {argc + 1} /\ delay \in Nat /\ delay <= UpWait + OffWait
        /\ calls \in 0 .. MaxCalls
    BY CoreIs DEF Cores!Init
  <2>4. at = "prompt" /\ core_status = {} /\ core_on_status = {} /\ off = {} /\ stack = {} /\ starved = FALSE
    BY DEF Cores!Init
  <2> QED BY <2>1, <2>2, <2>3, <2>4 DEF Cores!TypeOK
<1>2. HeapAndSwitches /\ OnlyStarted /\ Reported
  BY CoreIs DEF Cores!Init, HeapAndSwitches, OnlyStarted, Reported
<1>3. AllTold
  BY CoreIs DEF Cores!Init, AllTold, Told
<1> QED BY <1>1, <1>2, <1>3 DEF CoresInv

(* Every variable of the command and of the cores keeps its range.         *)
LEMMA CoresTypeStep ==
  ASSUME Cores!TypeOK, HeapAndSwitches, Cores!Next
  PROVE  Cores!TypeOK'
<1>1. CASE Cores!Refuse
  BY <1>1, CoreIs DEF Cores!Refuse, Cores!CoresSame, Cores!TypeOK, HeapAndSwitches, Cores!Words
<1>2. ASSUME NEW n \in Core, Cores!Schedule(n) PROVE Cores!TypeOK'
  <2>1. stored' \in [Core -> SUBSET Cores!Words] /\ visible' \in [Core -> SUBSET Cores!Words]
        /\ report' \in [Core -> {"none", "usage", "INCOMPLETE", "PASS", "FAIL"}]
    BY <1>2 DEF Cores!Schedule, Cores!Words
  <2>2. argc' \in Core /\ i' \in Core /\ delay' = 0 /\ calls' \in 0 .. MaxCalls
    BY <1>2, CoreIs DEF Cores!Schedule, Cores!TypeOK
  <2>3. stack' \subseteq Core /\ starved' \in BOOLEAN
    <3>1. PICK k \in 1 .. n + 1 : stack' = 1 .. (k - 1)
      <4>1. CASE stack' = 1 .. n
        BY <1>2, <4>1, CoreIs
      <4>2. CASE \E k \in 1 .. n : stack' = 1 .. (k - 1)
        BY <1>2, <4>2, CoreIs
      <4> QED BY <1>2, <4>1, <4>2 DEF Cores!Schedule
    <3>2. starved' \in BOOLEAN
      BY <1>2 DEF Cores!Schedule
    <3> QED BY <1>2, <3>1, <3>2, CoreIs
  <2>4. at' \in {"prompt", "power_on"} /\ off' \subseteq {"watchdog", "dcache", "console"}
    BY <1>2 DEF Cores!Schedule, Cores!TypeOK
  <2>5. 0 \in Nat /\ 0 <= UpWait + OffWait
    BY CoreIs
  <2> QED BY <1>2, <2>1, <2>2, <2>3, <2>4, <2>5 DEF Cores!Schedule, Cores!TypeOK
<1>3. CASE Cores!PowerOn
  BY <1>3, CoreIs DEF Cores!PowerOn, Cores!CoresSame, Cores!TypeOK, HeapAndSwitches, Cores!Words
<1>4. CASE Cores!WaitUp
  BY <1>4, CoreIs DEF Cores!WaitUp, Cores!IsUp, Cores!CoresSame, Cores!TypeOK, HeapAndSwitches, Cores!Words
<1>5. CASE Cores!Up
  BY <1>5, CoreIs DEF Cores!Up, Cores!IsUp, Cores!CoresSame, Cores!TypeOK, HeapAndSwitches, Cores!Words
<1>6. ASSUME NEW c \in Core, Cores!Complete(c) PROVE Cores!TypeOK'
  BY <1>6, CoreIs DEF Cores!Complete, Cores!Says, Cores!CoresSame, Cores!TypeOK, HeapAndSwitches, Cores!Words
<1>7. CASE Cores!PollOff
  <2>1. core_on_status' \subseteq core_on_status /\ UNCHANGED <<argc, i>>
    BY <1>7 DEF Cores!PollOff
  <2>2. core_status' = {}
    BY <1>7 DEF Cores!PollOff, HeapAndSwitches
  <2>3. delay' \in Nat /\ delay' <= UpWait + OffWait
    BY <1>7, CoreIs DEF Cores!PollOff, Cores!TypeOK
  <2> QED BY <1>7, <2>1, <2>2, <2>3 DEF Cores!PollOff, Cores!CoresSame, Cores!TypeOK
<1>8. CASE Cores!Finish
  BY <1>8, CoreIs DEF Cores!Finish, Cores!Named, Cores!Says, Cores!CoresSame, Cores!TypeOK, HeapAndSwitches, Cores!Words
<1>9. CASE Cores!Restart
  <2>1. stored' \in [Core -> SUBSET Cores!Words] /\ visible' \in [Core -> SUBSET Cores!Words]
    BY <1>9 DEF Cores!Restart, Cores!Words
  <2>2. power' \in [Core -> {"off", "on"}] /\ outcome' \in [Core -> {-1, 0, 1}]
        /\ report' \in [Core -> {"none", "usage", "INCOMPLETE", "PASS", "FAIL"}]
    BY <1>9 DEF Cores!Restart
  <2>3. argc' = 0 /\ i' = argc' + 1 /\ delay' \in Nat /\ delay' <= UpWait + OffWait
    BY <1>9, CoreIs DEF Cores!Restart
  <2>4. at' = "prompt" /\ core_status' = {} /\ core_on_status' = {} /\ off' = {} /\ stack' = {}
        /\ starved' = FALSE /\ calls' = calls
    BY <1>9 DEF Cores!Restart
  <2> QED BY <2>1, <2>2, <2>3, <2>4 DEF Cores!TypeOK
<1>10. ASSUME NEW c \in Core, Cores!CpuUp(c) PROVE Cores!TypeOK'
  BY <1>10, CoreIs DEF Cores!CpuUp, Cores!Write, Cores!BootSame, Cores!TypeOK, HeapAndSwitches, Cores!Words
<1>11. ASSUME NEW c \in Core, Cores!Result(c) PROVE Cores!TypeOK'
  BY <1>11, CoreIs DEF Cores!Result, Cores!Write, Cores!BootSame, Cores!TypeOK, HeapAndSwitches, Cores!Words
<1>12. ASSUME NEW c \in Core, Cores!CmdComplete(c) PROVE Cores!TypeOK'
  BY <1>12, CoreIs DEF Cores!CmdComplete, Cores!Write, Cores!BootSame, Cores!TypeOK, HeapAndSwitches, Cores!Words
<1>13. ASSUME NEW c \in Core, Cores!PowerDown(c) PROVE Cores!TypeOK'
  BY <1>13, CoreIs DEF Cores!PowerDown, Cores!BootSame, Cores!TypeOK, HeapAndSwitches, Cores!Words
<1>14. ASSUME NEW c \in Core, NEW word \in Cores!Words, Cores!Appear(c, word) PROVE Cores!TypeOK'
  BY <1>14, CoreIs DEF Cores!Appear, Cores!BootSame, Cores!TypeOK, HeapAndSwitches, Cores!Words
<1>15. Cores!NotEnabled \/ Cores!NeverUp \/ Cores!CtrlC \/ Cores!NeverOff => Cores!Restart
  BY DEF Cores!NotEnabled, Cores!NeverUp, Cores!CtrlC, Cores!NeverOff
<1> QED BY <1>1, <1>2, <1>3, <1>4, <1>5, <1>6, <1>7, <1>8, <1>9, <1>10, <1>11, <1>12, <1>13, <1>14, <1>15 DEF Cores!Next

LEMMA HeapStep ==
  ASSUME Cores!TypeOK, HeapAndSwitches, Cores!Next
  PROVE  HeapAndSwitches'
<1>1. CASE Cores!Refuse
  BY <1>1, CoreIs DEF Cores!Refuse, Cores!CoresSame, Cores!TypeOK, HeapAndSwitches
<1>2. ASSUME NEW n \in Core, Cores!Schedule(n) PROVE HeapAndSwitches'
  <2>1. argc' = n /\ i' = 1 /\ n \in 1 .. 3 /\ core_on_status' = {}
    BY <1>2, CoreIs DEF Cores!Schedule, HeapAndSwitches
  <2>2. \/ at' = "power_on" /\ off' = {"watchdog", "dcache"} /\ stack' = 1 .. n
        \/ at' = "prompt" /\ off' = {} /\ starved' = TRUE
    BY <1>2 DEF Cores!Schedule, HeapAndSwitches
  <2>3. 1 \in 1 .. n
    BY <2>1
  <2> QED BY <2>1, <2>2, <2>3, CoreIs DEF HeapAndSwitches
<1>3. CASE Cores!PowerOn
  BY <1>3, CoreIs DEF Cores!PowerOn, Cores!CoresSame, Cores!TypeOK, HeapAndSwitches
<1>4. CASE Cores!WaitUp
  BY <1>4, CoreIs DEF Cores!WaitUp, Cores!IsUp, Cores!CoresSame, Cores!TypeOK, HeapAndSwitches
<1>5. CASE Cores!Up
  BY <1>5, CoreIs DEF Cores!Up, Cores!IsUp, Cores!CoresSame, Cores!TypeOK, HeapAndSwitches
<1>6. ASSUME NEW c \in Core, Cores!Complete(c) PROVE HeapAndSwitches'
  BY <1>6, CoreIs DEF Cores!Complete, Cores!Says, Cores!CoresSame, Cores!TypeOK, HeapAndSwitches
<1>7. CASE Cores!PollOff
  BY <1>7, CoreIs DEF Cores!PollOff, Cores!SeenOff, Cores!CoresSame, Cores!TypeOK, HeapAndSwitches
<1>8. CASE Cores!Finish
  BY <1>8, CoreIs DEF Cores!Finish, Cores!Named, Cores!Says, Cores!CoresSame, Cores!TypeOK, HeapAndSwitches
<1>9. CASE Cores!Restart
  BY <1>9, CoreIs DEF Cores!Restart, Cores!TypeOK, HeapAndSwitches
<1>10. ASSUME NEW c \in Core, Cores!CpuUp(c) PROVE HeapAndSwitches'
  BY <1>10, CoreIs DEF Cores!CpuUp, Cores!Write, Cores!BootSame, Cores!TypeOK, HeapAndSwitches
<1>11. ASSUME NEW c \in Core, Cores!Result(c) PROVE HeapAndSwitches'
  BY <1>11, CoreIs DEF Cores!Result, Cores!Write, Cores!BootSame, Cores!TypeOK, HeapAndSwitches
<1>12. ASSUME NEW c \in Core, Cores!CmdComplete(c) PROVE HeapAndSwitches'
  BY <1>12, CoreIs DEF Cores!CmdComplete, Cores!Write, Cores!BootSame, Cores!TypeOK, HeapAndSwitches
<1>13. ASSUME NEW c \in Core, Cores!PowerDown(c) PROVE HeapAndSwitches'
  BY <1>13, CoreIs DEF Cores!PowerDown, Cores!BootSame, Cores!TypeOK, HeapAndSwitches
<1>14. ASSUME NEW c \in Core, NEW word \in Cores!Words, Cores!Appear(c, word) PROVE HeapAndSwitches'
  BY <1>14, CoreIs DEF Cores!Appear, Cores!BootSame, Cores!TypeOK, HeapAndSwitches
<1>15. Cores!NotEnabled \/ Cores!NeverUp \/ Cores!CtrlC \/ Cores!NeverOff => Cores!Restart
  BY DEF Cores!NotEnabled, Cores!NeverUp, Cores!CtrlC, Cores!NeverOff
<1> QED BY <1>1, <1>2, <1>3, <1>4, <1>5, <1>6, <1>7, <1>8, <1>9, <1>10, <1>11, <1>12, <1>13, <1>14, <1>15 DEF Cores!Next

LEMMA OnlyStartedStep ==
  ASSUME Cores!TypeOK, HeapAndSwitches, OnlyStarted, Cores!Next
  PROVE  OnlyStarted'
<1>1. CASE Cores!Refuse
  BY <1>1, CoreIs DEF Cores!Refuse, Cores!CoresSame, Cores!TypeOK, HeapAndSwitches, OnlyStarted, Started
<1>2. ASSUME NEW n \in Core, Cores!Schedule(n) PROVE OnlyStarted'
  BY <1>2, CoreIs DEF Cores!Schedule, Cores!CoresSame, Cores!TypeOK, HeapAndSwitches, OnlyStarted, Started
<1>3. CASE Cores!PowerOn
  BY <1>3, CoreIs DEF Cores!PowerOn, Cores!CoresSame, Cores!TypeOK, HeapAndSwitches, OnlyStarted, Started
<1>4. CASE Cores!WaitUp
  BY <1>4, CoreIs DEF Cores!WaitUp, Cores!IsUp, Cores!CoresSame, Cores!TypeOK, HeapAndSwitches, OnlyStarted, Started
<1>5. CASE Cores!Up
  BY <1>5, CoreIs DEF Cores!Up, Cores!IsUp, Cores!CoresSame, Cores!TypeOK, HeapAndSwitches, OnlyStarted, Started
<1>6. ASSUME NEW c \in Core, Cores!Complete(c) PROVE OnlyStarted'
  BY <1>6, CoreIs DEF Cores!Complete, Cores!Says, Cores!CoresSame, Cores!TypeOK, HeapAndSwitches, OnlyStarted, Started
<1>7. CASE Cores!PollOff
  BY <1>7, CoreIs DEF Cores!PollOff, Cores!SeenOff, Cores!CoresSame, Cores!TypeOK, HeapAndSwitches, OnlyStarted, Started
<1>8. CASE Cores!Finish
  BY <1>8, CoreIs DEF Cores!Finish, Cores!Named, Cores!Says, Cores!CoresSame, Cores!TypeOK, HeapAndSwitches, OnlyStarted, Started
<1>9. CASE Cores!Restart
  BY <1>9, CoreIs DEF Cores!Restart, Cores!TypeOK, HeapAndSwitches, OnlyStarted, Started
<1>10. ASSUME NEW c \in Core, Cores!CpuUp(c) PROVE OnlyStarted'
  BY <1>10, CoreIs DEF Cores!CpuUp, Cores!Write, Cores!BootSame, Cores!TypeOK, HeapAndSwitches, OnlyStarted, Started
<1>11. ASSUME NEW c \in Core, Cores!Result(c) PROVE OnlyStarted'
  BY <1>11, CoreIs DEF Cores!Result, Cores!Write, Cores!BootSame, Cores!TypeOK, HeapAndSwitches, OnlyStarted, Started
<1>12. ASSUME NEW c \in Core, Cores!CmdComplete(c) PROVE OnlyStarted'
  BY <1>12, CoreIs DEF Cores!CmdComplete, Cores!Write, Cores!BootSame, Cores!TypeOK, HeapAndSwitches, OnlyStarted, Started
<1>13. ASSUME NEW c \in Core, Cores!PowerDown(c) PROVE OnlyStarted'
  BY <1>13, CoreIs DEF Cores!PowerDown, Cores!BootSame, Cores!TypeOK, HeapAndSwitches, OnlyStarted, Started
<1>14. ASSUME NEW c \in Core, NEW word \in Cores!Words, Cores!Appear(c, word) PROVE OnlyStarted'
  BY <1>14, CoreIs DEF Cores!Appear, Cores!BootSame, Cores!TypeOK, HeapAndSwitches, OnlyStarted, Started
<1>15. Cores!NotEnabled \/ Cores!NeverUp \/ Cores!CtrlC \/ Cores!NeverOff => Cores!Restart
  BY DEF Cores!NotEnabled, Cores!NeverUp, Cores!CtrlC, Cores!NeverOff
<1> QED BY <1>1, <1>2, <1>3, <1>4, <1>5, <1>6, <1>7, <1>8, <1>9, <1>10, <1>11, <1>12, <1>13, <1>14, <1>15 DEF Cores!Next

LEMMA ToldStep ==
  ASSUME Cores!TypeOK, HeapAndSwitches, OnlyStarted, AllTold, Cores!Next
  PROVE  AllTold'
<1>1. CASE Cores!Refuse
  BY <1>1, CoreIs DEF Cores!Refuse, Cores!CoresSame, Cores!TypeOK, HeapAndSwitches, OnlyStarted, Started, AllTold, Told
<1>2. ASSUME NEW n \in Core, Cores!Schedule(n) PROVE AllTold'
  BY <1>2, CoreIs DEF Cores!Schedule, Cores!CoresSame, Cores!TypeOK, HeapAndSwitches, OnlyStarted, Started, AllTold, Told
<1>3. CASE Cores!PowerOn
  BY <1>3, CoreIs DEF Cores!PowerOn, Cores!CoresSame, Cores!TypeOK, HeapAndSwitches, OnlyStarted, Started, AllTold, Told
<1>4. CASE Cores!WaitUp
  BY <1>4, CoreIs DEF Cores!WaitUp, Cores!IsUp, Cores!CoresSame, Cores!TypeOK, HeapAndSwitches, OnlyStarted, Started, AllTold, Told
<1>5. CASE Cores!Up
  BY <1>5, CoreIs DEF Cores!Up, Cores!IsUp, Cores!CoresSame, Cores!TypeOK, HeapAndSwitches, OnlyStarted, Started, AllTold, Told
<1>6. ASSUME NEW c \in Core, Cores!Complete(c) PROVE AllTold'
  BY <1>6, CoreIs DEF Cores!Complete, Cores!Says, Cores!CoresSame, Cores!TypeOK, HeapAndSwitches, OnlyStarted, Started, AllTold, Told
<1>7. CASE Cores!PollOff
  BY <1>7, CoreIs DEF Cores!PollOff, Cores!SeenOff, Cores!CoresSame, Cores!TypeOK, HeapAndSwitches, OnlyStarted, Started, AllTold, Told
<1>8. CASE Cores!Finish
  BY <1>8, CoreIs DEF Cores!Finish, Cores!Named, Cores!Says, Cores!CoresSame, Cores!TypeOK, HeapAndSwitches, OnlyStarted, Started, AllTold, Told
<1>9. CASE Cores!Restart
  BY <1>9, CoreIs DEF Cores!Restart, Cores!TypeOK, HeapAndSwitches, OnlyStarted, Started, AllTold, Told
<1>10. ASSUME NEW c \in Core, Cores!CpuUp(c) PROVE AllTold'
  BY <1>10, CoreIs DEF Cores!CpuUp, Cores!Write, Cores!BootSame, Cores!TypeOK, HeapAndSwitches, OnlyStarted, Started, AllTold, Told
<1>11. ASSUME NEW c \in Core, Cores!Result(c) PROVE AllTold'
  BY <1>11, CoreIs DEF Cores!Result, Cores!Write, Cores!BootSame, Cores!TypeOK, HeapAndSwitches, OnlyStarted, Started, AllTold, Told
<1>12. ASSUME NEW c \in Core, Cores!CmdComplete(c) PROVE AllTold'
  BY <1>12, CoreIs DEF Cores!CmdComplete, Cores!Write, Cores!BootSame, Cores!TypeOK, HeapAndSwitches, OnlyStarted, Started, AllTold, Told
<1>13. ASSUME NEW c \in Core, Cores!PowerDown(c) PROVE AllTold'
  BY <1>13, CoreIs DEF Cores!PowerDown, Cores!BootSame, Cores!TypeOK, HeapAndSwitches, OnlyStarted, Started, AllTold, Told
<1>14. ASSUME NEW c \in Core, NEW word \in Cores!Words, Cores!Appear(c, word) PROVE AllTold'
  BY <1>14, CoreIs DEF Cores!Appear, Cores!BootSame, Cores!TypeOK, HeapAndSwitches, OnlyStarted, Started, AllTold, Told
<1>15. Cores!NotEnabled \/ Cores!NeverUp \/ Cores!CtrlC \/ Cores!NeverOff => Cores!Restart
  BY DEF Cores!NotEnabled, Cores!NeverUp, Cores!CtrlC, Cores!NeverOff
<1> QED BY <1>1, <1>2, <1>3, <1>4, <1>5, <1>6, <1>7, <1>8, <1>9, <1>10, <1>11, <1>12, <1>13, <1>14, <1>15 DEF Cores!Next

LEMMA ReportedStep ==
  ASSUME Cores!TypeOK, HeapAndSwitches, OnlyStarted, AllTold, Reported, Cores!Next
  PROVE  Reported'
<1>1. CASE Cores!Refuse
  BY <1>1, CoreIs DEF Cores!Refuse, Cores!CoresSame, Cores!TypeOK, HeapAndSwitches, OnlyStarted, Started, AllTold, Told, Reported
<1>2. ASSUME NEW n \in Core, Cores!Schedule(n) PROVE Reported'
  BY <1>2, CoreIs DEF Cores!Schedule, Cores!CoresSame, Cores!TypeOK, HeapAndSwitches, OnlyStarted, Started, AllTold, Told, Reported
<1>3. CASE Cores!PowerOn
  BY <1>3, CoreIs DEF Cores!PowerOn, Cores!CoresSame, Cores!TypeOK, HeapAndSwitches, OnlyStarted, Started, AllTold, Told, Reported
<1>4. CASE Cores!WaitUp
  BY <1>4, CoreIs DEF Cores!WaitUp, Cores!IsUp, Cores!CoresSame, Cores!TypeOK, HeapAndSwitches, OnlyStarted, Started, AllTold, Told, Reported
<1>5. CASE Cores!Up
  BY <1>5, CoreIs DEF Cores!Up, Cores!IsUp, Cores!CoresSame, Cores!TypeOK, HeapAndSwitches, OnlyStarted, Started, AllTold, Told, Reported
<1>6. ASSUME NEW c \in Core, Cores!Complete(c) PROVE Reported'
  BY <1>6, CoreIs DEF Cores!Complete, Cores!Says, Cores!CoresSame, Cores!TypeOK, HeapAndSwitches, OnlyStarted, Started, AllTold, Told, Reported
<1>7. CASE Cores!PollOff
  BY <1>7, CoreIs DEF Cores!PollOff, Cores!SeenOff, Cores!CoresSame, Cores!TypeOK, HeapAndSwitches, OnlyStarted, Started, AllTold, Told, Reported
<1>8. CASE Cores!Finish
  BY <1>8, CoreIs DEF Cores!Finish, Cores!Named, Cores!Says, Cores!CoresSame, Cores!TypeOK, HeapAndSwitches, OnlyStarted, Started, AllTold, Told, Reported
<1>9. CASE Cores!Restart
  BY <1>9, CoreIs DEF Cores!Restart, Cores!TypeOK, HeapAndSwitches, OnlyStarted, Started, AllTold, Told, Reported
<1>10. ASSUME NEW c \in Core, Cores!CpuUp(c) PROVE Reported'
  BY <1>10, CoreIs DEF Cores!CpuUp, Cores!Write, Cores!BootSame, Cores!TypeOK, HeapAndSwitches, OnlyStarted, Started, AllTold, Told, Reported
<1>11. ASSUME NEW c \in Core, Cores!Result(c) PROVE Reported'
  BY <1>11, CoreIs DEF Cores!Result, Cores!Write, Cores!BootSame, Cores!TypeOK, HeapAndSwitches, OnlyStarted, Started, AllTold, Told, Reported
<1>12. ASSUME NEW c \in Core, Cores!CmdComplete(c) PROVE Reported'
  BY <1>12, CoreIs DEF Cores!CmdComplete, Cores!Write, Cores!BootSame, Cores!TypeOK, HeapAndSwitches, OnlyStarted, Started, AllTold, Told, Reported
<1>13. ASSUME NEW c \in Core, Cores!PowerDown(c) PROVE Reported'
  BY <1>13, CoreIs DEF Cores!PowerDown, Cores!BootSame, Cores!TypeOK, HeapAndSwitches, OnlyStarted, Started, AllTold, Told, Reported
<1>14. ASSUME NEW c \in Core, NEW word \in Cores!Words, Cores!Appear(c, word) PROVE Reported'
  BY <1>14, CoreIs DEF Cores!Appear, Cores!BootSame, Cores!TypeOK, HeapAndSwitches, OnlyStarted, Started, AllTold, Told, Reported
<1>15. Cores!NotEnabled \/ Cores!NeverUp \/ Cores!CtrlC \/ Cores!NeverOff => Cores!Restart
  BY DEF Cores!NotEnabled, Cores!NeverUp, Cores!CtrlC, Cores!NeverOff
<1> QED BY <1>1, <1>2, <1>3, <1>4, <1>5, <1>6, <1>7, <1>8, <1>9, <1>10, <1>11, <1>12, <1>13, <1>14, <1>15 DEF Cores!Next

LEMMA CoresStep == CoresInv /\ [Cores!Next]_Cores!vars => CoresInv'
<1> SUFFICES ASSUME CoresInv, [Cores!Next]_Cores!vars PROVE CoresInv'
  OBVIOUS
<1>1. CASE Cores!Next
  BY <1>1, CoresTypeStep, HeapStep, OnlyStartedStep, ToldStep, ReportedStep DEF CoresInv
<1>2. CASE UNCHANGED Cores!vars
  BY <1>2 DEF Cores!vars, CoresInv, Cores!TypeOK, HeapAndSwitches, OnlyStarted, Started, AllTold, Told, Reported
<1> QED BY <1>1, <1>2

(* The prompt finds no core on, and no stack of one that was is still lent. *)
LEMMA CoresEnd == CoresInv => CoresReturned
<1> SUFFICES ASSUME CoresInv PROVE Cores!CoresReturned
  BY DEF CoresReturned
<1>1. ASSUME NEW c \in Core, power[c] = "on" PROVE c \in stack /\ {"watchdog", "dcache"} \subseteq off /\ at # "prompt"
  <2>1. at # "prompt" /\ Started(c)
    BY <1>1 DEF CoresInv, OnlyStarted
  <2>2. c <= argc
    BY <2>1, CoreIs DEF CoresInv, HeapAndSwitches, Started, Cores!TypeOK
  <2> QED BY <2>1, <2>2, CoreIs DEF CoresInv, HeapAndSwitches, Cores!TypeOK
<1>2. ASSUME NEW c \in Core, at = "prompt" PROVE power[c] = "off"
  BY <1>1, <1>2 DEF CoresInv, Cores!TypeOK
<1>3. at = "prompt" => off = {} /\ (stack = {} \/ starved)
  BY DEF CoresInv, HeapAndSwitches
<1>4. at = "prompt" => \A c \in Core : report[c] \in {"PASS", "FAIL"} => (report[c] = "FAIL" <=> outcome[c] = -1)
  BY DEF CoresInv, Reported
<1> QED BY <1>1, <1>2, <1>3, <1>4, Zenon DEF Cores!CoresReturned

(***************************************************************************)
(* For every time the boot core waits and any number of commands: stacks   *)
(* go back to the heap after the cores are off, everything switched off is *)
(* on again at the prompt, and what was printed is what the commands       *)
(* returned, in whichever order the words reach memory (do_runmulticore).  *)
(***************************************************************************)
THEOREM StacksAfterCores == Cores!Spec => []CoresReturned
BY CoresStart, CoresStep, CoresEnd, PTL DEF Cores!Spec

(***************************************************************************)
(* The check of an image.                                                  *)
(***************************************************************************)

\* The files a check unpacks, with the root file system out of a UBI image.
AllFiles ==
  checked.parts \cup IF board.tz /\ board.rootfs_auth /\ board.nand /\ "ubi" \in checked.parts
                     THEN {"rootfs"} ELSE {}

Checking == stage \in {"load", "authenticate", "update"}

\* What holds while sections are loaded and from then on: unless a result was
\* not looked at, every file is still to be loaded or is loaded, and the
\* kernel, the metadata and the versions are those of this image, whatever
\* the checks before left behind.
LoadOK ==
  /\ stage # "idle" => checked \in Images
  /\ masked => failed
  /\ ~board.rootfs_auth => metadata = NoImage
  /\ stage = "rootfs" => board.tz /\ board.rootfs_auth /\ files = checked.parts /\ present = {}
  /\ stage \in {"rootfs", "load"} => section = 1
  /\ stage \in {"authenticate", "update"} => files = {}
  /\ stage = "update" => ~board.tz
  /\ Checking /\ "ubi" \in present => board.nand /\ (~board.tz => tmp_kernel # NoImage)
  /\ Checking /\ ~masked =>
       /\ \A s \in Check!Section :
            (s = "ubi" => board.nand) => (s \in files \cup present <=> s \in AllFiles)
       /\ "ubi" \in present => tmp_kernel = checked
       /\ board.rootfs_auth /\ ("hlos" \in present \/ "ubi" \in present) => metadata = checked
       /\ ~board.tz => \A s \in present : seen[s] = local[Check!version_file(s)]

\* The sections in front of the one looked at were accepted.
AuthOK ==
  stage = "authenticate" =>
    \A k \in 1 .. section - 1 : Check!Skipped(Check!Sections[k]) \/ Check!Genuine(Check!Sections[k])

\* Versions are recorded for an image that fits.
UpdateOK ==
  stage = "update" /\ ~masked =>
    /\ Check!Fit
    /\ \A k \in 1 .. section - 1 : Check!Sections[k] \in present =>
         recorded[Check!version_file(Check!Sections[k])] >= checked.version

CheckInv == Check!TypeOK /\ LoadOK /\ AuthOK /\ UpdateOK /\ VerdictFits

LEMMA CheckSets ==
  /\ Check!Sections = <<"u-boot", "hlos", "rootfs", "ubi", "tz">> /\ DOMAIN Check!Sections = 1 .. 5
  /\ Check!Section = {"u-boot", "hlos", "rootfs", "ubi", "tz"}
  /\ Check!VersionFile = {"u-boot", "hlos", "tz"}
  /\ \A s \in Check!Section : Check!version_file(s) \in Check!VersionFile
  /\ \A k \in 1 .. 5 : Check!Sections[k] \in Check!Section
  /\ \A s \in Check!Section : \E k \in 1 .. 5 : Check!Sections[k] = s
<1>1. Check!Sections = <<"u-boot", "hlos", "rootfs", "ubi", "tz">> /\ DOMAIN Check!Sections = 1 .. 5
  BY DEF Check!Sections
<1>2. Check!Section = {Check!Sections[1], Check!Sections[2], Check!Sections[3], Check!Sections[4], Check!Sections[5]}
  BY <1>1 DEF Check!Section
<1>3. Check!Section = {"u-boot", "hlos", "rootfs", "ubi", "tz"}
  BY <1>2 DEF Check!Sections
<1>4. \A s \in Check!Section : Check!version_file(s) \in {"u-boot", "hlos", "tz"}
  BY <1>3 DEF Check!version_file
<1>5. /\ Check!version_file("u-boot") = "u-boot" /\ Check!version_file("hlos") = "hlos"
      /\ Check!version_file("tz") = "tz"
  BY DEF Check!version_file
<1>6. Check!VersionFile = {"u-boot", "hlos", "tz"}
  BY <1>3, <1>4, <1>5 DEF Check!VersionFile
<1>7. \A k \in 1 .. 5 : Check!Sections[k] \in Check!Section
  BY <1>1 DEF Check!Section
<1>8. \A s \in Check!Section : \E k \in 1 .. 5 : Check!Sections[k] = s
  BY <1>1 DEF Check!Section
<1> QED BY <1>1, <1>3, <1>4, <1>6, <1>7, <1>8

LEMMA ImagesAre ==
  /\ \A m \in Images : m.parts \subseteq Check!Section /\ m.good \subseteq Check!Section /\ m.version \in Nat
  /\ Installed \subseteq Nat /\ MaxChecks \in Nat /\ NoImage \notin Images
BY CheckIs DEF Check!ImageCheckAssumption

(* Writing a number over a longer one leaves a larger one.                 *)
LEMMA OverIsNoLower ==
  ASSUME NEW old \in Nat, NEW new \in Nat
  PROVE  Check!Over(old, new) \in Nat /\ Check!Over(old, new) >= new
<1>1. old % 10 \in 0 .. 9
  OBVIOUS
<1> QED BY <1>1 DEF Check!Over

LEMMA CheckStart == Check!Init => CheckInv
<1> SUFFICES ASSUME Check!Init PROVE CheckInv
  OBVIOUS
<1>1. Check!TypeOK
  <2>1. local \in [Check!VersionFile -> Nat]
    BY ImagesAre DEF Check!Init
  <2>2. seen \in [Check!Section -> Nat] /\ recorded \in [Check!VersionFile -> Nat]
        /\ checks \in 0 .. MaxChecks /\ section \in 1 .. 6
    BY ImagesAre DEF Check!Init
  <2>3. checked = NoImage /\ tmp_kernel = NoImage /\ metadata = NoImage /\ files = {} /\ present = {}
        /\ stage = "idle" /\ verdict = "none" /\ masked = FALSE /\ failed = FALSE
    BY DEF Check!Init
  <2>4. board \in [tz : BOOLEAN, auth : BOOLEAN, rootfs_auth : BOOLEAN, nand : BOOLEAN]
    BY DEF Check!Init
  <2> QED BY <2>1, <2>2, <2>3, <2>4 DEF Check!TypeOK
<1>2. LoadOK /\ AuthOK /\ UpdateOK /\ VerdictFits
  BY DEF Check!Init, LoadOK, AuthOK, UpdateOK, VerdictFits, Check!VerdictFits, Checking
<1> QED BY <1>1, <1>2 DEF CheckInv

(* Every variable keeps its range.                                         *)
LEMMA CheckTypeStep ==
  ASSUME Check!TypeOK, LoadOK, Check!Next
  PROVE  Check!TypeOK'
<1>1. ASSUME NEW m \in Images, Check!Check(m) PROVE Check!TypeOK'
  <2>1. checks' \in 0 .. MaxChecks /\ files' \subseteq Check!Section
    BY <1>1, ImagesAre DEF Check!Check, Check!TypeOK
  <2>2. seen' \in [Check!Section -> Nat] /\ section' \in 1 .. 6 /\ checked' \in Images /\ present' = {}
    BY <1>1 DEF Check!Check
  <2>3. stage' \in {"idle", "rootfs", "load"} /\ verdict' \in {"none", "accepted"}
        /\ masked' = FALSE /\ failed' = FALSE
    BY <1>1 DEF Check!Check, Check!Return
  <2>4. UNCHANGED <<board, local, tmp_kernel, metadata, recorded>>
    BY <1>1 DEF Check!Check
  <2> QED BY <2>1, <2>2, <2>3, <2>4 DEF Check!TypeOK
<1>2. CASE Check!ExtractRootfs
  BY <1>2, ImagesAre, CheckSets DEF Check!ExtractRootfs, Check!Quiet, Check!Continue, Check!TypeOK, LoadOK
<1>3. CASE Check!PassOver
  BY <1>3, ImagesAre, CheckSets DEF Check!PassOver, Check!TypeOK, LoadOK
<1>4. CASE Check!LoadSection
  BY <1>4, ImagesAre, CheckSets DEF Check!LoadSection, Check!Quiet, Check!Continue, Check!MetadataOf, Check!Version, Check!TypeOK, LoadOK
<1>5. CASE Check!ExtractFails
  BY <1>5, ImagesAre, CheckSets DEF Check!ExtractFails, Check!MetadataOf, Check!Version, Check!Return, Check!Continue, Check!TypeOK, LoadOK
<1>6. CASE Check!MetadataFails
  BY <1>6, ImagesAre, CheckSets DEF Check!MetadataFails, Check!Continue, Check!Version, Check!TypeOK, LoadOK
<1>7. CASE Check!VersionUnread
  BY <1>7, ImagesAre, CheckSets DEF Check!VersionUnread, Check!Continue, Check!MetadataOf, Check!TypeOK, LoadOK
<1>8. CASE Check!LoadFails
  BY <1>8, ImagesAre, CheckSets DEF Check!LoadFails, Check!Fails, Check!Return, Check!TypeOK, LoadOK
<1>9. CASE Check!Loaded
  BY <1>9, ImagesAre, CheckSets DEF Check!Loaded, Check!Continue, Check!Quiet, Check!TypeOK, LoadOK
<1>10. CASE Check!PassSection
  BY <1>10, ImagesAre, CheckSets DEF Check!PassSection, Check!Continue, Check!Quiet, Check!TypeOK, LoadOK
<1>11. CASE Check!RefuseSection
  BY <1>11, ImagesAre, CheckSets DEF Check!RefuseSection, Check!Return, Check!Quiet, Check!TypeOK, LoadOK
<1>12. CASE Check!AuthenticationFails
  BY <1>12, ImagesAre, CheckSets DEF Check!AuthenticationFails, Check!Fails, Check!Return, Check!TypeOK, LoadOK
<1>13. CASE Check!TzAccepts
  BY <1>13, ImagesAre, CheckSets DEF Check!TzAccepts, Check!Return, Check!Quiet, Check!TypeOK, LoadOK
<1>14. CASE Check!CheckVersion
  BY <1>14, ImagesAre, CheckSets DEF Check!CheckVersion, Check!Return, Check!Continue, Check!Quiet, Check!TypeOK, LoadOK
<1>15. CASE Check!UpdateVersion
  <2>1. recorded' \in [Check!VersionFile -> Nat]
    <3> DEFINE c == Check!Sections[section]
    <3>1. CASE c \notin present
      BY <1>15, <3>1 DEF Check!UpdateVersion, Check!Current, Check!TypeOK
    <3>2. CASE c \in present
      <4>1. Check!Source(c) \in Images
        BY <1>15, <3>2 DEF Check!UpdateVersion, Check!Source, LoadOK, Checking, Check!TypeOK
      <4>2. Check!Source(c).version \in Nat /\ c \in Check!Section
        BY <1>15, <4>1, ImagesAre, CheckSets DEF Check!UpdateVersion
      <4>3. recorded[Check!version_file(c)] \in Nat
        BY <4>2, CheckSets DEF Check!TypeOK
      <4>4. Check!Over(recorded[Check!version_file(c)], Check!Source(c).version) \in Nat
        BY <4>2, <4>3, OverIsNoLower
      <4>5. recorded' = [recorded EXCEPT ![Check!version_file(c)] =
                           Check!Over(recorded[Check!version_file(c)], Check!Source(c).version)]
        BY <1>15, <3>2 DEF Check!UpdateVersion, Check!Current
      <4> HIDE DEF c
      <4> QED BY <4>4, <4>5 DEF Check!TypeOK
    <3> QED BY <3>1, <3>2
  <2>2. section' \in 1 .. 6
    BY <1>15, CheckSets DEF Check!UpdateVersion
  <2> QED BY <1>15, <2>1, <2>2 DEF Check!UpdateVersion, Check!Continue, Check!Quiet, Check!TypeOK
<1>16. CASE Check!UpdateFails
  BY <1>16, ImagesAre, CheckSets DEF Check!UpdateFails, Check!Fails, Check!Return, Check!TypeOK, LoadOK
<1>17. CASE Check!Updated
  BY <1>17, ImagesAre, CheckSets DEF Check!Updated, Check!Return, Check!Quiet, Check!TypeOK, LoadOK
<1>18. CASE Check!Restart
  <2>1. seen' \in [Check!Section -> Nat] /\ recorded' \in [Check!VersionFile -> Nat]
        /\ checks' \in 0 .. MaxChecks /\ section' \in 1 .. 6
    BY <1>18, ImagesAre DEF Check!Restart
  <2>2. checked' = NoImage /\ tmp_kernel' = NoImage /\ metadata' = NoImage /\ files' = {} /\ present' = {}
        /\ stage' = "idle" /\ verdict' = "none" /\ masked' = FALSE /\ failed' = FALSE
    BY <1>18 DEF Check!Restart
  <2> QED BY <1>18, <2>1, <2>2 DEF Check!Restart, Check!TypeOK
<1> QED BY <1>1, <1>2, <1>3, <1>4, <1>5, <1>6, <1>7, <1>8, <1>9, <1>10, <1>11, <1>12, <1>13, <1>14, <1>15, <1>16, <1>17, <1>18 DEF Check!Next

(* Loading keeps the account of the files; a failure nobody looks at sets  *)
(* masked.                                                                 *)
LEMMA LoadStep ==
  ASSUME Check!TypeOK, LoadOK, Check!Next
  PROVE  LoadOK'
<1>1. ASSUME NEW m \in Images, Check!Check(m) PROVE LoadOK'
  BY <1>1, ImagesAre, CheckSets DEF Check!Check, Check!Return, Check!TypeOK, LoadOK, Checking, AllFiles
<1>2. CASE Check!ExtractRootfs
  BY <1>2, ImagesAre, CheckSets DEF Check!ExtractRootfs, Check!Quiet, Check!Continue, Check!TypeOK, LoadOK, Checking, AllFiles
<1>3. CASE Check!PassOver
  BY <1>3, ImagesAre, CheckSets DEF Check!PassOver, Check!TypeOK, LoadOK, Checking, AllFiles
<1>4. CASE Check!LoadSection
  BY <1>4, ImagesAre, CheckSets DEF Check!LoadSection, Check!Quiet, Check!Continue, Check!MetadataOf, Check!Version, Check!TypeOK, LoadOK, Checking, AllFiles
<1>5. CASE Check!ExtractFails
  BY <1>5, ImagesAre, CheckSets DEF Check!ExtractFails, Check!MetadataOf, Check!Version, Check!Return, Check!Continue, Check!TypeOK, LoadOK, Checking, AllFiles
<1>6. CASE Check!MetadataFails
  BY <1>6, ImagesAre, CheckSets DEF Check!MetadataFails, Check!Continue, Check!Version, Check!TypeOK, LoadOK, Checking, AllFiles
<1>7. CASE Check!VersionUnread
  BY <1>7, ImagesAre, CheckSets DEF Check!VersionUnread, Check!Continue, Check!MetadataOf, Check!TypeOK, LoadOK, Checking, AllFiles
<1>8. CASE Check!LoadFails
  BY <1>8, ImagesAre, CheckSets DEF Check!LoadFails, Check!Fails, Check!Return, Check!TypeOK, LoadOK, Checking, AllFiles
<1>9. CASE Check!Loaded
  BY <1>9, ImagesAre, CheckSets DEF Check!Loaded, Check!Continue, Check!Quiet, Check!TypeOK, LoadOK, Checking, AllFiles
<1>10. CASE Check!PassSection
  BY <1>10, ImagesAre, CheckSets DEF Check!PassSection, Check!Continue, Check!Quiet, Check!TypeOK, LoadOK, Checking, AllFiles
<1>11. CASE Check!RefuseSection
  BY <1>11, ImagesAre, CheckSets DEF Check!RefuseSection, Check!Return, Check!Quiet, Check!TypeOK, LoadOK, Checking, AllFiles
<1>12. CASE Check!AuthenticationFails
  BY <1>12, ImagesAre, CheckSets DEF Check!AuthenticationFails, Check!Fails, Check!Return, Check!TypeOK, LoadOK, Checking, AllFiles
<1>13. CASE Check!TzAccepts
  BY <1>13, ImagesAre, CheckSets DEF Check!TzAccepts, Check!Return, Check!Quiet, Check!TypeOK, LoadOK, Checking, AllFiles
<1>14. CASE Check!CheckVersion
  BY <1>14, ImagesAre, CheckSets DEF Check!CheckVersion, Check!Return, Check!Continue, Check!Quiet, Check!TypeOK, LoadOK, Checking, AllFiles
<1>15. CASE Check!UpdateVersion
  BY <1>15, ImagesAre, CheckSets DEF Check!UpdateVersion, Check!Continue, Check!Quiet, Check!TypeOK, LoadOK, Checking, AllFiles
<1>16. CASE Check!UpdateFails
  BY <1>16, ImagesAre, CheckSets DEF Check!UpdateFails, Check!Fails, Check!Return, Check!TypeOK, LoadOK, Checking, AllFiles
<1>17. CASE Check!Updated
  BY <1>17, ImagesAre, CheckSets DEF Check!Updated, Check!Return, Check!Quiet, Check!TypeOK, LoadOK, Checking, AllFiles
<1>18. CASE Check!Restart
  BY <1>18, ImagesAre, CheckSets DEF Check!Restart, Check!TypeOK, LoadOK, Checking, AllFiles
<1> QED BY <1>1, <1>2, <1>3, <1>4, <1>5, <1>6, <1>7, <1>8, <1>9, <1>10, <1>11, <1>12, <1>13, <1>14, <1>15, <1>16, <1>17, <1>18 DEF Check!Next

(* Once everything is loaded, what is present is what the board requires,  *)
(* and what it does not authenticate.                                      *)
LEMMA PresentAndRequired ==
  ASSUME Check!TypeOK, LoadOK, stage \in {"authenticate", "update"}, ~masked
  PROVE  /\ Check!Required \subseteq present
         /\ \A s \in present : s \in Check!Required \/ (s = "rootfs" /\ board.tz /\ ~board.rootfs_auth)
         /\ \A s \in present : Check!Source(s) = checked
         /\ checked \in Images
         /\ Check!KernelComes /\ board.tz /\ board.rootfs_auth /\ "rootfs" \in present => metadata = checked
<1>1. checked \in Images /\ checked.parts \subseteq Check!Section /\ present \subseteq Check!Section
  BY ImagesAre DEF LoadOK, Check!TypeOK
<1>2. \A s \in Check!Section : (s = "ubi" => board.nand) => (s \in present <=> s \in AllFiles)
  BY DEF LoadOK, Checking
<1>3. "ubi" \in present => board.nand /\ tmp_kernel = checked
  BY DEF LoadOK, Checking
<1>4. Check!Required \subseteq present
  BY <1>1, <1>2, CheckSets DEF Check!Required, AllFiles
<1>5. ASSUME NEW s \in present PROVE s \in Check!Required \/ (s = "rootfs" /\ board.tz /\ ~board.rootfs_auth)
  <2>1. s \in Check!Section /\ s \in AllFiles
    BY <1>1, <1>2, <1>3
  <2> QED BY <2>1, <1>3 DEF Check!Required, AllFiles
<1>6. \A s \in present : Check!Source(s) = checked
  BY <1>3 DEF Check!Source
<1>7. ASSUME Check!KernelComes, board.tz, board.rootfs_auth, "rootfs" \in present PROVE metadata = checked
  <2>1. "hlos" \in checked.parts \/ (board.nand /\ "ubi" \in checked.parts)
    BY <1>1, <1>2, <1>7, CheckSets DEF Check!KernelComes, AllFiles
  <2>2. "hlos" \in present \/ "ubi" \in present
    BY <1>2, <2>1, CheckSets DEF AllFiles
  <2> QED BY <1>7, <2>2 DEF LoadOK, Checking
<1> QED BY <1>1, <1>4, <1>5, <1>6, <1>7

(* An image whose sections were all accepted has only genuine ones.        *)
LEMMA AllGenuine ==
  ASSUME Check!TypeOK, LoadOK, AuthOK, stage = "authenticate", section \notin 1 .. 5, ~masked, Check!KernelComes
  PROVE  Check!Required \subseteq checked.good
<1>1. section = 6
  BY DEF Check!TypeOK
<1>2. \A s \in Check!Section : Check!Skipped(s) \/ Check!Genuine(s)
  BY <1>1, CheckSets DEF AuthOK
<1>3. ASSUME NEW s \in Check!Required PROVE s \in checked.good
  <2>1. s \in present /\ s \in Check!Section /\ Check!Source(s) = checked /\ checked # NoImage
    BY PresentAndRequired, ImagesAre DEF Check!TypeOK
  <2>2. board.tz /\ s = "rootfs" => board.rootfs_auth
    BY DEF Check!Required
  <2>3. ~Check!Skipped(s)
    BY <2>1, <2>2, PresentAndRequired DEF Check!Skipped
  <2> QED BY <1>2, <2>1, <2>3 DEF Check!Genuine
<1> QED BY <1>3

(* A section that is refused without a failure is required and not genuine. *)
LEMMA RefusedIsNotGenuine ==
  ASSUME Check!TypeOK, LoadOK, Check!RefuseSection, ~failed, Check!KernelComes
  PROVE  ~(Check!Required \subseteq checked.good)
<1> DEFINE s == Check!Current
<1>1. ~masked /\ stage = "authenticate" /\ ~Check!Skipped(s) /\ ~Check!Genuine(s)
  BY DEF Check!RefuseSection, LoadOK
<1>2. s \in present /\ (board.tz /\ s = "rootfs" => metadata # NoImage)
  BY <1>1 DEF Check!Skipped
<1>3. board.tz /\ s = "rootfs" => board.rootfs_auth /\ metadata = checked
  BY <1>1, <1>2, PresentAndRequired DEF LoadOK
<1>4. Check!Source(s) = checked /\ checked # NoImage /\ s \in Check!Required
  BY <1>1, <1>2, <1>3, PresentAndRequired, ImagesAre
<1> HIDE DEF s
<1>5. s \notin checked.good
  BY <1>1, <1>3, <1>4 DEF Check!Genuine
<1> QED BY <1>4, <1>5

(* A section is passed when it is skipped or genuine.                      *)
LEMMA AuthStep ==
  ASSUME Check!TypeOK, LoadOK, AuthOK, Check!Next
  PROVE  AuthOK'
<1>1. ASSUME NEW m \in Images, Check!Check(m) PROVE AuthOK'
  BY <1>1 DEF Check!Check, Check!Return, AuthOK
<1>2. CASE Check!ExtractRootfs
  BY <1>2 DEF Check!ExtractRootfs, Check!Quiet, Check!Continue, AuthOK
<1>3. CASE Check!PassOver
  BY <1>3 DEF Check!PassOver, AuthOK
<1>4. CASE Check!LoadSection
  BY <1>4 DEF Check!LoadSection, Check!Quiet, Check!Continue, Check!MetadataOf, Check!Version, AuthOK
<1>5. CASE Check!ExtractFails
  BY <1>5 DEF Check!ExtractFails, Check!MetadataOf, Check!Version, Check!Return, Check!Continue, AuthOK
<1>6. CASE Check!MetadataFails
  BY <1>6 DEF Check!MetadataFails, Check!Continue, Check!Version, AuthOK
<1>7. CASE Check!VersionUnread
  BY <1>7 DEF Check!VersionUnread, Check!Continue, Check!MetadataOf, AuthOK
<1>8. CASE Check!LoadFails
  BY <1>8 DEF Check!LoadFails, Check!Fails, Check!Return, AuthOK
<1>9. CASE Check!Loaded
  BY <1>9 DEF Check!Loaded, Check!Continue, Check!Quiet, AuthOK, LoadOK
<1>10. CASE Check!PassSection
  <2>1. section \in 1 .. 5 /\ section' = section + 1 /\ (Check!Skipped(Check!Current) \/ Check!Genuine(Check!Current))
    BY <1>10, CheckSets DEF Check!PassSection
  <2>2. stage = "authenticate" /\ UNCHANGED <<board, present, tmp_kernel, metadata, checked>>
    BY <1>10 DEF Check!PassSection
  <2>3. \A k \in 1 .. section : Check!Skipped(Check!Sections[k]) \/ Check!Genuine(Check!Sections[k])
    BY <2>1, <2>2 DEF AuthOK, Check!Current
  <2>4. section' - 1 = section
    BY <2>1
  <2> QED BY <2>2, <2>3, <2>4 DEF AuthOK, Check!Skipped, Check!Genuine, Check!Source
<1>11. CASE Check!RefuseSection
  BY <1>11 DEF Check!RefuseSection, Check!Return, Check!Quiet, AuthOK
<1>12. CASE Check!AuthenticationFails
  BY <1>12 DEF Check!AuthenticationFails, Check!Fails, Check!Return, AuthOK
<1>13. CASE Check!TzAccepts
  BY <1>13 DEF Check!TzAccepts, Check!Return, Check!Quiet, AuthOK
<1>14. CASE Check!CheckVersion
  BY <1>14 DEF Check!CheckVersion, Check!Return, Check!Continue, Check!Quiet, AuthOK
<1>15. CASE Check!UpdateVersion
  BY <1>15 DEF Check!UpdateVersion, Check!Continue, Check!Quiet, AuthOK
<1>16. CASE Check!UpdateFails
  BY <1>16 DEF Check!UpdateFails, Check!Fails, Check!Return, AuthOK
<1>17. CASE Check!Updated
  BY <1>17 DEF Check!Updated, Check!Return, Check!Quiet, AuthOK
<1>18. CASE Check!Restart
  BY <1>18 DEF Check!Restart, AuthOK
<1> QED BY <1>1, <1>2, <1>3, <1>4, <1>5, <1>6, <1>7, <1>8, <1>9, <1>10, <1>11, <1>12, <1>13, <1>14, <1>15, <1>16, <1>17, <1>18 DEF Check!Next

(* The versions are only recorded when none of the image's is lower.       *)
LEMMA UpdateStep ==
  ASSUME Check!TypeOK, LoadOK, AuthOK, UpdateOK, Check!Next
  PROVE  UpdateOK'
<1>1. ASSUME NEW m \in Images, Check!Check(m) PROVE UpdateOK'
  BY <1>1 DEF Check!Check, Check!Return, UpdateOK
<1>2. CASE Check!ExtractRootfs
  BY <1>2 DEF Check!ExtractRootfs, Check!Quiet, Check!Continue, UpdateOK
<1>3. CASE Check!PassOver
  BY <1>3 DEF Check!PassOver, UpdateOK
<1>4. CASE Check!LoadSection
  BY <1>4 DEF Check!LoadSection, Check!Quiet, Check!Continue, Check!MetadataOf, Check!Version, UpdateOK
<1>5. CASE Check!ExtractFails
  BY <1>5 DEF Check!ExtractFails, Check!MetadataOf, Check!Version, Check!Return, Check!Continue, UpdateOK
<1>6. CASE Check!MetadataFails
  BY <1>6 DEF Check!MetadataFails, Check!Continue, Check!Version, UpdateOK
<1>7. CASE Check!VersionUnread
  BY <1>7 DEF Check!VersionUnread, Check!Continue, Check!MetadataOf, UpdateOK
<1>8. CASE Check!LoadFails
  BY <1>8 DEF Check!LoadFails, Check!Fails, Check!Return, UpdateOK
<1>9. CASE Check!Loaded
  BY <1>9 DEF Check!Loaded, Check!Continue, Check!Quiet, UpdateOK
<1>10. CASE Check!PassSection
  BY <1>10 DEF Check!PassSection, Check!Continue, Check!Quiet, UpdateOK
<1>11. CASE Check!RefuseSection
  BY <1>11 DEF Check!RefuseSection, Check!Return, Check!Quiet, UpdateOK
<1>12. CASE Check!AuthenticationFails
  BY <1>12 DEF Check!AuthenticationFails, Check!Fails, Check!Return, UpdateOK
<1>13. CASE Check!TzAccepts
  BY <1>13 DEF Check!TzAccepts, Check!Return, Check!Quiet, UpdateOK
<1>14. CASE Check!CheckVersion
  <2> SUFFICES ASSUME stage' = "update", ~masked PROVE UpdateOK'
    BY <1>14 DEF Check!CheckVersion, Check!Quiet, UpdateOK
  <2>1. stage = "authenticate" /\ section \notin 1 .. 5 /\ ~board.tz /\ section' = 1
        /\ (~\E s \in present : Check!Lower(s))
        /\ UNCHANGED <<board, local, checked>>
    BY <1>14, CheckSets DEF Check!CheckVersion, Check!Return
  <2>2. Check!Required \subseteq checked.good
    BY <2>1, AllGenuine DEF Check!KernelComes
  <2>3. ASSUME NEW s \in Check!Required PROVE local[Check!version_file(s)] <= checked.version
    <3>1. s \in present /\ Check!Source(s) = checked /\ checked.version \in Nat /\ s \in Check!Section
      BY <2>1, PresentAndRequired, ImagesAre DEF Check!TypeOK
    <3>2. seen[s] = local[Check!version_file(s)] /\ seen[s] \in Nat
      BY <2>1, <3>1 DEF LoadOK, Checking, Check!TypeOK
    <3>3. ~(seen[s] > checked.version)
      BY <2>1, <3>1 DEF Check!Lower
    <3> QED BY <3>1, <3>2, <3>3
  <2>4. Check!Fit
    BY <2>2, <2>3 DEF Check!Fit
  <2>5. Check!Fit'
    BY <2>1, <2>4 DEF Check!Fit, Check!Required
  <2> QED BY <2>1, <2>5 DEF UpdateOK
<1>15. CASE Check!UpdateVersion
  <2> SUFFICES ASSUME ~masked PROVE UpdateOK'
    BY <1>15 DEF Check!UpdateVersion, Check!Quiet, UpdateOK
  <2> DEFINE c == Check!Sections[section]
  <2>1. stage = "update" /\ section \in 1 .. 5 /\ section' = section + 1 /\ c \in Check!Section
    BY <1>15, CheckSets DEF Check!UpdateVersion
  <2>2. UNCHANGED <<board, local, checked, present>>
    BY <1>15 DEF Check!UpdateVersion
  <2>3. Check!Fit'
    BY <2>1, <2>2 DEF UpdateOK, Check!Fit, Check!Required
  <2>4. checked \in Images /\ checked.version \in Nat /\ \A s \in present : Check!Source(s) = checked
    BY <2>1, PresentAndRequired, ImagesAre
  <2>5. ASSUME NEW k \in 1 .. section, Check!Sections[k] \in present
        PROVE  recorded'[Check!version_file(Check!Sections[k])] >= checked.version
    <3> DEFINE f == Check!version_file(Check!Sections[k])
               o == Check!Over(recorded[Check!version_file(c)], checked.version)
    <3>1. f \in Check!VersionFile /\ Check!version_file(c) \in Check!VersionFile
      BY <2>1, CheckSets
    <3>2. k # section => recorded[f] >= checked.version
      <4>1. k # section => k \in 1 .. section - 1
        BY <2>1
      <4> QED BY <2>1, <2>5, <4>1 DEF UpdateOK
    <3>3. c \in present => o >= checked.version
      BY <2>4, <3>1, OverIsNoLower DEF Check!TypeOK
    <3>4. recorded' = IF c \notin present THEN recorded ELSE [recorded EXCEPT ![Check!version_file(c)] = o]
      BY <1>15, <2>4 DEF Check!UpdateVersion, Check!Current
    <3> HIDE DEF o
    <3>5. CASE c \notin present
      BY <2>5, <3>2, <3>4, <3>5
    <3>6. CASE c \in present
      BY <2>5, <3>1, <3>2, <3>3, <3>4, <3>6 DEF Check!TypeOK
    <3> QED BY <3>5, <3>6
  <2>6. section' - 1 = section
    BY <2>1
  <2> QED BY <2>2, <2>3, <2>5, <2>6 DEF UpdateOK
<1>16. CASE Check!UpdateFails
  BY <1>16 DEF Check!UpdateFails, Check!Fails, Check!Return, UpdateOK
<1>17. CASE Check!Updated
  BY <1>17 DEF Check!Updated, Check!Return, Check!Quiet, UpdateOK
<1>18. CASE Check!Restart
  BY <1>18 DEF Check!Restart, UpdateOK
<1> QED BY <1>1, <1>2, <1>3, <1>4, <1>5, <1>6, <1>7, <1>8, <1>9, <1>10, <1>11, <1>12, <1>13, <1>14, <1>15, <1>16, <1>17, <1>18 DEF Check!Next

(* What a check returns is the image's verdict.                            *)
LEMMA VerdictStep ==
  ASSUME Check!TypeOK, LoadOK, AuthOK, UpdateOK, VerdictFits, Check!Next
  PROVE  VerdictFits'
<1>1. ASSUME NEW m \in Images, Check!Check(m) PROVE VerdictFits'
  BY <1>1 DEF Check!Check, Check!Return, VerdictFits, Check!VerdictFits
<1>2. CASE Check!ExtractRootfs
  BY <1>2 DEF Check!ExtractRootfs, Check!Quiet, Check!Continue, VerdictFits, Check!VerdictFits, LoadOK
<1>3. CASE Check!PassOver
  BY <1>3 DEF Check!PassOver, VerdictFits, Check!VerdictFits, LoadOK
<1>4. CASE Check!LoadSection
  BY <1>4 DEF Check!LoadSection, Check!Quiet, Check!Continue, Check!MetadataOf, Check!Version, VerdictFits, Check!VerdictFits, LoadOK
<1>5. CASE Check!ExtractFails
  BY <1>5 DEF Check!ExtractFails, Check!MetadataOf, Check!Version, Check!Return, Check!Continue, VerdictFits, Check!VerdictFits, LoadOK
<1>6. CASE Check!MetadataFails
  BY <1>6 DEF Check!MetadataFails, Check!Continue, Check!Version, VerdictFits, Check!VerdictFits, LoadOK
<1>7. CASE Check!VersionUnread
  BY <1>7 DEF Check!VersionUnread, Check!Continue, Check!MetadataOf, VerdictFits, Check!VerdictFits, LoadOK
<1>8. CASE Check!LoadFails
  BY <1>8 DEF Check!LoadFails, Check!Fails, Check!Return, VerdictFits, Check!VerdictFits, LoadOK
<1>9. CASE Check!Loaded
  BY <1>9 DEF Check!Loaded, Check!Continue, Check!Quiet, VerdictFits, Check!VerdictFits, LoadOK
<1>10. CASE Check!PassSection
  BY <1>10 DEF Check!PassSection, Check!Continue, Check!Quiet, VerdictFits, Check!VerdictFits, LoadOK
<1>11. CASE Check!RefuseSection
  <2>1. stage = "authenticate" /\ verdict' = "refused" /\ UNCHANGED <<board, local, checked, failed>>
    BY <1>11 DEF Check!RefuseSection, Check!Return, Check!Quiet
  <2>2. Check!KernelComes' <=> Check!KernelComes
    BY <2>1 DEF Check!KernelComes
  <2>3. ~failed /\ Check!KernelComes => ~Check!Fit
    BY <1>11, RefusedIsNotGenuine DEF Check!Fit
  <2>4. Check!Fit' <=> Check!Fit
    BY <2>1 DEF Check!Fit, Check!Required
  <2> QED BY <2>1, <2>2, <2>3, <2>4 DEF VerdictFits, Check!VerdictFits
<1>12. CASE Check!AuthenticationFails
  BY <1>12 DEF Check!AuthenticationFails, Check!Fails, Check!Return, VerdictFits, Check!VerdictFits, LoadOK
<1>13. CASE Check!TzAccepts
  <2>1. stage = "authenticate" /\ section \notin 1 .. 5 /\ board.tz /\ verdict' = "accepted"
        /\ UNCHANGED <<board, local, checked, masked>>
    BY <1>13, CheckSets DEF Check!TzAccepts, Check!Return, Check!Quiet
  <2>2. Check!KernelComes' <=> Check!KernelComes
    BY <2>1 DEF Check!KernelComes
  <2>3. ~masked /\ Check!KernelComes => Check!Fit
    BY <2>1, AllGenuine DEF Check!Fit
  <2>4. Check!Fit' <=> Check!Fit
    BY <2>1 DEF Check!Fit, Check!Required
  <2> QED BY <2>1, <2>2, <2>3, <2>4 DEF VerdictFits, Check!VerdictFits
<1>14. CASE Check!CheckVersion
  <2>1. stage = "authenticate" /\ ~board.tz /\ UNCHANGED <<board, local, checked, failed>>
    BY <1>14 DEF Check!CheckVersion, Check!Quiet
  <2>2. CASE ~\E s \in present : Check!Lower(s)
    BY <1>14, <2>2 DEF Check!CheckVersion, Check!Continue, VerdictFits, Check!VerdictFits
  <2>3. CASE \E s \in present : Check!Lower(s)
    <3>1. verdict' = "refused"
      BY <1>14, <2>3 DEF Check!CheckVersion, Check!Return
    <3>2. ASSUME ~failed PROVE ~Check!Fit
      <4>1. ~masked
        BY <3>2 DEF LoadOK
      <4>2. PICK s \in present : seen[s] > Check!Source(s).version
        BY <2>3 DEF Check!Lower
      <4>3. s \in Check!Required /\ Check!Source(s) = checked /\ checked.version \in Nat
        BY <2>1, <4>1, PresentAndRequired, ImagesAre
      <4>4. seen[s] = local[Check!version_file(s)] /\ seen[s] \in Nat
        BY <2>1, <4>1 DEF LoadOK, Checking, Check!TypeOK
      <4>5. ~(local[Check!version_file(s)] <= checked.version)
        BY <4>2, <4>3, <4>4
      <4> QED BY <2>1, <4>3, <4>5 DEF Check!Fit
    <3>3. Check!Fit' <=> Check!Fit
      BY <2>1 DEF Check!Fit, Check!Required
    <3> QED BY <2>1, <3>1, <3>2, <3>3 DEF VerdictFits, Check!VerdictFits
  <2> QED BY <2>2, <2>3
<1>15. CASE Check!UpdateVersion
  BY <1>15 DEF Check!UpdateVersion, Check!Continue, Check!Quiet, VerdictFits, Check!VerdictFits, LoadOK
<1>16. CASE Check!UpdateFails
  BY <1>16 DEF Check!UpdateFails, Check!Fails, Check!Return, VerdictFits, Check!VerdictFits, LoadOK
<1>17. CASE Check!Updated
  <2>1. stage = "update" /\ section \notin 1 .. 5 /\ verdict' = "accepted" /\ ~board.tz
        /\ UNCHANGED <<board, local, checked, masked, present, recorded>>
    BY <1>17, CheckSets DEF Check!Updated, Check!Return, Check!Quiet, LoadOK
  <2>2. section = 6
    BY <2>1 DEF Check!TypeOK
  <2>3. ASSUME ~masked, NEW s \in present PROVE recorded[Check!version_file(s)] >= checked.version
    <3>1. PICK k \in 1 .. 5 : Check!Sections[k] = s
      BY CheckSets DEF Check!TypeOK
    <3> QED BY <2>1, <2>2, <2>3, <3>1 DEF UpdateOK
  <2>4. ~masked => Check!Fit
    BY <2>1 DEF UpdateOK
  <2>5. Check!Fit' <=> Check!Fit
    BY <2>1 DEF Check!Fit, Check!Required
  <2> QED BY <2>1, <2>3, <2>4, <2>5 DEF VerdictFits, Check!VerdictFits
<1>18. CASE Check!Restart
  BY <1>18 DEF Check!Restart, VerdictFits, Check!VerdictFits, LoadOK
<1> QED BY <1>1, <1>2, <1>3, <1>4, <1>5, <1>6, <1>7, <1>8, <1>9, <1>10, <1>11, <1>12, <1>13, <1>14, <1>15, <1>16, <1>17, <1>18 DEF Check!Next

LEMMA CheckStep == CheckInv /\ [Check!Next]_Check!vars => CheckInv'
<1> SUFFICES ASSUME CheckInv, [Check!Next]_Check!vars PROVE CheckInv'
  OBVIOUS
<1>1. CASE Check!Next
  BY <1>1, CheckTypeStep, LoadStep, AuthStep, UpdateStep, VerdictStep DEF CheckInv
<1>2. CASE UNCHANGED Check!vars
  <2>1. UNCHANGED <<board, local, checked, checks, stage, files, present, seen, tmp_kernel, metadata,
                    section, recorded, verdict, masked, failed>>
    BY <1>2 DEF Check!vars
  <2>2. Check!TypeOK'
    BY <2>1 DEF CheckInv, Check!TypeOK
  <2>3. LoadOK'
    BY <2>1 DEF CheckInv, LoadOK, Checking, AllFiles
  <2>4. AuthOK'
    BY <2>1 DEF CheckInv, AuthOK, Check!Skipped, Check!Genuine, Check!Source
  <2>5. Check!Fit' <=> Check!Fit
    BY <2>1 DEF Check!Fit, Check!Required
  <2>6. UpdateOK'
    BY <2>1, <2>5 DEF CheckInv, UpdateOK
  <2>7. VerdictFits'
    BY <2>1, <2>5 DEF CheckInv, VerdictFits, Check!VerdictFits, Check!KernelComes
  <2> QED BY <2>2, <2>3, <2>4, <2>6, <2>7 DEF CheckInv
<1> QED BY <1>1, <1>2

(***************************************************************************)
(* For every set of images and of installed versions, and whatever the     *)
(* checks before it left in /tmp: a check accepts only an image that is    *)
(* genuine and not older, and refuses such a one only after a failure      *)
(* (do_board_upgrade_check).                                               *)
(***************************************************************************)
THEOREM VerdictIsTheImages == Check!Spec => []VerdictFits
<1>1. CheckInv => VerdictFits
  BY DEF CheckInv
<1> QED BY <1>1, CheckStart, CheckStep, PTL DEF Check!Spec

(* What the runs check: the three side by side, one of them at work.       *)
AllInv == IInv /\ CheckInv /\ CoresInv

LEMMA AllStep == AllInv /\ [MCNext]_<<vars, check_vars, core_vars, task>> => AllInv'
<1> SUFFICES ASSUME AllInv, [MCNext]_<<vars, check_vars, core_vars, task>> PROVE AllInv'
  OBVIOUS
<1>1. [Next]_vars
  BY DEF MCNext
<1>2. [Check!Next]_Check!vars
  <2>1. Check!Next \/ UNCHANGED check_vars
    BY DEF MCNext
  <2> QED BY <2>1 DEF check_vars, Check!vars
<1>3. [Cores!Next]_Cores!vars
  <2>1. Cores!Next \/ UNCHANGED core_vars
    BY DEF MCNext
  <2> QED BY <2>1 DEF core_vars, Cores!vars
<1>4. IInv'
  BY <1>1, TypeStep, OneSetStep, ProgressStep DEF AllInv, IInv
<1>5. CheckInv' /\ CoresInv'
  BY <1>2, <1>3, CheckStep, CoresStep DEF AllInv
<1> QED BY <1>4, <1>5 DEF AllInv

(***************************************************************************)
(* Every variable of the three keeps its range, and an upgrade, a check    *)
(* or a command of the cores leave the promises of the others alone.       *)
(***************************************************************************)
THEOREM SideBySide == MCSpec => [](MCTypeOK /\ VerdictFits /\ CoresReturned)
<1>1. MCInit => AllInv
  BY InitInv, CheckStart, CoresStart DEF MCInit, AllInv
<1>2. AllInv => MCTypeOK /\ VerdictFits /\ CoresReturned
  <2>1. CoresInv => CoresReturned
    BY CoresEnd
  <2> QED BY <2>1 DEF AllInv, IInv, CheckInv, CoresInv, MCTypeOK
<1> QED BY <1>1, <1>2, AllStep, PTL DEF MCSpec
=============================================================================
