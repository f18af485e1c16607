---------------------------- MODULE FlashUtility ----------------------------
(***************************************************************************)
(* The flash commands (flash, flerase, flread, mibib_reload,               *)
(* xtract_n_flash and flupdate of arch/arm/mach-ipq/cmd_flutility.c) and   *)
(* the partition lookups below them (arch/arm/mach-ipq/common.c).          *)
(*                                                                         *)
(* A name is looked up in the partition table of SMEM, in the GPT of the   *)
(* NOR flash or of the eMMC, or among the volumes of an attached UBI       *)
(* device; what is found decides which flash is written.  Between two      *)
(* commands remain: the flash type set by flupdate, the GPT to be          *)
(* corrected (g_gptsel), the GPT entries kept by get_gpt_entry, the UBI    *)
(* device, and the flash itself, in which any command may fail and the     *)
(* power may go.                                                           *)
(*                                                                         *)
(* A partition is a slot of a flash, its content an image; a table is a    *)
(* version, 0 when it cannot be read.                                      *)
(***************************************************************************)
EXTENDS Naturals, FiniteSets

CONSTANTS
  Versions,   \* versions of the partition tables; 1 is what the board comes with
  Place,      \* Place[v][n]: the flash of partition n in table v, or "none"
  Boards,     \* the boards: flash type, whether there is an eMMC, active set
  Given,      \* flash types given to commands, "default" for none
  MaxCalls    \* bound: commands of a boot

Roots  == {"rootfs", "rootfs_1"}
Parts  == {"raw", "absent"} \cup Roots
Tables == {"0:NORGPT", "0:NORGPTBACKUP", "0:GPT", "0:GPTBACKUP"}
Names  == Parts \cup Tables \cup {"ubi_rootfs"}
Flashes == {"nor", "nand", "mmc"}
Types  == {"nor", "nand", "norgpt", "mmc"}
Copies == {"GPT", "GPTBACKUP"}

\* What the constants are.
FlashAssumption ==
  /\ Versions \subseteq Nat \ {0} /\ 1 \in Versions /\ MaxCalls \in Nat
  /\ Place \in [Versions -> [Parts -> {"nor", "nand", "none"}]]
  /\ \A v \in Versions : Place[v]["absent"] = "none"
  /\ Boards \subseteq [boot : Types, mmc : BOOLEAN, active : Roots]
  /\ Given \subseteq Types \cup {"default"}

VARIABLES
  board,     \* what is fixed
  sfiType,   \* sfi->flash_type
  geom,      \* sfi->flash_block_size is that of the NOR flash
  ptable,    \* bdinfo->ptable: a version, 0 for NULL
  gFlash,    \* g_flash, "default" for 0
  gptsel,    \* g_gptsel, "none" for -1
  pte,       \* bdinfo->nor_gpt_pte: the version its entries are of, 0 for NULL
  attached,  \* the partition UBI is attached to, or "none"
  known,     \* the root file systems whose place is known (sfi->rootfs)
  gpt,       \* gpt[d][c]: the tables in the flash
  fits,      \* fits[d][c]: it is written for a flash of this size
  content,   \* content[d][n]: the partitions
  vols,      \* vols[n]: the volumes of a UBI partition
  cmd,       \* the command, and what do_flash has found out about it
  pc,        \* "idle", "find", "act", "update", "done"
  res,       \* the result of the command: "ok", "fail"
  xt,        \* do_xtract_n_flash: the command around it
  torn,      \* history: the entries kept are of a table not in force, as the two
             \* differed when they were read, or one was half rewritten since
  fails,     \* history: failures of the flash, up to 2
  calls      \* commands so far

sfi    == <<sfiType, geom>>
sel    == <<gFlash, gptsel>>
cache  == <<pte, known>>
flash  == <<gpt, fits, content, vols>>
hist   == <<torn, fails, calls>>
vars == <<board, sfi, ptable, sel, cache, attached, flash, cmd, pc, res, xt, hist>>

NoCmd == [op |-> "none", name |-> "absent", type |-> "nor",
          dev |-> "nor", ubi |-> FALSE, uclass |-> "junk"]
NoXt == [on |-> FALSE, alt |-> FALSE, redo |-> FALSE, given |-> "default"]

Volumes == [main : {"old", "new", "bad", "none"}, data : BOOLEAN]
More(f) == IF f < 2 THEN f + 1 ELSE f

\* Tables that pass the checks: a backup has to know where it is.
Valid(d, c) == gpt[d][c] # 0 /\ (c = "GPTBACKUP" => fits[d][c])
Table(d) == IF Valid(d, "GPT") THEN gpt[d]["GPT"]
            ELSE IF Valid(d, "GPTBACKUP") THEN gpt[d]["GPTBACKUP"] ELSE 0

\* The flash a partition is in, for a command of flash type t.
Home(t, n) ==
  CASE t = "mmc"    -> IF Table("mmc") # 0 /\ n # "absent" THEN "mmc" ELSE "none"
    [] t = "norgpt" -> IF Table("nor") # 0 THEN Place[Table("nor")][n] ELSE "none"
    [] t = "nor"    -> IF ptable # 0 THEN Place[ptable][n] ELSE "none"
    [] t = "nand"   -> IF ptable # 0 /\ Place[ptable][n] # "none" THEN "nand" ELSE "none"

Init ==
  /\ board \in Boards
  /\ sfiType = board.boot /\ geom = TRUE
  /\ ptable = IF board.boot \in {"nor", "nand"} THEN 1 ELSE 0
  /\ gFlash = "default" /\ gptsel = "none" /\ attached = "none"
  /\ pte = IF board.boot = "norgpt" THEN 1 ELSE 0
  /\ known = IF board.boot = "mmc" THEN {} ELSE {n \in Roots : Place[1][n] # "none"}
  /\ gpt = [d \in {"nor", "mmc"} |-> [c \in Copies |-> 1]]
  /\ fits = [d \in {"nor", "mmc"} |-> [c \in Copies |-> TRUE]]
  /\ content = [d \in Flashes |-> [n \in Parts |-> "old"]]
  /\ vols = [n \in Roots |-> [main |-> "old", data |-> TRUE]]
  /\ cmd = NoCmd /\ pc = "idle" /\ res = "ok" /\ xt = NoXt
  /\ torn = FALSE /\ fails = 0 /\ calls = 0
-----------------------------------------------------------------------------
(* The commands as they are typed *)

\* g_flash, or the type given, or that of the board.
TypeOf(t) == IF t # "default" THEN t ELSE IF gFlash # "default" THEN gFlash ELSE sfiType

Begin(op, n, t) ==
  /\ cmd' = [NoCmd EXCEPT !.op = op, !.name = n, !.type = TypeOf(t)]
  /\ pc' = "find"

Command(n, t) ==
  /\ pc = "idle" /\ calls < MaxCalls
  /\ \E op \in {"flash", "flerase", "flread"} :
       /\ op # "flash" => t = "default"
       /\ Begin(op, n, t)
  /\ calls' = calls + 1 /\ xt' = NoXt
  /\ UNCHANGED <<board, sfi, ptable, sel, cache, attached, flash, res, torn, fails>>

\* The image is taken out of a larger one first; for tables and boot
\* configurations there is no second partition.
XtractNFlash(n, t, alt) ==
  /\ pc = "idle" /\ calls < MaxCalls
  /\ xt' = [on |-> TRUE, alt |-> alt /\ n \notin Tables, redo |-> FALSE, given |-> t]
  /\ \/ Begin("flash", n, t) /\ UNCHANGED res
     \/ cmd' = [NoCmd EXCEPT !.name = n, !.type = TypeOf(t)] /\ pc' = "done" /\ res' = "fail"
  /\ calls' = calls + 1
  /\ UNCHANGED <<board, sfi, ptable, sel, cache, attached, flash, torn, fails>>

Flupdate(t) ==
  /\ pc = "idle" /\ calls < MaxCalls
  /\ gFlash' = t
  /\ calls' = calls + 1
  /\ UNCHANGED <<board, sfi, ptable, gptsel, cache, attached, flash, cmd, pc, res, xt,
                 torn, fails>>

\* A table given to a board that has none is copied to memory nobody keeps.
\* The block size is taken as it is typed.
MibibReload(v, t) ==
  /\ pc = "idle" /\ calls < MaxCalls
  /\ geom' \in BOOLEAN
  /\ ptable' = IF ptable = 0 THEN 0 ELSE v
  /\ sfiType' = t
  /\ attached' = "none"
  /\ known' = {n \in Roots : ptable' # 0 /\ Place[v][n] # "none"}
  /\ calls' = calls + 1
  /\ UNCHANGED <<board, sel, pte, flash, cmd, pc, res, xt, torn, fails>>
\* A type, an image or a table that does not pass: the block size stays taken.
MibibRefused ==
  /\ pc = "idle" /\ calls < MaxCalls
  /\ geom' \in BOOLEAN
  /\ calls' = calls + 1
  /\ UNCHANGED <<board, sfiType, ptable, sel, cache, attached, flash, cmd, pc, res, xt,
                 torn, fails>>
-----------------------------------------------------------------------------
(* Finding the partition *)

Fail == pc' = "done" /\ res' = "fail"

Go(d, ubi, u) ==
  /\ cmd' = [cmd EXCEPT !.dev = d, !.ubi = ubi, !.uclass = u]
  /\ pc' = "act" /\ UNCHANGED res

\* get_gpt_entry, with the entries kept: without any, the tables are repaired
\* from each other, and the entries of the backup kept.
GetGptEntry(kept) ==
  IF kept # 0 \/ Table("nor") = 0 THEN pte' = kept /\ UNCHANGED <<gpt, fits, fails, torn>>
  ELSE LET both == \A c \in Copies : Valid("nor", c)
           from == IF Valid("nor", "GPT") THEN "GPT" ELSE "GPTBACKUP"
       IN \/ /\ gpt' = IF both THEN gpt ELSE [gpt EXCEPT !["nor"] = [c \in Copies |-> @[from]]]
             /\ fits' = IF both THEN fits ELSE [fits EXCEPT !["nor"] = [c \in Copies |-> @[from]]]
             /\ pte' = IF \A c \in Copies : fits'["nor"][c] THEN gpt'["nor"]["GPTBACKUP"] ELSE 0
             /\ torn' = (gpt'["nor"]["GPT"] # gpt'["nor"]["GPTBACKUP"])
             /\ UNCHANGED fails
          \/ ~both /\ pte' = 0 /\ fails' = More(fails) /\ UNCHANGED <<gpt, fits, torn>>

\* ipq_get_kernel_fs_part_details, for flash type t and the tables at hand.
Details(t) ==
  IF t = "norgpt"
  THEN {n \in Roots : Table("nor") # 0 /\ Place[Table("nor")][n] # "none" /\ pte' # 0}
  ELSE {n \in Roots : ptable' # 0 /\ Place[ptable'][n] # "none"}

\* Where UBI is attached once ipq_init_ubi_part returns: where it was, or at
\* the root file system of the active set.
UbiParts ==
  IF attached # "none" THEN {attached}
  ELSE IF board.active \in known' /\ Home(TypeOf("default"), board.active) = "nand"
  THEN {board.active, "none"}
  ELSE {"none"}

\* The volume is looked for and UBI left attached when it is there.
UbiVolPresent(n) ==
  /\ known' = Details(TypeOf("default"))
  /\ \E p \in UbiParts :
       attached' = IF p # "none" /\ n = "ubi_rootfs" /\ vols[p].main # "none" THEN p ELSE "none"

\* What is not found goes to the volume, to the eMMC, if there is one, when no
\* root file system is known, or nowhere.
Elsewhere ==
  /\ UbiVolPresent(cmd.name)
  /\ IF "rootfs" \notin known'
     THEN cmd' = [cmd EXCEPT !.type = "mmc"] /\ UNCHANGED <<pc, res>>
     ELSE IF attached' # "none" THEN Go("nand", TRUE, IF cmd.type = "norgpt" THEN "nor" ELSE "junk")
     ELSE Fail /\ UNCHANGED cmd

\* SMEM names the flash.
InSmem == ptable # 0 /\ cmd.name \in Parts /\ Place[ptable][cmd.name] # "none"

\* The place in the table of SMEM is counted in blocks of the wrong size; those
\* of the NAND flash have a size of their own.
Displaced ==
  ~geom /\ cmd.type \in {"nor", "nand"} /\ InSmem /\ Place[ptable][cmd.name] = "nor"

FindInSmem ==
  /\ pc = "find" /\ cmd.type \in {"nor", "nand"} /\ InSmem
  /\ Go(IF cmd.type = "nor" THEN Place[ptable][cmd.name] ELSE "nand", FALSE, "junk")
  /\ UNCHANGED <<board, sfi, ptable, sel, cache, attached, flash, xt, hist>>

FindWithoutSmem ==
  /\ pc = "find" /\ cmd.type = "nor" /\ ptable = 0
  /\ Fail
  /\ UNCHANGED <<board, sfi, ptable, sel, cache, attached, flash, cmd, xt, hist>>

FindSpiElsewhere ==
  /\ pc = "find" /\ cmd.type = "nor" /\ ptable # 0 /\ ~InSmem
  /\ UNCHANGED ptable
  /\ IF TypeOf("default") = "norgpt" THEN GetGptEntry(pte)
     ELSE UNCHANGED <<pte, gpt, fits, fails, torn>>
  /\ Elsewhere
  /\ UNCHANGED <<board, sfi, sel, content, vols, xt, calls>>

FindNandVolume ==
  /\ pc = "find" /\ cmd.type = "nand" /\ ptable # 0 /\ ~InSmem
  /\ UNCHANGED ptable
  /\ IF TypeOf("default") = "norgpt" THEN GetGptEntry(pte)
     ELSE UNCHANGED <<pte, gpt, fits, fails, torn>>
  /\ UbiVolPresent(cmd.name)
  /\ IF attached' # "none" THEN Go("nand", TRUE, "junk") ELSE Fail /\ UNCHANGED cmd
  /\ UNCHANGED <<board, sfi, sel, content, vols, xt, calls>>

\* Mutant: the entries kept stay.
FindNorTableKeeping ==
  /\ pc = "find" /\ cmd.type = "norgpt" /\ cmd.name \in {"0:NORGPT", "0:NORGPTBACKUP"}
  /\ gptsel' = IF cmd.name = "0:NORGPT" THEN "GPT" ELSE "GPTBACKUP"
  /\ Go("nor", FALSE, "nor")
  /\ UNCHANGED <<board, sfi, ptable, gFlash, cache, attached, flash, xt, hist>>

\* A table of the NOR flash itself; only the primary drops the entries kept.
FindNorTable ==
  /\ pc = "find" /\ cmd.type = "norgpt" /\ cmd.name \in {"0:NORGPT", "0:NORGPTBACKUP"}
  /\ gptsel' = IF cmd.name = "0:NORGPT" THEN "GPT" ELSE "GPTBACKUP"
  /\ pte' = IF cmd.name = "0:NORGPT" THEN 0 ELSE pte
  /\ Go("nor", FALSE, "nor")
  /\ UNCHANGED <<board, sfi, ptable, gFlash, known, attached, flash, xt, hist>>

\* The name is found in the table, the flash it is in from the entries kept.
FindNorGpt ==
  /\ pc = "find" /\ cmd.type = "norgpt" /\ cmd.name \notin {"0:NORGPT", "0:NORGPTBACKUP"}
  /\ LET there == Table("nor") # 0 /\ cmd.name \in Parts /\ Place[Table("nor")][cmd.name] # "none"
     IN /\ UNCHANGED ptable
        /\ GetGptEntry(pte)
        /\ IF there /\ pte' # 0
           THEN /\ Go(IF Place[pte'][cmd.name] = "nand" THEN "nand" ELSE "nor", FALSE, "nor")
                /\ UNCHANGED <<attached, known>>
           ELSE Elsewhere
  /\ UNCHANGED <<board, sfi, sel, content, vols, xt, calls>>

FindMmc ==
  /\ pc = "find" /\ cmd.type = "mmc"
  /\ IF ~board.mmc THEN Fail /\ UNCHANGED <<cmd, gptsel>>
     ELSE IF cmd.name \in {"0:GPT", "0:GPTBACKUP"}
     THEN /\ gptsel' = IF cmd.name = "0:GPT" THEN "GPT" ELSE "GPTBACKUP"
          /\ Go("mmc", FALSE, "mmc")
     ELSE IF cmd.name \in Parts /\ Home("mmc", cmd.name) # "none"
     THEN Go("mmc", FALSE, "mmc") /\ UNCHANGED gptsel
     ELSE Fail /\ UNCHANGED <<cmd, gptsel>>
  /\ UNCHANGED <<board, sfi, ptable, gFlash, cache, attached, flash, xt, hist>>
-----------------------------------------------------------------------------
(* Erasing, reading and writing *)

\* Mutant: the whole name is compared.
DetachExactly(n) == IF n = "rootfs" THEN "none" ELSE attached

\* Every name that starts with rootfs detaches UBI first.
Detach(n) == IF n \in Roots THEN "none" ELSE attached

\* A partition, or a table, that was written, or was to be.  A volume image
\* brings its volumes.
Put(d, n, what) ==
  IF n \in Tables
  THEN LET c == IF n \in {"0:NORGPT", "0:GPT"} THEN "GPT" ELSE "GPTBACKUP"
       IN /\ \E v \in Versions : gpt' = [gpt EXCEPT ![d][c] = IF what = "new" THEN v ELSE 0]
          /\ fits' = [fits EXCEPT ![d][c] = FALSE]
          /\ UNCHANGED <<content, vols>>
  ELSE /\ content' = [content EXCEPT ![d][n] = what]
       /\ vols' = IF d = "nand" /\ n \in Roots
                  THEN [vols EXCEPT ![n] = IF what = "new" THEN [main |-> "new", data |-> TRUE]
                                           ELSE [main |-> "none", data |-> FALSE]]
                  ELSE vols
       /\ UNCHANGED <<gpt, fits>>

TooLarge ==
  /\ pc = "act" /\ cmd.op = "flash" /\ ~cmd.ubi /\ cmd.name \notin Tables
  /\ Fail
  /\ UNCHANGED <<board, sfi, ptable, sel, cache, attached, flash, cmd, xt, hist>>

\* The command at the partition it comes down on: its own, or any that it
\* hits from a wrong place.
PutThere(what) ==
  \/ Put(cmd.dev, cmd.name, what)
  \/ Displaced /\ \E n \in Parts \ {cmd.name} : Put(cmd.dev, n, "bad")

\* Erased, then written; the erase, or the write, may fail.
WriteToFlash ==
  /\ pc = "act" /\ cmd.op = "flash" /\ ~cmd.ubi
  /\ attached' = Detach(cmd.name)
  /\ \/ PutThere("new") /\ pc' = "update" /\ UNCHANGED <<res, fails>>
     \/ PutThere("bad") /\ Fail /\ fails' = More(fails)
     \/ Fail /\ fails' = More(fails) /\ UNCHANGED flash
  /\ UNCHANGED <<board, sfi, ptable, sel, cache, cmd, xt, torn, calls>>

\* The volumes after k commands of the chain that replaces the root file
\* system, each run only when the one before succeeded.
Chain(v, k) ==
  [main |-> IF k < 2 THEN v.main ELSE IF k = 2 THEN "none" ELSE IF k = 3 THEN "bad" ELSE "new",
   data |-> IF k = 0 THEN v.data ELSE k = 5]

WriteUbiVol ==
  /\ pc = "act" /\ cmd.op = "flash" /\ cmd.ubi
  /\ \E k \in 0 .. 5 :
       /\ k > 0 => vols[attached].data
       /\ vols' = [vols EXCEPT ![attached] = Chain(@, k)]
       /\ IF k = 5 THEN pc' = "update" /\ UNCHANGED <<res, fails>>
          ELSE Fail /\ fails' = IF vols[attached].data THEN More(fails) ELSE fails
  /\ UNCHANGED <<board, sfi, ptable, sel, cache, attached, gpt, fits, content, cmd, xt,
                 torn, calls>>

\* Mutant: a table is erased like a partition.
FlEraseTable ==
  /\ pc = "act" /\ cmd.op = "flerase" /\ ~cmd.ubi
  /\ attached' = Detach(cmd.name)
  /\ Put(cmd.dev, cmd.name, "bad") /\ pc' = "update"
  /\ UNCHANGED <<board, sfi, ptable, sel, cache, cmd, res, xt, hist>>

\* A table has no length here: nothing of it is erased.
FlErase ==
  /\ pc = "act" /\ cmd.op = "flerase"
  /\ attached' = Detach(cmd.name)
  /\ \/ /\ ~cmd.ubi /\ pc' = "update" /\ UNCHANGED <<res, fails>>
        /\ IF cmd.name \in Tables THEN UNCHANGED flash ELSE PutThere("bad")
     \/ /\ Fail
        /\ IF cmd.ubi THEN UNCHANGED <<flash, fails>>
           ELSE /\ fails' = More(fails)
                /\ IF cmd.name \in Tables THEN UNCHANGED flash ELSE PutThere("bad")
  /\ UNCHANGED <<board, sfi, ptable, sel, cache, cmd, xt, torn, calls>>

FlRead ==
  /\ pc = "act" /\ cmd.op = "flread"
  /\ attached' = Detach(cmd.name)
  /\ pc' \in {"update", "done"}
  /\ res' = IF pc' = "done" THEN "fail" ELSE res
  /\ UNCHANGED <<board, sfi, ptable, sel, cache, flash, cmd, xt, hist>>

\* The device of the table to be corrected; its class is only set for types
\* that have one.
Device == IF cmd.uclass = "junk" THEN {"nor", "mmc", "none"} ELSE {cmd.uclass}

NoUpdate ==
  /\ pc = "update" /\ gptsel = "none"
  /\ pc' = "done" /\ res' = "ok"
  /\ UNCHANGED <<board, sfi, ptable, sel, cache, attached, flash, cmd, xt, hist>>

\* The header is made to fit, by any command that follows one that left
\* gptsel set; failures are dropped, and may cost the table.
GptUpdateParams ==
  /\ pc = "update" /\ gptsel # "none"
  /\ \E d \in Device \ {"none"} :
       \/ fits' = [fits EXCEPT ![d][gptsel] = TRUE] /\ UNCHANGED <<gpt, torn, fails>>
       \/ fails' = More(fails) /\ UNCHANGED <<gpt, fits, torn>>
       \/ /\ gpt' = [gpt EXCEPT ![d][gptsel] = 0]
          /\ fails' = More(fails) /\ torn' = TRUE /\ UNCHANGED fits
  /\ gptsel' = "none" /\ pc' = "done" /\ res' = "ok"
  /\ UNCHANGED <<board, sfi, ptable, gFlash, cache, attached, content, vols, cmd, xt, calls>>

NoDevice ==
  /\ pc = "update" /\ gptsel # "none" /\ "none" \in Device
  /\ Fail
  /\ UNCHANGED <<board, sfi, ptable, sel, cache, attached, flash, cmd, xt, hist>>
-----------------------------------------------------------------------------
(* The end of a command *)

AltName(n) == CASE n = "rootfs" -> "rootfs_1" [] OTHER -> "absent"

\* The image goes to the other partition of the pair as well, of the type
\* given or of the one now in force.
XtractAgain ==
  /\ pc = "done" /\ xt.on /\ xt.alt /\ ~xt.redo
  /\ xt' = [xt EXCEPT !.redo = TRUE]
  /\ \/ Begin("flash", AltName(cmd.name), xt.given) /\ UNCHANGED res
     \/ cmd' = [NoCmd EXCEPT !.name = AltName(cmd.name)] /\ pc' = "done" /\ res' = "fail"
  /\ UNCHANGED <<board, sfi, ptable, sel, cache, attached, flash, hist>>

\* The result of a command that was given twice is success, whatever it was.
Return ==
  /\ pc = "done" /\ (xt.on => ~xt.alt \/ xt.redo)
  /\ pc' = "idle" /\ cmd' = NoCmd /\ xt' = NoXt /\ res' = "ok"
  /\ UNCHANGED <<board, sfi, ptable, sel, cache, attached, flash, hist>>

\* Power loss, a reset, or the exception of a lookup in a table that is not
\* there (ipq_getpart_offset_size): only the flash stays.
Reset ==
  /\ sfiType' = board.boot /\ geom' = TRUE
  /\ ptable' = IF board.boot \in {"nor", "nand"} THEN 1 ELSE 0
  /\ gFlash' = "default" /\ gptsel' = "none" /\ attached' = "none"
  /\ IF board.boot = "norgpt" THEN GetGptEntry(0) ELSE pte' = 0 /\ UNCHANGED <<gpt, fits, fails, torn>>
  /\ known' = Details(board.boot)
  /\ cmd' = NoCmd /\ pc' = "idle" /\ res' = "ok" /\ xt' = NoXt
  /\ UNCHANGED <<board, content, vols, calls>>
-----------------------------------------------------------------------------
Next ==
  \/ \E n \in Names \ {"absent"}, t \in Given :
       Command(n, t) \/ \E alt \in BOOLEAN : XtractNFlash(n, t, alt)
  \/ \E t \in Given : Flupdate(t)
  \/ \E v \in Versions, t \in {"nor", "nand"} : MibibReload(v, t)
  \/ MibibRefused
  \/ FindInSmem \/ FindWithoutSmem \/ FindSpiElsewhere \/ FindNandVolume \/ FindNorTable \/ FindNorGpt \/ FindMmc
  \/ TooLarge \/ WriteToFlash \/ WriteUbiVol \/ FlErase \/ FlRead
  \/ NoUpdate \/ GptUpdateParams \/ NoDevice \/ XtractAgain \/ Return \/ Reset

Spec == Init /\ [][Next]_vars
-----------------------------------------------------------------------------
TypeOK ==
  /\ board \in Boards /\ sfiType \in Types /\ geom \in BOOLEAN /\ ptable \in Versions \cup {0}
  /\ gFlash \in Types \cup {"default"} /\ gptsel \in Copies \cup {"none"}
  /\ pte \in Versions \cup {0} /\ attached \in Roots \cup {"none"} /\ known \subseteq Roots
  /\ gpt \in [{"nor", "mmc"} -> [Copies -> Versions \cup {0}]]
  /\ fits \in [{"nor", "mmc"} -> [Copies -> BOOLEAN]]
  /\ content \in [Flashes -> [Parts -> {"old", "new", "bad"}]]
  /\ vols \in [Roots -> Volumes]
  /\ cmd \in [op : {"none", "flash", "flerase", "flread"}, name : Names, type : Types, dev : Flashes, ubi : BOOLEAN, uclass : {"nor", "mmc", "junk"}]
  /\ pc \in {"idle", "find", "act", "update", "done"} /\ res \in {"ok", "fail"}
  /\ xt \in [on : BOOLEAN, alt : BOOLEAN, redo : BOOLEAN, given : Types \cup {"default"}]
  /\ torn \in BOOLEAN /\ fails \in 0 .. 2 /\ calls \in 0 .. MaxCalls

(***************************************************************************)
(* A flash command that reports success wrote its image to the partition   *)
(* of its name, in the flash that the table in force places it in, or to   *)
(* the volume of its name and left the empty one beside it; whatever       *)
(* entries, UBI device and flash type earlier commands have left behind.   *)
(* Two cases are left out.  get_gpt_entry keeps the entries of the backup  *)
(* while names are found in the primary, so that a lookup between the      *)
(* writing of the two tables, or after one was half rewritten, may take    *)
(* the wrong flash.  And mibib_reload keeps the block size it was given    *)
(* even when it refuses the table: a place in the NOR flash is then        *)
(* counted in blocks of the wrong size, and success says nothing of where  *)
(* the image went (do_flash, get_gpt_entry, do_mibib_reload).              *)
(***************************************************************************)
FlashHonest ==
  pc = "done" /\ cmd.op = "flash" /\ res = "ok" /\ ~torn =>
    /\ cmd.name \in Parts /\ ~Displaced => content[Home(cmd.type, cmd.name)][cmd.name] = "new"
    /\ cmd.name = "ubi_rootfs" => vols[attached] = [main |-> "new", data |-> TRUE]

(***************************************************************************)
(* No command writes a partition of the NAND flash by itself while UBI is  *)
(* attached to it, although lookups attach UBI and leave it so; unless the *)
(* place of the partition is counted in blocks of the wrong size           *)
(* (do_flash, ubi_vol_present, mibib_reload).                              *)
(***************************************************************************)
RawNotAttached ==
  [][~Displaced => \A n \in Roots : content'["nand"][n] # content["nand"][n] => attached' # n]_vars

(***************************************************************************)
(* Both tables of a flash are only lost after two failures of the flash:   *)
(* erasing or reading a table by name does not erase it, and a header      *)
(* corrected on behalf of another command costs at most one of the two     *)
(* (prepare_mmc_flash, prepare_nor_gpt, gpt_update_params).                *)
(***************************************************************************)
TablesSurvive ==
  \A d \in {"nor", "mmc"} : (\A c \in Copies : gpt[d][c] = 0) => fails = 2
=============================================================================
