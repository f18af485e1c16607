------------------------- MODULE FlashUtilityProofs -------------------------
(***************************************************************************)
(* Proofs about the flash commands, for every set of boards, table         *)
(* versions, placements and given flash types, and any number of commands. *)
(***************************************************************************)
EXTENDS NorBlkProofs

Devices == {"nor", "mmc"}

\* A table that is lost was lost to a failure, and both to two of them.
TablesCounted ==
  /\ gpt \in [Devices -> [FU!Copies -> Nat]]
  /\ fails \in 0 .. 2
  /\ \A d \in Devices : \A c \in FU!Copies : gpt[d][c] = 0 => fails # 0
  /\ FU!TablesSurvive

USE DEF Devices, FU!Copies

\* What a step that fails may do: one copy on each flash.
LEMMA OneLoss ==
  ASSUME TablesCounted, fails' = FU!More(fails),
         gpt' \in [Devices -> [FU!Copies -> Nat]],
         NEW b \in FU!Copies,
         \A d \in Devices, c \in FU!Copies : gpt'[d][c] = 0 => gpt[d][c] = 0 \/ c = b
  PROVE  TablesCounted'
<1>1. fails' \in 0 .. 2 /\ fails' # 0 /\ (fails # 0 => fails' = 2)
  BY DEF TablesCounted, FU!More
<1>2. ASSUME NEW d \in Devices, \A c \in FU!Copies : gpt'[d][c] = 0  PROVE fails' = 2
  <2>1. PICK o \in FU!Copies : o # b
    OBVIOUS
  <2>2. gpt[d][o] = 0
    BY <1>2, <2>1
  <2> QED  BY <2>2, <1>1 DEF TablesCounted
<1> QED  BY <1>1, <1>2 DEF TablesCounted, FU!TablesSurvive

\* What any other step may do: none.
LEMMA NoLoss ==
  ASSUME TablesCounted, fails' \in {fails, FU!More(fails)},
         gpt' \in [Devices -> [FU!Copies -> Nat]],
         \A d \in Devices, c \in FU!Copies : gpt'[d][c] = 0 => gpt[d][c] = 0
  PROVE  TablesCounted'
BY DEF TablesCounted, FU!TablesSurvive, FU!More

\* Looking up entries repairs tables and loses none.
LEMMA LookupKeeps ==
  ASSUME TablesCounted, NEW k, FU!GetGptEntry(k)
  PROVE  TablesCounted'
<1>1. CASE UNCHANGED <<gpt, fails>>
  BY <1>1 DEF TablesCounted, FU!TablesSurvive
<1>2. CASE UNCHANGED gpt /\ fails' = FU!More(fails)
  BY <1>2, NoLoss DEF TablesCounted
<1>3. ASSUME NEW f \in FU!Copies, FU!Valid("nor", f), UNCHANGED fails,
             gpt' = [gpt EXCEPT !["nor"] = [c \in FU!Copies |-> @[f]]]
      PROVE  TablesCounted'
  <2>1. gpt["nor"][f] \in Nat /\ gpt["nor"][f] # 0
    BY <1>3 DEF TablesCounted, FU!Valid
  <2>2. /\ gpt' \in [Devices -> [FU!Copies -> Nat]]
        /\ \A d \in Devices, c \in FU!Copies : gpt'[d][c] = 0 => gpt[d][c] = 0
    BY <1>3, <2>1 DEF TablesCounted
  <2> QED  BY <2>2, <1>3, NoLoss
<1>4. FU!Table("nor") # 0 => FU!Valid("nor", "GPT") \/ FU!Valid("nor", "GPTBACKUP")
  BY DEF FU!Table
<1>5. CASE k # 0 \/ FU!Table("nor") = 0
  BY <1>5, <1>1 DEF FU!GetGptEntry
<1>6. CASE ~(k # 0 \/ FU!Table("nor") = 0)
  <2> DEFINE from == IF FU!Valid("nor", "GPT") THEN "GPT" ELSE "GPTBACKUP"
  <2>1. FU!Valid("nor", from) /\ from \in FU!Copies
    BY <1>4, <1>6
  <2>2. \/ UNCHANGED <<gpt, fails>>
        \/ UNCHANGED gpt /\ fails' = FU!More(fails)
        \/ UNCHANGED fails /\ gpt' = [gpt EXCEPT !["nor"] = [c \in FU!Copies |-> @[from]]]
    BY <1>6 DEF FU!GetGptEntry
  <2> QED  BY <2>1, <2>2, <1>1, <1>2, <1>3
<1> QED  BY <1>5, <1>6

\* Writing something, or losing what is written to a failure.
LEMMA PutCounts ==
  ASSUME TablesCounted, FU!FlashAssumption, NEW d, NEW n, NEW what,
         FU!Put(d, n, what),
         (what = "new" /\ fails' = fails) \/ fails' = FU!More(fails)
  PROVE  TablesCounted'
<1>1. CASE n \notin FU!Tables
  <2>1. UNCHANGED gpt
    BY <1>1 DEF FU!Put
  <2> QED  BY <2>1, NoLoss DEF TablesCounted
<1>2. CASE n \in FU!Tables
  <2>1. PICK c \in FU!Copies, x \in Nat : /\ gpt' = [gpt EXCEPT ![d][c] = x]
                                          /\ what = "new" => x # 0
    BY <1>2 DEF FU!Put, FU!FlashAssumption
  <2>2. gpt' \in [Devices -> [FU!Copies -> Nat]]
    BY <2>1 DEF TablesCounted
  <2>3. \A e \in Devices, b \in FU!Copies :
          gpt'[e][b] = 0 => gpt[e][b] = 0 \/ (b = c /\ what # "new")
    BY <2>1 DEF TablesCounted
  <2>4. CASE what = "new"
    BY <2>2, <2>3, <2>4, NoLoss
  <2>5. CASE what # "new"
    BY <2>2, <2>3, <2>5, OneLoss
  <2> QED  BY <2>4, <2>5
<1> QED  BY <1>1, <1>2

\* Steps that leave tables and failures alone.
LEMMA Untouched ==
  ASSUME TablesCounted, UNCHANGED <<gpt, fails>>
  PROVE  TablesCounted'
BY DEF TablesCounted, FU!TablesSurvive

LEMMA CountInit == ASSUME FU!Init, FU!FlashAssumption PROVE TablesCounted
BY DEF FU!Init, TablesCounted, FU!TablesSurvive

LEMMA FlashSets ==
  /\ Versions \subseteq Nat \ {0} /\ 1 \in Versions /\ MaxCommands \in Nat
  /\ Place \in [Versions -> [FU!Parts -> {"nor", "nand", "none"}]]
  /\ Boards \subseteq [boot : FU!Types, mmc : BOOLEAN, active : FU!Roots]
  /\ Given \subseteq FU!Types \cup {"default"}
BY FlashIs DEF FU!FlashAssumption

LEMMA NameSets ==
  /\ FU!Roots = {"rootfs", "rootfs_1"} /\ FU!Parts = {"raw", "absent", "rootfs", "rootfs_1"}
  /\ FU!Tables = {"0:NORGPT", "0:NORGPTBACKUP", "0:GPT", "0:GPTBACKUP"}
  /\ FU!Names = FU!Parts \cup FU!Tables \cup {"ubi_rootfs"}
  /\ FU!Types = {"nor", "nand", "norgpt", "mmc"} /\ FU!Flashes = {"nor", "nand", "mmc"}
BY DEF FU!Roots, FU!Parts, FU!Tables, FU!Names, FU!Types, FU!Flashes

\* A step of the commands or of what they call keeps the count.
LEMMA CountStep ==
  ASSUME TablesCounted, FU!FlashAssumption, [FU!Next]_FU!vars
  PROVE  TablesCounted'
<1> USE DEF FU!flash, FU!hist
<1>1. ASSUME NEW n, NEW t, FU!Command(n, t)  PROVE TablesCounted'
  BY <1>1, Untouched DEF FU!Command
<1>2. ASSUME NEW n, NEW t, NEW alt, FU!XtractNFlash(n, t, alt)  PROVE TablesCounted'
  BY <1>2, Untouched DEF FU!XtractNFlash
<1>3. ASSUME NEW t, FU!Flupdate(t)  PROVE TablesCounted'
  BY <1>3, Untouched DEF FU!Flupdate
<1>4. ASSUME FU!MibibRefused \/ \E v, t : FU!MibibReload(v, t)  PROVE TablesCounted'
  BY <1>4, Untouched DEF FU!MibibReload, FU!MibibRefused
<1>5. CASE FU!FindInSmem \/ FU!FindWithoutSmem \/ FU!FindNorTable \/ FU!FindMmc
  BY <1>5, Untouched DEF FU!FindInSmem, FU!FindWithoutSmem, FU!FindNorTable, FU!FindMmc
<1>6. CASE FU!FindSpiElsewhere
  BY <1>6, Untouched, LookupKeeps DEF FU!FindSpiElsewhere
<1>7. CASE FU!FindNandVolume
  BY <1>7, Untouched, LookupKeeps DEF FU!FindNandVolume
<1>8. CASE FU!FindNorGpt
  BY <1>8, LookupKeeps DEF FU!FindNorGpt
<1>9. CASE FU!TooLarge \/ FU!FlRead \/ FU!NoUpdate \/ FU!NoDevice \/ FU!XtractAgain \/ FU!Return
  BY <1>9, Untouched DEF FU!TooLarge, FU!FlRead, FU!NoUpdate, FU!NoDevice, FU!XtractAgain, FU!Return
<1>10. CASE FU!WriteToFlash
  <2>1. \/ FU!PutThere("new") /\ UNCHANGED fails
        \/ FU!PutThere("bad") /\ fails' = FU!More(fails)
        \/ fails' = FU!More(fails) /\ UNCHANGED gpt
    BY <1>10 DEF FU!WriteToFlash
  <2>2. CASE FU!PutThere("new") /\ UNCHANGED fails
    <3>1. CASE FU!Put(cmd.dev, cmd.name, "new")
      BY <2>2, <3>1, PutCounts
    <3>2. CASE \E n \in FU!Parts : FU!Put(cmd.dev, n, "bad")
      <4>1. UNCHANGED gpt
        BY <3>2, NameSets DEF FU!Put
      <4> QED  BY <2>2, <4>1, Untouched
    <3> QED  BY <2>2, <3>1, <3>2 DEF FU!PutThere
  <2>3. CASE FU!PutThere("bad") /\ fails' = FU!More(fails)
    BY <2>3, PutCounts DEF FU!PutThere
  <2>4. CASE fails' = FU!More(fails) /\ UNCHANGED gpt
    BY <2>4, NoLoss DEF TablesCounted
  <2> QED  BY <2>1, <2>2, <2>3, <2>4
<1>11. CASE FU!WriteUbiVol
  <2>1. UNCHANGED gpt /\ fails' \in {fails, FU!More(fails)}
    BY <1>11 DEF FU!WriteUbiVol
  <2> QED  BY <2>1, NoLoss DEF TablesCounted
<1>12. CASE FU!FlErase
  <2>1. UNCHANGED gpt /\ fails' \in {fails, FU!More(fails)}
    BY <1>12, NameSets DEF FU!FlErase, FU!Put, FU!PutThere
  <2> QED  BY <2>1, NoLoss DEF TablesCounted
<1>13. CASE FU!GptUpdateParams
  <2>1. PICK d : \/ UNCHANGED <<gpt, fails>>
                 \/ fails' = FU!More(fails) /\ UNCHANGED gpt
                 \/ gpt' = [gpt EXCEPT ![d][gptsel] = 0] /\ fails' = FU!More(fails)
    BY <1>13 DEF FU!GptUpdateParams
  <2>2. CASE UNCHANGED <<gpt, fails>>
    BY <2>2, Untouched
  <2>3. CASE fails' = FU!More(fails) /\ UNCHANGED gpt
    BY <2>3, NoLoss DEF TablesCounted
  <2>4. CASE gpt' = [gpt EXCEPT ![d][gptsel] = 0] /\ fails' = FU!More(fails)
    <3>1. gpt' \in [Devices -> [FU!Copies -> Nat]]
      BY <2>4 DEF TablesCounted
    <3>2. CASE gptsel \in FU!Copies
      BY <2>4, <3>1, <3>2, OneLoss DEF TablesCounted
    <3>3. CASE gptsel \notin FU!Copies
      <4>1. \A e \in Devices, c \in FU!Copies : gpt'[e][c] = gpt[e][c]
        BY <2>4, <3>3 DEF TablesCounted
      <4> QED  BY <2>4, <3>1, <4>1, NoLoss
    <3> QED  BY <3>2, <3>3
  <2> QED  BY <2>1, <2>2, <2>3, <2>4
<1>14. CASE FU!Reset
  BY <1>14, Untouched, LookupKeeps DEF FU!Reset
<1>15. CASE UNCHANGED FU!vars
  BY <1>15, Untouched DEF FU!vars
<1> QED
  BY <1>1, <1>2, <1>3, <1>4, <1>5, <1>6, <1>7, <1>8, <1>9, <1>10, <1>11, <1>12, <1>13, <1>14, <1>15
  DEF FU!Next

(***************************************************************************)
(* Both partition tables of a flash are only lost after two failures, for  *)
(* every set of boards, tables and flash types and any number of commands  *)
(* (prepare_mmc_flash, prepare_nor_gpt, gpt_update_params, get_gpt_entry). *)
(***************************************************************************)
THEOREM TablesSurviveHolds == FU!Spec => []TablesSurvive
<1>1. FU!Init => TablesCounted
  BY CountInit, FlashIs
<1>2. TablesCounted /\ [FU!Next]_FU!vars => TablesCounted'
  BY CountStep, FlashIs
<1>3. TablesCounted => TablesSurvive
  BY DEF TablesCounted, TablesSurvive
<1> QED  BY <1>1, <1>2, <1>3, PTL DEF FU!Spec

\* A step writes a partition of the NAND flash only with UBI away from it.
LEMMA DetachedStep ==
  ASSUME FU!Next, ~FU!Displaced, NEW n \in FU!Roots, content'["nand"][n] # content["nand"][n]
  PROVE  attached' # n
<1> USE DEF FU!flash
<1>1. FU!WriteToFlash \/ FU!FlErase
  BY DEF FU!Next, FU!Command, FU!XtractNFlash, FU!Flupdate, FU!MibibReload, FU!MibibRefused, FU!FindInSmem, FU!FindWithoutSmem,
         FU!FindSpiElsewhere, FU!FindNandVolume, FU!FindNorTable, FU!FindNorGpt, FU!FindMmc, FU!TooLarge,
         FU!WriteUbiVol, FU!FlRead, FU!NoUpdate, FU!GptUpdateParams, FU!NoDevice, FU!XtractAgain, FU!Return, FU!Reset
<1>2. attached' = FU!Detach(cmd.name)
  BY <1>1 DEF FU!WriteToFlash, FU!FlErase
<1>3. \/ UNCHANGED content
      \/ \E what : content' = [content EXCEPT ![cmd.dev][cmd.name] = what]
  BY <1>1 DEF FU!WriteToFlash, FU!FlErase, FU!PutThere, FU!Put
<1>4. PICK what : content' = [content EXCEPT ![cmd.dev][cmd.name] = what]
  BY <1>3
<1>5. cmd.name = n
  BY <1>4
<1> QED  BY <1>2, <1>5 DEF FU!Detach, FU!Roots

(***************************************************************************)
(* No command writes a partition of the NAND flash by itself while UBI is  *)
(* attached to it, on any board and after any commands; but for a place    *)
(* counted in blocks of the wrong size (do_flash, ubi_vol_present,         *)
(* do_mibib_reload).                                                       *)
(***************************************************************************)
THEOREM RawNotAttachedHolds == FU!Spec => RawNotAttached
<1>1. [FU!Next]_FU!vars => [~FU!Displaced => \A n \in FU!Roots : content'["nand"][n] # content["nand"][n] => attached' # n]_FU!vars
  BY DetachedStep DEF FU!vars, FU!flash
<1> QED  BY <1>1, PTL DEF FU!Spec, RawNotAttached, FU!RawNotAttached

(***************************************************************************)
(* Success.                                                                *)
(***************************************************************************)

\* The entries kept are those of the table that names are looked up in.
Kept == pte # 0 /\ ~torn => gpt["nor"]["GPT"] = pte

\* What was found is where the name says, and a primary table of the NOR flash
\* is only written when no entries are kept.
Found ==
  fpc \in {"act", "update"} =>
    /\ cmd.name \in FU!Parts => ~cmd.ubi /\ (~torn => FU!Home(cmd.type, cmd.name) = cmd.dev)
    /\ cmd.name = "ubi_rootfs" => cmd.ubi /\ attached \in FU!Roots
    /\ cmd.name = "0:NORGPT" => pte = 0
    /\ cmd.name \in {"0:GPT", "0:GPTBACKUP"} => cmd.dev = "mmc"

\* What a command has written when only the table is left to be corrected.
Stored ==
  fpc = "update" /\ cmd.op = "flash" =>
    /\ cmd.name \in FU!Parts /\ ~FU!Displaced => content[cmd.dev][cmd.name] = "new"
    /\ cmd.name = "ubi_rootfs" => vols[attached] = [main |-> "new", data |-> TRUE]

FlashInv == FU!TypeOK /\ Kept /\ Found /\ Stored /\ FU!FlashHonest

\* The types of what look-ups change.
TablesTyped ==
  /\ gpt \in [Devices -> [FU!Copies -> Versions \cup {0}]]
  /\ fits \in [Devices -> [FU!Copies -> BOOLEAN]]
  /\ pte \in Versions \cup {0} /\ torn \in BOOLEAN /\ fails \in 0 .. 2

(* Looking up entries changes neither the table in force nor what is kept  *)
(* to be of another one.                                                   *)
LEMMA LookupTrue ==
  ASSUME TablesTyped, Kept, NEW k \in {0, pte}, FU!GetGptEntry(k)
  PROVE  TablesTyped' /\ Kept' /\ FU!Table("nor")' = FU!Table("nor")
<1> DEFINE from == IF FU!Valid("nor", "GPT") THEN "GPT" ELSE "GPTBACKUP"
<1>0. 0 \notin Versions /\ Versions \subseteq Nat
  BY FlashSets
<1>1. CASE pte' = k /\ UNCHANGED <<gpt, fits, fails, torn>>
  BY <1>1 DEF TablesTyped, Kept, FU!Table, FU!Valid
<1>2. CASE pte' = 0 /\ fails' = FU!More(fails) /\ UNCHANGED <<gpt, fits, torn>>
  BY <1>2 DEF TablesTyped, Kept, FU!Table, FU!Valid, FU!More
<1>3. CASE /\ FU!Table("nor") # 0
           /\ gpt' = IF \A c \in FU!Copies : FU!Valid("nor", c) THEN gpt
                     ELSE [gpt EXCEPT !["nor"] = [c \in FU!Copies |-> @[from]]]
           /\ fits' = IF \A c \in FU!Copies : FU!Valid("nor", c) THEN fits
                      ELSE [fits EXCEPT !["nor"] = [c \in FU!Copies |-> @[from]]]
           /\ pte' = IF \A c \in FU!Copies : fits'["nor"][c] THEN gpt'["nor"]["GPTBACKUP"] ELSE 0
           /\ torn' = (gpt'["nor"]["GPT"] # gpt'["nor"]["GPTBACKUP"])
           /\ UNCHANGED fails
  <2>1. FU!Valid("nor", from) /\ from \in FU!Copies
    BY <1>3 DEF FU!Table
  <2>2. gpt' \in [Devices -> [FU!Copies -> Versions \cup {0}]]
    BY <1>3, <2>1 DEF TablesTyped
  <2>3. fits' \in [Devices -> [FU!Copies -> BOOLEAN]]
    BY <1>3, <2>1 DEF TablesTyped
  <2>4. TablesTyped'
    BY <1>3, <2>2, <2>3 DEF TablesTyped
  <2>5. ASSUME pte' # 0, ~torn' PROVE gpt'["nor"]["GPT"] = pte'
    <3>1. gpt'["nor"]["GPT"] = gpt'["nor"]["GPTBACKUP"]
      BY <1>3, <2>5, Zenon
    <3>2. pte' = gpt'["nor"]["GPTBACKUP"]
      BY <1>3, <2>5
    <3> QED  BY <3>1, <3>2
  <2>6. FU!Table("nor")' = FU!Table("nor")
    BY <1>3, <2>1 DEF FU!Table, FU!Valid, TablesTyped
  <2> QED  BY <2>4, <2>5, <2>6 DEF Kept
<1> QED  BY <1>1, <1>2, <1>3 DEF FU!GetGptEntry

LEMMA FlashStart == FU!Init => FlashInv
<1> SUFFICES ASSUME FU!Init PROVE FlashInv
  OBVIOUS
<1>1. board \in Boards /\ board.boot \in FU!Types
  BY FlashSets DEF FU!Init
<1>2. sfiType \in FU!Types /\ geom = TRUE /\ ptable \in Versions \cup {0} /\ pte \in Versions \cup {0}
      /\ gFlash = "default" /\ gptsel = "none" /\ attached = "none" /\ torn = FALSE /\ fails = 0 /\ typed = 0
  BY <1>1, FlashSets DEF FU!Init
<1>3. known \subseteq FU!Roots
  BY DEF FU!Init
<1>4. TablesTyped
  <2>1. gpt = [d \in Devices |-> [c \in FU!Copies |-> 1]] /\ 1 \in Versions \cup {0}
    BY FlashSets DEF FU!Init
  <2>2. fits \in [Devices -> [FU!Copies -> BOOLEAN]]
    BY DEF FU!Init
  <2>3. gpt \in [Devices -> [FU!Copies -> Versions \cup {0}]]
    BY ONLY <2>1 DEF Devices, FU!Copies
  <2>4. pte \in Versions \cup {0}
    BY <1>2
  <2>5. torn \in BOOLEAN
    BY DEF FU!Init
  <2>6. fails \in 0 .. 2
    BY DEF FU!Init
  <2> QED  BY <2>2, <2>3, <2>4, <2>5, <2>6 DEF TablesTyped
<1>5. content \in [FU!Flashes -> [FU!Parts -> {"old", "new", "bad"}]]
  BY DEF FU!Init
<1>6. vols \in [FU!Roots -> FU!Volumes]
  BY DEF FU!Init, FU!Volumes
<1>7. cmd \in [op : {"none", "flash", "flerase", "flread"}, name : FU!Names, type : FU!Types,
               dev : FU!Flashes, ubi : BOOLEAN, uclass : {"nor", "mmc", "junk"}]
  BY NameSets DEF FU!Init, FU!NoCmd
<1>8. fpc = "idle" /\ res = "ok" /\ xt \in [on : BOOLEAN, alt : BOOLEAN, redo : BOOLEAN, given : FU!Types \cup {"default"}]
  BY DEF FU!Init, FU!NoXt
<1>9. FU!TypeOK
  BY <1>1, <1>2, <1>3, <1>4, <1>5, <1>6, <1>7, <1>8, FlashSets DEF FU!TypeOK, TablesTyped
<1>10. Kept
  BY DEF FU!Init, Kept
<1> QED  BY <1>8, <1>9, <1>10 DEF FlashInv, Found, Stored, FU!FlashHonest

\* What FU!TypeOK says of a command.
Commands == [op : {"none", "flash", "flerase", "flread"}, name : FU!Names, type : FU!Types,
             dev : FU!Flashes, ubi : BOOLEAN, uclass : {"nor", "mmc", "junk"}]

(* The steps that look a name up.                                          *)
LEMMA BeginTyped ==
  ASSUME FU!TypeOK, NEW op \in {"flash", "flerase", "flread"}, NEW n \in FU!Names,
         NEW t \in FU!Types \cup {"default"}, FU!Begin(op, n, t)
  PROVE  cmd' \in Commands /\ fpc' = "find"
<1>1. FU!TypeOf(t) \in FU!Types
  BY DEF FU!TypeOf, FU!TypeOK, FU!Types
<1>2. FU!NoCmd \in Commands
  BY NameSets DEF FU!NoCmd, Commands
<1> QED  BY <1>1, <1>2 DEF FU!Begin, Commands

LEMMA GoTyped ==
  ASSUME cmd \in Commands, NEW d \in FU!Flashes, NEW ubi \in BOOLEAN, NEW u \in {"nor", "mmc", "junk"},
         FU!Go(d, ubi, u)
  PROVE  /\ cmd' \in Commands /\ fpc' = "act" /\ UNCHANGED res
         /\ cmd'.name = cmd.name /\ cmd'.type = cmd.type /\ cmd'.op = cmd.op
         /\ cmd'.dev = d /\ cmd'.ubi = ubi
BY DEF FU!Go, Commands

\* A volume is only taken for found by its name, and with UBI attached.
LEMMA VolumeFound ==
  ASSUME FU!TypeOK, NEW n, FU!UbiVolPresent(n)
  PROVE  /\ known' \subseteq FU!Roots /\ attached' \in FU!Roots \cup {"none"}
         /\ attached' # "none" => n = "ubi_rootfs"
<1>1. board.active \in FU!Roots
  BY FlashSets DEF FU!TypeOK
<1>2. FU!UbiParts \subseteq FU!Roots \cup {"none"}
  BY <1>1 DEF FU!UbiParts, FU!TypeOK
<1>3. known' \subseteq FU!Roots
  BY DEF FU!UbiVolPresent, FU!Details
<1> QED  BY <1>2, <1>3 DEF FU!UbiVolPresent

LEMMA ElsewhereFound ==
  ASSUME FU!TypeOK, fpc = "find", FU!Elsewhere
  PROVE  /\ known' \subseteq FU!Roots /\ attached' \in FU!Roots \cup {"none"}
         /\ cmd' \in Commands /\ cmd'.name = cmd.name /\ cmd'.op = cmd.op /\ res' \in {"ok", "fail"}
         /\ \/ fpc' = "find"
            \/ fpc' = "done" /\ res' = "fail"
            \/ fpc' = "act" /\ cmd'.ubi /\ attached' \in FU!Roots /\ cmd.name = "ubi_rootfs"
<1>1. /\ known' \subseteq FU!Roots /\ attached' \in FU!Roots \cup {"none"}
      /\ attached' # "none" => cmd.name = "ubi_rootfs"
  BY VolumeFound DEF FU!Elsewhere
<1>2. cmd \in Commands /\ res \in {"ok", "fail"}
  BY DEF FU!TypeOK, Commands
<1>3. CASE "rootfs" \notin known'
  BY <1>1, <1>2, <1>3, NameSets DEF FU!Elsewhere, Commands
<1>4. CASE ~("rootfs" \notin known') /\ attached' # "none"
  <2> DEFINE u == IF cmd.type = "norgpt" THEN "nor" ELSE "junk"
  <2>1. FU!Go("nand", TRUE, u)
    BY <1>4 DEF FU!Elsewhere
  <2> QED  BY <1>1, <1>2, <1>4, <2>1, GoTyped, NameSets
<1>5. CASE ~("rootfs" \notin known') /\ attached' = "none"
  BY <1>1, <1>2, <1>5 DEF FU!Elsewhere, FU!Fail
<1> QED  BY <1>3, <1>4, <1>5

\* The entries are looked up, or not.
Looked(k) == FU!GetGptEntry(k) \/ UNCHANGED <<pte, gpt, fits, fails, torn>>

LEMMA LookedTrue ==
  ASSUME TablesTyped, Kept, NEW k \in {0, pte}, Looked(k)
  PROVE  TablesTyped' /\ Kept' /\ FU!Table("nor")' = FU!Table("nor")
<1>1. CASE UNCHANGED <<pte, gpt, fits, fails, torn>>
  BY <1>1 DEF TablesTyped, Kept, FU!Table, FU!Valid
<1> QED  BY <1>1, LookupTrue DEF Looked

LEMMA TypedTables == FU!TypeOK => TablesTyped
BY DEF FU!TypeOK, TablesTyped

(* What a look-up leaves.                                                  *)
LEMMA FindStep ==
  ASSUME FlashInv,
         FU!FindInSmem \/ FU!FindWithoutSmem \/ FU!FindSpiElsewhere \/ FU!FindNandVolume
           \/ FU!FindNorTable \/ FU!FindNorGpt \/ FU!FindMmc
  PROVE  /\ TablesTyped' /\ Kept'
         /\ gptsel' \in FU!Copies \cup {"none"}
         /\ known' \subseteq FU!Roots /\ attached' \in FU!Roots \cup {"none"}
         /\ cmd' \in Commands /\ res' \in {"ok", "fail"}
         /\ UNCHANGED <<board, sfiType, geom, ptable, gFlash, content, vols, xt, typed>>
         /\ \/ fpc' = "find"
            \/ fpc' = "done" /\ res' = "fail"
            \/ fpc' = "act" /\ Found'
<1>0. TablesTyped /\ Kept /\ cmd \in Commands /\ res \in {"ok", "fail"} /\ FU!TypeOK
  BY TypedTables DEF FlashInv, FU!TypeOK, Commands
<1>1. CASE FU!FindInSmem
  <2> DEFINE d == IF cmd.type = "nor" THEN Place[ptable][cmd.name] ELSE "nand"
  <2>1. fpc = "find" /\ cmd.type \in {"nor", "nand"} /\ FU!InSmem /\ FU!Go(d, FALSE, "junk")
        /\ UNCHANGED <<board, sfiType, geom, ptable, gFlash, gptsel, pte, known, attached, gpt, fits, content, vols,
                       xt, torn, fails, typed>>
    BY <1>1 DEF FU!FindInSmem, FU!sel, FU!sfi, FU!cache, FU!flash, FU!hist
  <2>2. ptable \in Versions /\ cmd.name \in FU!Parts /\ d \in {"nor", "nand"}
    BY <1>0, <2>1, FlashSets DEF FU!InSmem, FU!TypeOK
  <2>3. /\ cmd' \in Commands /\ fpc' = "act" /\ UNCHANGED res
        /\ cmd'.name = cmd.name /\ cmd'.type = cmd.type /\ cmd'.dev = d /\ cmd'.ubi = FALSE
    BY <1>0, <2>1, <2>2, GoTyped, NameSets
  <2>4. FU!Home(cmd.type, cmd.name) = d
    BY <2>1, <2>2 DEF FU!Home, FU!InSmem
  <2>5. FU!Home(cmd.type, cmd.name)' = d
    BY <2>1, <2>3, <2>4 DEF FU!Home, FU!Table, FU!Valid
  <2>6. Found'
    BY <2>2, <2>3, <2>5, NameSets DEF Found
  <2>7. TablesTyped' /\ Kept'
    BY <1>0, <2>1 DEF TablesTyped, Kept
  <2> QED  BY <1>0, <2>1, <2>3, <2>6, <2>7 DEF FU!TypeOK
<1>2. CASE FU!FindWithoutSmem
  BY <1>0, <1>2 DEF FU!FindWithoutSmem, FU!Fail, FU!sel, FU!sfi, FU!cache, FU!flash, FU!hist, FU!TypeOK, TablesTyped, Kept
<1>3. CASE FU!FindSpiElsewhere
  <2>1. fpc = "find" /\ Looked(pte) /\ FU!Elsewhere
        /\ UNCHANGED <<board, sfiType, geom, ptable, gFlash, gptsel, content, vols, xt, typed>>
    BY <1>3 DEF FU!FindSpiElsewhere, FU!sel, FU!sfi, Looked
  <2>2. TablesTyped' /\ Kept'
    BY <1>0, <2>1, LookedTrue
  <2>3. fpc' = "act" => Found'
    BY <1>0, <2>1, ElsewhereFound, NameSets DEF Found
  <2> QED  BY <1>0, <2>1, <2>2, <2>3, ElsewhereFound DEF FU!TypeOK
<1>4. CASE FU!FindNandVolume
  <2>1. fpc = "find" /\ Looked(pte) /\ FU!UbiVolPresent(cmd.name)
        /\ UNCHANGED <<board, sfiType, geom, ptable, gFlash, gptsel, content, vols, xt, typed>>
    BY <1>4 DEF FU!FindNandVolume, FU!sel, FU!sfi, Looked
  <2>2. TablesTyped' /\ Kept'
    BY <1>0, <2>1, LookedTrue
  <2>3. known' \subseteq FU!Roots /\ attached' \in FU!Roots \cup {"none"}
        /\ (attached' # "none" => cmd.name = "ubi_rootfs")
    BY <1>0, <2>1, VolumeFound
  <2>4. CASE attached' = "none"
    <3>1. fpc' = "done" /\ res' = "fail" /\ cmd' = cmd
      BY <1>4, <2>4 DEF FU!FindNandVolume, FU!Fail
    <3> QED  BY <1>0, <2>1, <2>2, <2>3, <3>1 DEF FU!TypeOK
  <2>5. CASE attached' # "none"
    <3>1. FU!Go("nand", TRUE, "junk")
      BY <1>4, <2>5 DEF FU!FindNandVolume
    <3>2. cmd' \in Commands /\ fpc' = "act" /\ UNCHANGED res /\ cmd'.name = cmd.name /\ cmd'.ubi
      BY <1>0, <3>1, GoTyped, NameSets
    <3>3. Found'
      BY <2>3, <2>5, <3>2, NameSets DEF Found
    <3> QED  BY <1>0, <2>1, <2>2, <2>3, <3>2, <3>3 DEF FU!TypeOK
  <2> QED  BY <2>4, <2>5
<1>5. CASE FU!FindNorTable
  <2>1. cmd.name \in {"0:NORGPT", "0:NORGPTBACKUP"} /\ FU!Go("nor", FALSE, "nor")
        /\ gptsel' \in FU!Copies /\ pte' = (IF cmd.name = "0:NORGPT" THEN 0 ELSE pte)
        /\ UNCHANGED <<board, sfiType, geom, ptable, gFlash, known, attached, gpt, fits, content, vols, xt,
                       torn, fails, typed>>
    BY <1>5 DEF FU!FindNorTable, FU!sfi, FU!flash, FU!hist
  <2>2. cmd' \in Commands /\ fpc' = "act" /\ UNCHANGED res /\ cmd'.name = cmd.name
    BY <1>0, <2>1, GoTyped, NameSets
  <2>3. TablesTyped' /\ Kept'
    BY <1>0, <2>1 DEF TablesTyped, Kept
  <2>4. Found'
    BY <2>1, <2>2, NameSets DEF Found
  <2> QED  BY <1>0, <2>1, <2>2, <2>3, <2>4 DEF FU!TypeOK
<1>6. CASE FU!FindNorGpt
  <2> DEFINE there == FU!Table("nor") # 0 /\ cmd.name \in FU!Parts /\ Place[FU!Table("nor")][cmd.name] # "none"
             d == IF Place[pte'][cmd.name] = "nand" THEN "nand" ELSE "nor"
  <2>1. fpc = "find" /\ cmd.type = "norgpt" /\ cmd.name \notin {"0:NORGPT", "0:NORGPTBACKUP"} /\ Looked(pte)
        /\ UNCHANGED <<board, sfiType, geom, ptable, gFlash, gptsel, content, vols, xt, typed>>
    BY <1>6 DEF FU!FindNorGpt, FU!sel, FU!sfi, Looked
  <2>2. TablesTyped' /\ Kept' /\ FU!Table("nor")' = FU!Table("nor")
    BY <1>0, <2>1, LookedTrue
  <2>3. CASE there /\ pte' # 0
    <3>1. FU!Go(d, FALSE, "nor") /\ UNCHANGED <<attached, known>>
      BY <1>6, <2>3 DEF FU!FindNorGpt
    <3>2. /\ cmd' \in Commands /\ fpc' = "act" /\ UNCHANGED res
          /\ cmd'.name = cmd.name /\ cmd'.type = cmd.type /\ cmd'.dev = d /\ cmd'.ubi = FALSE
      BY <1>0, <3>1, GoTyped, NameSets
    <3>3. ASSUME ~torn' PROVE FU!Home(cmd.type, cmd.name)' = d
      <4>1. gpt'["nor"]["GPT"] = pte' /\ pte' \in Versions
        BY <2>2, <2>3, <3>3 DEF Kept, TablesTyped
      <4>2. FU!Table("nor")' = pte'
        BY <2>3, <4>1 DEF FU!Table, FU!Valid
      <4>3. Place[pte'][cmd.name] \in {"nor", "nand"}
        BY <2>2, <2>3, <4>1, <4>2, FlashSets
      <4>4. FU!Home(cmd.type, cmd.name)' = Place[pte'][cmd.name]
        BY <2>1, <2>3, <3>2, <4>2 DEF FU!Home
      <4> QED  BY <4>3, <4>4
    <3>4. Found'
      BY <2>3, <3>2, <3>3, NameSets DEF Found
    <3> QED  BY <1>0, <2>1, <2>2, <3>1, <3>2, <3>4 DEF FU!TypeOK
  <2>4. CASE ~(there /\ pte' # 0)
    <3>1. FU!Elsewhere
      BY <1>6, <2>4 DEF FU!FindNorGpt
    <3>2. fpc' = "act" => Found'
      BY <1>0, <2>1, <3>1, ElsewhereFound, NameSets DEF Found
    <3> QED  BY <1>0, <2>1, <2>2, <3>1, <3>2, ElsewhereFound DEF FU!TypeOK
  <2> QED  BY <2>3, <2>4
<1>7. CASE FU!FindMmc
  <2>1. fpc = "find" /\ cmd.type = "mmc"
        /\ UNCHANGED <<board, sfiType, geom, ptable, gFlash, pte, known, attached, gpt, fits, content, vols, xt,
                       torn, fails, typed>>
    BY <1>7 DEF FU!FindMmc, FU!sfi, FU!cache, FU!flash, FU!hist
  <2>2. TablesTyped' /\ Kept'
    BY <1>0, <2>1 DEF TablesTyped, Kept
  <2>3. CASE FU!Fail /\ UNCHANGED <<cmd, gptsel>>
    BY <1>0, <2>1, <2>2, <2>3 DEF FU!Fail, FU!TypeOK
  <2>4. ASSUME FU!Go("mmc", FALSE, "mmc"), gptsel' \in FU!Copies \cup {"none"},
               \/ cmd.name \in {"0:GPT", "0:GPTBACKUP"}
               \/ cmd.name \in FU!Parts /\ FU!Home("mmc", cmd.name) # "none"
        PROVE  /\ cmd' \in Commands /\ UNCHANGED res
               /\ fpc' = "act" /\ Found'
    <3>1. /\ cmd' \in Commands /\ fpc' = "act" /\ UNCHANGED res
          /\ cmd'.name = cmd.name /\ cmd'.type = cmd.type /\ cmd'.dev = "mmc" /\ cmd'.ubi = FALSE
      BY <1>0, <2>4, GoTyped, NameSets
    <3>2. FU!Home("mmc", cmd.name) \in {"mmc", "none"}
      BY DEF FU!Home
    <3>3. FU!Home(cmd.type, cmd.name)' = FU!Home("mmc", cmd.name)
      BY <2>1, <3>1 DEF FU!Home, FU!Table, FU!Valid
    <3>4. cmd.name \in FU!Parts => FU!Home(cmd.type, cmd.name)' = "mmc"
      BY <2>4, <3>2, <3>3, NameSets
    <3> QED  BY <2>4, <3>1, <3>4, NameSets DEF Found
  <2>5. CASE cmd.name \in {"0:GPT", "0:GPTBACKUP"} /\ board.mmc
    <3>1. FU!Go("mmc", FALSE, "mmc") /\ gptsel' \in FU!Copies
      BY <1>7, <2>5 DEF FU!FindMmc
    <3> QED  BY <1>0, <2>1, <2>2, <2>4, <2>5, <3>1, NameSets DEF FU!TypeOK
  <2>6. CASE cmd.name \notin {"0:GPT", "0:GPTBACKUP"} /\ cmd.name \in FU!Parts /\ FU!Home("mmc", cmd.name) # "none" /\ board.mmc
    <3>1. FU!Go("mmc", FALSE, "mmc") /\ UNCHANGED gptsel
      BY <1>7, <2>6 DEF FU!FindMmc
    <3> QED  BY <1>0, <2>1, <2>2, <2>4, <2>6, <3>1 DEF FU!TypeOK
  <2> QED  BY <1>7, <2>3, <2>5, <2>6 DEF FU!FindMmc
<1> QED  BY <1>1, <1>2, <1>3, <1>4, <1>5, <1>6, <1>7

\* Nothing is claimed of a command that has failed or not yet found anything.
LEMMA NoClaim ==
  ASSUME fpc' \in {"idle", "find"} \/ (fpc' = "done" /\ res' = "fail")
  PROVE  Found' /\ Stored' /\ FU!FlashHonest'
BY DEF Found, Stored, FU!FlashHonest

LEMMA PutTyped ==
  ASSUME FU!TypeOK, NEW n \in FU!Names, NEW d \in FU!Flashes, NEW what \in {"new", "bad"},
         n # "ubi_rootfs", FU!Put(d, n, what)
  PROVE  /\ gpt' \in [Devices -> [FU!Copies -> Versions \cup {0}]]
         /\ fits' \in [Devices -> [FU!Copies -> BOOLEAN]]
         /\ content' \in [FU!Flashes -> [FU!Parts -> {"old", "new", "bad"}]]
         /\ vols' \in [FU!Roots -> FU!Volumes]
         /\ n \in FU!Parts => UNCHANGED <<gpt, fits>> /\ content'[d][n] = what
         /\ n \notin {"0:NORGPT", "0:GPT"} \/ (d = "mmc" /\ n = "0:GPT") =>
              gpt'["nor"]["GPT"] = gpt["nor"]["GPT"]
<1>0. /\ gpt \in [Devices -> [FU!Copies -> Versions \cup {0}]]
      /\ fits \in [Devices -> [FU!Copies -> BOOLEAN]]
      /\ content \in [FU!Flashes -> [FU!Parts -> {"old", "new", "bad"}]]
      /\ vols \in [FU!Roots -> FU!Volumes]
  BY DEF FU!TypeOK
<1>1. CASE n \in FU!Tables
  <2> DEFINE c == IF n \in {"0:NORGPT", "0:GPT"} THEN "GPT" ELSE "GPTBACKUP"
  <2>1. PICK x \in Versions \cup {0} : gpt' = [gpt EXCEPT ![d][c] = x]
    BY <1>1 DEF FU!Put
  <2>2. fits' = [fits EXCEPT ![d][c] = FALSE] /\ UNCHANGED <<content, vols>>
    BY <1>1 DEF FU!Put
  <2>3. c \in FU!Copies
    OBVIOUS
  <2>4. gpt' \in [Devices -> [FU!Copies -> Versions \cup {0}]]
    BY <1>0, <2>1, <2>3
  <2>5. fits' \in [Devices -> [FU!Copies -> BOOLEAN]]
    BY <1>0, <2>2, <2>3
  <2>6. n \notin FU!Parts
    BY <1>1, NameSets
  <2>7. n \notin {"0:NORGPT", "0:GPT"} \/ (d = "mmc" /\ n = "0:GPT") => gpt'["nor"]["GPT"] = gpt["nor"]["GPT"]
    BY <1>0, <2>1
  <2> QED  BY <1>0, <2>2, <2>4, <2>5, <2>6, <2>7
<1>2. CASE n \notin FU!Tables
  <2>1. n \in FU!Parts
    BY <1>2, NameSets
  <2>2. content' = [content EXCEPT ![d][n] = what] /\ UNCHANGED <<gpt, fits>>
    BY <1>2 DEF FU!Put
  <2>3. vols' = vols \/ (n \in FU!Roots /\ \E v \in FU!Volumes : vols' = [vols EXCEPT ![n] = v])
    BY <1>2 DEF FU!Put, FU!Volumes
  <2>4. content' \in [FU!Flashes -> [FU!Parts -> {"old", "new", "bad"}]] /\ content'[d][n] = what
    BY <1>0, <2>1, <2>2
  <2>5. vols' \in [FU!Roots -> FU!Volumes]
    BY <1>0, <2>3
  <2> QED  BY <1>0, <2>2, <2>4, <2>5
<1> QED  BY <1>1, <1>2

\* Nor does the block size a command uses change under it.
LEMMA PlaceStays ==
  ASSUME UNCHANGED <<geom, ptable, cmd>>
  PROVE  FU!Displaced' = FU!Displaced
BY DEF FU!Displaced, FU!InSmem

\* A write to the flash, whole or not.
LEMMA WriteStep ==
  ASSUME FlashInv, FU!WriteToFlash
  PROVE  FlashInv'
<1>0. FU!TypeOK /\ Kept /\ Found /\ cmd.name \in FU!Names /\ cmd.dev \in FU!Flashes /\ TablesTyped
  BY TypedTables DEF FlashInv, FU!TypeOK
<1>1. /\ fpc = "act" /\ ~cmd.ubi /\ attached' = FU!Detach(cmd.name)
      /\ UNCHANGED <<board, sfiType, geom, ptable, gFlash, gptsel, pte, known, cmd, xt, torn, typed>>
  BY DEF FU!WriteToFlash, FU!sel, FU!sfi, FU!cache
<1>2. attached' \in FU!Roots \cup {"none"} /\ cmd.name # "ubi_rootfs"
  BY <1>0, <1>1 DEF FU!Detach, FU!TypeOK, Found
<1>3. fails' \in {fails, FU!More(fails)} /\ fails' \in 0 .. 2
  BY <1>0 DEF FU!WriteToFlash, FU!More, TablesTyped
<1>4. ASSUME NEW what \in {"new", "bad"}, NEW n \in FU!Parts \cup {cmd.name}, FU!Put(cmd.dev, n, what)
      PROVE  /\ gpt' \in [Devices -> [FU!Copies -> Versions \cup {0}]]
             /\ fits' \in [Devices -> [FU!Copies -> BOOLEAN]]
             /\ content' \in [FU!Flashes -> [FU!Parts -> {"old", "new", "bad"}]]
             /\ vols' \in [FU!Roots -> FU!Volumes]
             /\ n \in FU!Parts => UNCHANGED <<gpt, fits>> /\ content'[cmd.dev][n] = what
             /\ Kept'
  <2>0. n \in FU!Names /\ n # "ubi_rootfs"
    BY <1>0, <1>2, NameSets
  <2>1. cmd.name = "0:NORGPT" => pte = 0
    BY <1>0, <1>1 DEF Found
  <2>2. cmd.name = "0:GPT" => cmd.dev = "mmc"
    BY <1>0, <1>1 DEF Found
  <2>3. n # "0:NORGPT" => gpt'["nor"]["GPT"] = gpt["nor"]["GPT"]
    BY <1>0, <1>4, <2>0, <2>2, PutTyped, NameSets
  <2>4. Kept'
    BY <1>0, <1>1, <2>1, <2>3, NameSets DEF Kept
  <2> QED  BY <1>0, <1>4, <2>0, <2>4, PutTyped
<1>5. ASSUME gpt' \in [Devices -> [FU!Copies -> Versions \cup {0}]],
             fits' \in [Devices -> [FU!Copies -> BOOLEAN]],
             content' \in [FU!Flashes -> [FU!Parts -> {"old", "new", "bad"}]],
             vols' \in [FU!Roots -> FU!Volumes],
             fpc' \in {"update", "done"}, res' \in {"ok", "fail"}
      PROVE  FU!TypeOK'
  BY <1>0, <1>1, <1>2, <1>3, <1>5 DEF FU!TypeOK
<1>6. CASE FU!PutThere("new") /\ fpc' = "update" /\ UNCHANGED <<res, fails>>
  <2>0. PICK n \in FU!Parts \cup {cmd.name}, what \in {"new", "bad"} :
          FU!Put(cmd.dev, n, what) /\ (~FU!Displaced => n = cmd.name /\ what = "new")
    BY <1>6 DEF FU!PutThere
  <2>1. FU!TypeOK' /\ Kept'
    BY <1>0, <1>4, <1>5, <1>6, <2>0 DEF FU!TypeOK
  <2>2. cmd.name \in FU!Parts =>
          /\ UNCHANGED <<gpt, fits>>
          /\ ~FU!Displaced => content'[cmd.dev][cmd.name] = "new"
    BY <1>4, <2>0
  <2>3. cmd.name \in FU!Parts => FU!Home(cmd.type, cmd.name)' = FU!Home(cmd.type, cmd.name)
    BY <1>1, <2>2 DEF FU!Home, FU!Table, FU!Valid
  <2>4. Found'
    BY <1>0, <1>1, <1>2, <2>3 DEF Found
  <2>5. Stored'
    BY <1>1, <1>2, <2>2, PlaceStays DEF Stored
  <2> QED  BY <1>6, <2>1, <2>4, <2>5 DEF FlashInv, FU!FlashHonest
<1>7. CASE FU!PutThere("bad") /\ FU!Fail
  <2>0. PICK n \in FU!Parts \cup {cmd.name} : FU!Put(cmd.dev, n, "bad")
    BY <1>7 DEF FU!PutThere
  <2>1. FU!TypeOK' /\ Kept'
    BY <1>4, <1>5, <1>7, <2>0 DEF FU!Fail
  <2> QED  BY <1>7, <2>1, NoClaim DEF FU!Fail, FlashInv
<1>8. CASE FU!Fail /\ UNCHANGED FU!flash
  <2>1. UNCHANGED <<gpt, fits, content, vols>>
    BY <1>8 DEF FU!flash
  <2>2. FU!TypeOK'
    BY <1>0, <1>5, <1>8, <2>1 DEF FU!Fail, FU!TypeOK
  <2>3. Kept'
    BY <1>0, <1>1, <2>1 DEF Kept
  <2> QED  BY <1>8, <2>2, <2>3, NoClaim DEF FU!Fail, FlashInv
<1> QED  BY <1>6, <1>7, <1>8 DEF FU!WriteToFlash

\* What a step without any part in a write leaves as it is.
LEMMA HomeStays ==
  ASSUME UNCHANGED <<ptable, gpt, fits>>, NEW t, NEW n
  PROVE  FU!Home(t, n)' = FU!Home(t, n)
BY DEF FU!Home, FU!Table, FU!Valid

(* What the user types, and the second run of an image taken out.          *)
LEMMA TypedStep ==
  ASSUME FlashInv,
         \/ \E n \in FU!Names \ {"absent"}, t \in Given :
              FU!Command(n, t) \/ \E alt \in BOOLEAN : FU!XtractNFlash(n, t, alt)
         \/ \E t \in Given : FU!Flupdate(t)
         \/ \E v \in Versions, t \in {"nor", "nand"} : FU!MibibReload(v, t)
         \/ FU!MibibRefused \/ FU!XtractAgain \/ FU!Return
  PROVE  FlashInv'
<1>0. FU!TypeOK /\ Kept /\ cmd \in Commands /\ cmd.name \in FU!Names /\ cmd.type \in FU!Types
  BY DEF FlashInv, FU!TypeOK, Commands
<1>1. ASSUME NEW n \in FU!Names, NEW t \in Given, FU!Command(n, t)
      PROVE  FlashInv'
  <2>1. PICK op \in {"flash", "flerase", "flread"} : FU!Begin(op, n, t)
    BY <1>1 DEF FU!Command
  <2>2. /\ UNCHANGED <<board, sfiType, geom, ptable, gFlash, gptsel, pte, known, attached, gpt, fits, content, vols,
                       res, torn, fails>>
        /\ typed' = typed + 1 /\ typed < MaxCommands /\ xt' = FU!NoXt
    BY <1>1 DEF FU!Command, FU!sel, FU!sfi, FU!cache, FU!flash
  <2>3. cmd' \in Commands /\ fpc' = "find"
    BY <1>0, <2>1, FlashSets, BeginTyped
  <2>4. typed' \in 0 .. MaxCommands
    BY <1>0, <2>2, FlashSets DEF FU!TypeOK
  <2>5. FU!TypeOK'
    BY <1>0, <2>2, <2>3, <2>4 DEF FU!TypeOK, Commands, FU!NoXt
  <2>6. Kept'
    BY <1>0, <2>2 DEF Kept
  <2> QED  BY <2>3, <2>5, <2>6, NoClaim DEF FlashInv
<1>2. ASSUME NEW n \in FU!Names, NEW t \in Given, NEW alt \in BOOLEAN, FU!XtractNFlash(n, t, alt)
      PROVE  FlashInv'
  <2>2. /\ UNCHANGED <<board, sfiType, geom, ptable, gFlash, gptsel, pte, known, attached, gpt, fits, content, vols,
                       torn, fails>>
        /\ typed' = typed + 1 /\ typed < MaxCommands
        /\ xt' = [on |-> TRUE, alt |-> alt /\ n \notin FU!Tables, redo |-> FALSE, given |-> t]
    BY <1>2 DEF FU!XtractNFlash, FU!sel, FU!sfi, FU!cache, FU!flash
  <2>3. /\ cmd' \in Commands /\ res' \in {"ok", "fail"}
        /\ fpc' = "find" \/ (fpc' = "done" /\ res' = "fail")
    <3>1. CASE FU!Begin("flash", n, t) /\ UNCHANGED res
      BY <1>0, <3>1, FlashSets, BeginTyped DEF FU!TypeOK
    <3>2. CASE cmd' = [FU!NoCmd EXCEPT !.name = n, !.type = FU!TypeOf(t)] /\ fpc' = "done" /\ res' = "fail"
      <4>1. FU!TypeOf(t) \in FU!Types
        BY <1>0, FlashSets DEF FU!TypeOf, FU!TypeOK, FU!Types
      <4>2. cmd' \in Commands
        BY <3>2, <4>1, NameSets DEF FU!NoCmd, Commands
      <4> QED  BY <3>2, <4>2
    <3> QED  BY <1>2, <3>1, <3>2 DEF FU!XtractNFlash
  <2>4. typed' \in 0 .. MaxCommands
    BY <1>0, <2>2, FlashSets DEF FU!TypeOK
  <2>5. xt' \in [on : BOOLEAN, alt : BOOLEAN, redo : BOOLEAN, given : FU!Types \cup {"default"}]
    <3>1. (alt /\ n \notin FU!Tables) \in BOOLEAN /\ t \in FU!Types \cup {"default"}
      BY FlashSets
    <3> QED  BY <2>2, <3>1
  <2>6. FU!TypeOK'
    BY <1>0, <2>2, <2>3, <2>4, <2>5 DEF FU!TypeOK, Commands
  <2>7. Kept'
    BY <1>0, <2>2 DEF Kept
  <2> QED  BY <2>3, <2>6, <2>7, NoClaim DEF FlashInv
<1>3. ASSUME NEW t \in Given, FU!Flupdate(t)
      PROVE  FlashInv'
  <2>1. /\ fpc = "idle" /\ gFlash' = t /\ typed' = typed + 1 /\ typed < MaxCommands
        /\ UNCHANGED <<board, sfiType, geom, ptable, gptsel, pte, known, attached, gpt, fits, content, vols, cmd, fpc,
                       res, xt, torn, fails>>
    BY <1>3 DEF FU!Flupdate, FU!sfi, FU!cache, FU!flash
  <2>2. typed' \in 0 .. MaxCommands /\ gFlash' \in FU!Types \cup {"default"}
    BY <1>0, <2>1, FlashSets DEF FU!TypeOK
  <2>3. FU!TypeOK'
    BY <1>0, <2>1, <2>2 DEF FU!TypeOK
  <2>4. Kept'
    BY <1>0, <2>1 DEF Kept
  <2> QED  BY <2>1, <2>3, <2>4, NoClaim DEF FlashInv
<1>4. ASSUME NEW v \in Versions, NEW t \in {"nor", "nand"}, FU!MibibReload(v, t)
      PROVE  FlashInv'
  <2>1. /\ fpc = "idle" /\ ptable' = (IF ptable = 0 THEN 0 ELSE v) /\ sfiType' = t /\ attached' = "none"
        /\ known' \subseteq FU!Roots /\ typed' = typed + 1 /\ typed < MaxCommands /\ geom' \in BOOLEAN
        /\ UNCHANGED <<board, gFlash, gptsel, pte, gpt, fits, content, vols, cmd, fpc, res, xt, torn, fails>>
    BY <1>4 DEF FU!MibibReload, FU!sel, FU!sfi, FU!flash
  <2>2. typed' \in 0 .. MaxCommands
    BY <1>0, <2>1, FlashSets DEF FU!TypeOK
  <2>3. FU!TypeOK'
    BY <1>0, <2>1, <2>2, NameSets DEF FU!TypeOK
  <2>4. Kept'
    BY <1>0, <2>1 DEF Kept
  <2> QED  BY <2>1, <2>3, <2>4, NoClaim DEF FlashInv
<1>7. CASE FU!MibibRefused
  <2>1. /\ fpc = "idle" /\ geom' \in BOOLEAN /\ typed' = typed + 1 /\ typed < MaxCommands
        /\ UNCHANGED <<board, sfiType, ptable, gFlash, gptsel, pte, known, attached, gpt, fits, content, vols,
                       cmd, fpc, res, xt, torn, fails>>
    BY <1>7 DEF FU!MibibRefused, FU!sel, FU!cache, FU!flash
  <2>2. typed' \in 0 .. MaxCommands
    BY <1>0, <2>1, FlashSets DEF FU!TypeOK
  <2>3. FU!TypeOK'
    BY <1>0, <2>1, <2>2 DEF FU!TypeOK
  <2>4. Kept'
    BY <1>0, <2>1 DEF Kept
  <2> QED  BY <2>1, <2>3, <2>4, NoClaim DEF FlashInv
<1>5. CASE FU!XtractAgain
  <2> DEFINE alt == FU!AltName(cmd.name)
  <2>1. /\ UNCHANGED <<board, sfiType, geom, ptable, gFlash, gptsel, pte, known, attached, gpt, fits, content, vols,
                       torn, fails, typed>>
        /\ xt' = [xt EXCEPT !.redo = TRUE]
    BY <1>5 DEF FU!XtractAgain, FU!sel, FU!sfi, FU!cache, FU!flash, FU!hist
  <2>2. alt \in FU!Names
    BY NameSets DEF FU!AltName
  <2>3. /\ cmd' \in Commands /\ res' \in {"ok", "fail"}
        /\ fpc' = "find" \/ (fpc' = "done" /\ res' = "fail")
    <3>1. CASE FU!Begin("flash", alt, xt.given) /\ UNCHANGED res
      BY <1>0, <2>2, <3>1, BeginTyped DEF FU!TypeOK
    <3>2. CASE cmd' = [FU!NoCmd EXCEPT !.name = alt] /\ fpc' = "done" /\ res' = "fail"
      BY <2>2, <3>2, NameSets DEF FU!NoCmd, Commands
    <3> QED  BY <1>5, <3>1, <3>2 DEF FU!XtractAgain
  <2>4. FU!TypeOK'
    BY <1>0, <2>1, <2>3 DEF FU!TypeOK, Commands
  <2>5. Kept'
    BY <1>0, <2>1 DEF Kept
  <2> QED  BY <2>3, <2>4, <2>5, NoClaim DEF FlashInv
<1>6. CASE FU!Return
  <2>1. /\ fpc' = "idle" /\ cmd' = FU!NoCmd /\ xt' = FU!NoXt /\ res' = "ok"
        /\ UNCHANGED <<board, sfiType, geom, ptable, gFlash, gptsel, pte, known, attached, gpt, fits, content, vols,
                       torn, fails, typed>>
    BY <1>6 DEF FU!Return, FU!sel, FU!sfi, FU!cache, FU!flash, FU!hist
  <2>2. FU!TypeOK'
    BY <1>0, <2>1, NameSets DEF FU!TypeOK, FU!NoCmd, FU!NoXt
  <2>3. Kept'
    BY <1>0, <2>1 DEF Kept
  <2> QED  BY <2>1, <2>2, <2>3, NoClaim DEF FlashInv
<1> QED  BY <1>1, <1>2, <1>3, <1>4, <1>5, <1>6, <1>7

(* What else is done with what was found.                                  *)
LEMMA ActStep ==
  ASSUME FlashInv, FU!TooLarge \/ FU!WriteUbiVol \/ FU!FlErase \/ FU!FlRead
  PROVE  FlashInv'
<1>0. FU!TypeOK /\ Kept /\ Found /\ TablesTyped /\ cmd.name \in FU!Names /\ cmd.dev \in FU!Flashes
  BY TypedTables DEF FlashInv, FU!TypeOK
<1>1. /\ fpc = "act"
      /\ UNCHANGED <<board, sfiType, geom, ptable, gFlash, gptsel, pte, known, cmd, xt, torn, typed>>
  BY DEF FU!TooLarge, FU!WriteUbiVol, FU!FlErase, FU!FlRead, FU!sel, FU!sfi, FU!cache, FU!hist
<1>2. FU!Detach(cmd.name) \in FU!Roots \cup {"none"}
      /\ (cmd.name = "ubi_rootfs" => FU!Detach(cmd.name) = attached)
  BY <1>0, NameSets DEF FU!Detach, FU!TypeOK
<1>3. CASE FU!TooLarge
  <2>1. fpc' = "done" /\ res' = "fail" /\ UNCHANGED <<attached, gpt, fits, content, vols, fails>>
    BY <1>3 DEF FU!TooLarge, FU!Fail, FU!flash, FU!hist
  <2>2. FU!TypeOK' /\ Kept'
    BY <1>0, <1>1, <2>1 DEF FU!TypeOK, Kept
  <2> QED  BY <2>1, <2>2, NoClaim DEF FlashInv
<1>4. CASE FU!WriteUbiVol
  <2>1. PICK k \in 0 .. 5 :
          /\ vols' = [vols EXCEPT ![attached] = FU!Chain(@, k)]
          /\ IF k = 5 THEN fpc' = "update" /\ UNCHANGED <<res, fails>>
             ELSE FU!Fail /\ fails' \in {fails, FU!More(fails)}
    BY <1>4 DEF FU!WriteUbiVol
  <2>2. cmd.ubi /\ UNCHANGED <<attached, gpt, fits, content>>
    BY <1>4 DEF FU!WriteUbiVol
  <2>3. vols \in [FU!Roots -> FU!Volumes]
    BY <1>0 DEF FU!TypeOK
  <2>4. ASSUME NEW v \in FU!Volumes PROVE FU!Chain(v, k) \in FU!Volumes
    <3>1. v.main \in {"old", "new", "bad", "none"} /\ v.data \in BOOLEAN
      BY DEF FU!Volumes
    <3>2. (IF k = 0 THEN v.data ELSE k = 5) \in BOOLEAN
      BY <3>1
    <3>3. (IF k < 2 THEN v.main ELSE IF k = 2 THEN "none" ELSE IF k = 3 THEN "bad" ELSE "new")
             \in {"old", "new", "bad", "none"}
      BY <3>1
    <3> QED  BY <3>2, <3>3 DEF FU!Chain, FU!Volumes
  <2>5. vols' \in [FU!Roots -> FU!Volumes]
    BY <2>1, <2>3, <2>4
  <2>6. fails' \in 0 .. 2 /\ fpc' \in {"update", "done"} /\ res' \in {"ok", "fail"}
    BY <1>0, <2>1 DEF FU!Fail, FU!More, FU!TypeOK
  <2>7. FU!TypeOK' /\ Kept'
    BY <1>0, <1>1, <2>2, <2>5, <2>6 DEF FU!TypeOK, Kept
  <2>8. CASE k = 5
    <3>1. fpc' = "update"
      BY <2>1, <2>8
    <3>2. Found'
      BY <1>0, <1>1, <2>2, HomeStays DEF Found
    <3>3. cmd.name \notin FU!Parts
      BY <1>0, <1>1, <2>2 DEF Found
    <3>4. ASSUME cmd.name = "ubi_rootfs" PROVE vols'[attached] = [main |-> "new", data |-> TRUE]
      <4>1. attached \in FU!Roots
        BY <1>0, <1>1, <3>4 DEF Found
      <4>2. vols'[attached] = FU!Chain(vols[attached], 5)
        BY <2>1, <2>3, <2>8, <4>1
      <4>3. FU!Chain(vols[attached], 5) = [main |-> "new", data |-> 5 = 5]
        BY DEF FU!Chain
      <4>4. (5 = 5) = TRUE
        BY Zenon
      <4> QED  BY <4>2, <4>3, <4>4
    <3>5. Stored'
      BY <1>1, <2>2, <3>3, <3>4 DEF Stored
    <3> QED  BY <2>7, <3>1, <3>2, <3>5 DEF FlashInv, FU!FlashHonest
  <2>9. CASE k # 5
    BY <2>1, <2>7, <2>9, NoClaim DEF FU!Fail, FlashInv
  <2> QED  BY <2>8, <2>9
<1>5. CASE FU!FlErase
  <2>1. cmd.op = "flerase" /\ attached' = FU!Detach(cmd.name)
        /\ \/ fpc' = "update" /\ UNCHANGED <<res, fails>>
           \/ FU!Fail /\ fails' \in {fails, FU!More(fails)}
    BY <1>5 DEF FU!FlErase
  <2>2. UNCHANGED <<gpt, fits, content, vols>>
        \/ (FU!PutThere("bad") /\ ~cmd.ubi /\ cmd.name \notin FU!Tables)
    BY <1>5 DEF FU!FlErase, FU!flash
  <2>3. /\ UNCHANGED <<gpt, fits>>
        /\ content' \in [FU!Flashes -> [FU!Parts -> {"old", "new", "bad"}]]
        /\ vols' \in [FU!Roots -> FU!Volumes]
    <3>1. CASE UNCHANGED <<gpt, fits, content, vols>>
      BY <1>0, <3>1 DEF FU!TypeOK
    <3>2. CASE FU!PutThere("bad") /\ ~cmd.ubi /\ cmd.name \notin FU!Tables
      <4>1. cmd.name # "ubi_rootfs"
        BY <1>0, <1>1, <3>2 DEF Found
      <4>2. cmd.name \in FU!Parts
        BY <1>0, <3>2, <4>1, NameSets
      <4>3. PICK n \in FU!Parts : FU!Put(cmd.dev, n, "bad")
        BY <3>2, <4>2 DEF FU!PutThere
      <4>4. n \in FU!Names /\ n # "ubi_rootfs"
        BY NameSets
      <4> QED  BY <1>0, <4>3, <4>4, PutTyped
    <3> QED  BY <2>2, <3>1, <3>2
  <2>4. fails' \in 0 .. 2 /\ fpc' \in {"update", "done"} /\ res' \in {"ok", "fail"}
    BY <1>0, <2>1 DEF FU!Fail, FU!More, FU!TypeOK
  <2>5. FU!TypeOK' /\ Kept'
    BY <1>0, <1>1, <1>2, <2>1, <2>3, <2>4 DEF FU!TypeOK, Kept
  <2>6. CASE fpc' = "update"
    <3>1. Found'
      BY <1>0, <1>1, <1>2, <2>1, <2>3, HomeStays DEF Found
    <3> QED  BY <1>1, <2>1, <2>5, <2>6, <3>1 DEF FlashInv, Stored, FU!FlashHonest
  <2>7. CASE FU!Fail
    BY <2>5, <2>7, NoClaim DEF FU!Fail, FlashInv
  <2> QED  BY <2>1, <2>6, <2>7
<1>6. CASE FU!FlRead
  <2>1. /\ cmd.op = "flread" /\ attached' = FU!Detach(cmd.name) /\ fpc' \in {"update", "done"}
        /\ res' = (IF fpc' = "done" THEN "fail" ELSE res) /\ UNCHANGED <<gpt, fits, content, vols, fails>>
    BY <1>6 DEF FU!FlRead, FU!flash, FU!hist
  <2>2. FU!TypeOK' /\ Kept'
    BY <1>0, <1>1, <1>2, <2>1 DEF FU!TypeOK, Kept
  <2>3. CASE fpc' = "update"
    <3>1. Found'
      BY <1>0, <1>1, <1>2, <2>1, HomeStays DEF Found
    <3> QED  BY <1>1, <2>1, <2>2, <2>3, <3>1 DEF FlashInv, Stored, FU!FlashHonest
  <2>4. CASE fpc' = "done"
    BY <2>1, <2>2, <2>4, NoClaim DEF FlashInv
  <2> QED  BY <2>1, <2>3, <2>4
<1> QED  BY <1>3, <1>4, <1>5, <1>6

(* The end of a command: with or without a table to correct.               *)
LEMMA UpdateStep ==
  ASSUME FlashInv, FU!NoUpdate \/ FU!GptUpdateParams \/ FU!NoDevice
  PROVE  FlashInv'
<1>0. FU!TypeOK /\ Kept /\ Found /\ Stored /\ TablesTyped /\ cmd.name \in FU!Names
  BY TypedTables DEF FlashInv, FU!TypeOK
<1>1. /\ fpc = "update" /\ fpc' = "done"
      /\ UNCHANGED <<board, sfiType, geom, ptable, gFlash, pte, known, attached, content, vols, cmd, xt, typed>>
  BY DEF FU!NoUpdate, FU!GptUpdateParams, FU!NoDevice, FU!Fail, FU!sel, FU!sfi, FU!cache, FU!flash, FU!hist
<1>2. CASE FU!NoUpdate
  <2>1. res' = "ok" /\ UNCHANGED <<gptsel, gpt, fits, torn, fails>>
    BY <1>2 DEF FU!NoUpdate, FU!sel, FU!sfi, FU!flash, FU!hist
  <2>2. FU!TypeOK' /\ Kept'
    BY <1>0, <1>1, <2>1 DEF FU!TypeOK, Kept
  <2>3. FU!FlashHonest'
    BY <1>0, <1>1, <2>1, HomeStays, PlaceStays DEF FU!FlashHonest, Found, Stored
  <2> QED  BY <1>1, <2>2, <2>3 DEF FlashInv, Found, Stored
<1>3. CASE FU!NoDevice
  <2>1. res' = "fail" /\ UNCHANGED <<gptsel, gpt, fits, torn, fails>>
    BY <1>3 DEF FU!NoDevice, FU!Fail, FU!sel, FU!sfi, FU!flash, FU!hist
  <2>2. FU!TypeOK' /\ Kept'
    BY <1>0, <1>1, <2>1 DEF FU!TypeOK, Kept
  <2> QED  BY <1>1, <2>1, <2>2, NoClaim DEF FlashInv
<1>4. CASE FU!GptUpdateParams
  <2>1. gptsel \in FU!Copies /\ gptsel' = "none" /\ res' = "ok"
    BY <1>0, <1>4 DEF FU!GptUpdateParams, FU!TypeOK
  <2>2. PICK d \in Devices :
          \/ fits' = [fits EXCEPT ![d][gptsel] = TRUE] /\ UNCHANGED <<gpt, torn, fails>>
          \/ fails' = FU!More(fails) /\ UNCHANGED <<gpt, fits, torn>>
          \/ /\ gpt' = [gpt EXCEPT ![d][gptsel] = 0]
             /\ fails' = FU!More(fails) /\ torn' = TRUE /\ UNCHANGED fits
    <3>1. FU!Device \ {"none"} \subseteq Devices
      BY <1>0 DEF FU!Device, FU!TypeOK
    <3> QED  BY <1>4, <3>1 DEF FU!GptUpdateParams
  <2>3. /\ gpt' \in [Devices -> [FU!Copies -> Versions \cup {0}]]
        /\ fits' \in [Devices -> [FU!Copies -> BOOLEAN]]
        /\ torn' \in BOOLEAN /\ fails' \in 0 .. 2
    <3>1. /\ gpt \in [Devices -> [FU!Copies -> Versions \cup {0}]]
          /\ fits \in [Devices -> [FU!Copies -> BOOLEAN]]
          /\ torn \in BOOLEAN /\ fails \in 0 .. 2
      BY <1>0 DEF TablesTyped
    <3>2. FU!More(fails) \in 0 .. 2
      BY <3>1 DEF FU!More
    <3>3. gpt' = gpt \/ gpt' = [gpt EXCEPT ![d][gptsel] = 0]
      BY <2>2
    <3>4. gpt' \in [Devices -> [FU!Copies -> Versions \cup {0}]]
      BY <2>1, <3>1, <3>3
    <3>5. fits' = fits \/ fits' = [fits EXCEPT ![d][gptsel] = TRUE]
      BY <2>2
    <3>6. fits' \in [Devices -> [FU!Copies -> BOOLEAN]]
      <4>1. CASE fits' = fits
        BY <3>1, <4>1
      <4>2. CASE fits' = [fits EXCEPT ![d][gptsel] = TRUE]
        BY <2>1, <3>1, <4>2
      <4> QED  BY <3>5, <4>1, <4>2
    <3>7. torn' = torn \/ torn' = TRUE
      BY <2>2
    <3>8. torn' \in BOOLEAN
      BY <3>1, <3>7
    <3>9. fails' \in 0 .. 2
      BY <2>2, <3>1, <3>2
    <3> QED  BY <3>4, <3>6, <3>8, <3>9
  <2>4. FU!TypeOK'
    BY <1>0, <1>1, <2>1, <2>3 DEF FU!TypeOK
  <2>5. Kept'
    BY <1>0, <1>1, <2>2 DEF Kept
  <2>6. ASSUME ~torn'
        PROVE  /\ ~torn /\ UNCHANGED gpt
               /\ \A e \in Devices, c \in FU!Copies : fits[e][c] => fits'[e][c]
    BY <1>0, <2>1, <2>2, <2>6 DEF TablesTyped
  <2>7. ASSUME ~torn', cmd.name \in FU!Parts
        PROVE  FU!Home(cmd.type, cmd.name)' = cmd.dev
    <3>1. FU!Home(cmd.type, cmd.name) = cmd.dev /\ cmd.dev # "none" /\ cmd.type \in FU!Types
      BY <1>0, <1>1, <2>6, <2>7, NameSets DEF Found, FU!TypeOK
    <3>2. ASSUME NEW e \in Devices, FU!Table(e) # 0 PROVE FU!Table(e)' = FU!Table(e)
      BY <2>6, <2>7, <3>2 DEF FU!Table, FU!Valid
    <3>3. CASE cmd.type \in {"nor", "nand"}
      BY <1>1, <3>1, <3>3 DEF FU!Home
    <3>4. CASE cmd.type = "mmc"
      BY <1>1, <3>1, <3>2, <3>4 DEF FU!Home
    <3>5. CASE cmd.type = "norgpt"
      BY <1>1, <3>1, <3>2, <3>5 DEF FU!Home
    <3> QED  BY <3>1, <3>3, <3>4, <3>5, NameSets
  <2>8. FU!FlashHonest'
    BY <1>0, <1>1, <2>7, PlaceStays DEF FU!FlashHonest, Stored
  <2> QED  BY <1>1, <2>4, <2>5, <2>8 DEF FlashInv, Found, Stored
<1> QED  BY <1>2, <1>3, <1>4

(* Power loss, a reset: the entries are looked up again.                   *)
LEMMA ResetStep ==
  ASSUME FlashInv, FU!Reset
  PROVE  FlashInv'
<1>0. FU!TypeOK /\ Kept /\ TablesTyped /\ board \in Boards /\ board.boot \in FU!Types
  BY TypedTables, FlashSets DEF FlashInv, FU!TypeOK
<1>1. /\ sfiType' = board.boot /\ geom' = TRUE /\ gFlash' = "default" /\ gptsel' = "none" /\ attached' = "none"
      /\ known' = FU!Details(board.boot) /\ cmd' = FU!NoCmd /\ fpc' = "idle" /\ res' = "ok" /\ xt' = FU!NoXt
      /\ ptable' = (IF board.boot \in {"nor", "nand"} THEN 1 ELSE 0)
      /\ UNCHANGED <<board, content, vols, typed>>
  BY DEF FU!Reset
<1>2. TablesTyped' /\ Kept'
  <2>1. CASE board.boot = "norgpt"
    <3>1. FU!GetGptEntry(0)
      BY <2>1 DEF FU!Reset
    <3> QED  BY <1>0, <3>1, LookupTrue
  <2>2. CASE board.boot # "norgpt"
    <3>1. pte' = 0 /\ UNCHANGED <<gpt, fits, fails, torn>>
      BY <2>2 DEF FU!Reset
    <3> QED  BY <1>0, <3>1 DEF TablesTyped, Kept
  <2> QED  BY <2>1, <2>2
<1>3. known' \subseteq FU!Roots
  BY <1>1 DEF FU!Details
<1>4. ptable' \in Versions \cup {0}
  BY <1>1, FlashSets
<1>5. FU!TypeOK'
  BY <1>0, <1>1, <1>2, <1>3, <1>4, NameSets DEF FU!TypeOK, TablesTyped, FU!NoCmd, FU!NoXt
<1> QED  BY <1>1, <1>2, <1>5, NoClaim DEF FlashInv

LEMMA FlashStep == FlashInv /\ [FU!Next]_FU!vars => FlashInv'
<1> SUFFICES ASSUME FlashInv, [FU!Next]_FU!vars PROVE FlashInv'
  OBVIOUS
<1>1. CASE \/ FU!FindInSmem \/ FU!FindWithoutSmem \/ FU!FindSpiElsewhere \/ FU!FindNandVolume
           \/ FU!FindNorTable \/ FU!FindNorGpt \/ FU!FindMmc
  <2>1. /\ TablesTyped' /\ Kept'
        /\ gptsel' \in FU!Copies \cup {"none"}
        /\ known' \subseteq FU!Roots /\ attached' \in FU!Roots \cup {"none"}
        /\ cmd' \in Commands /\ res' \in {"ok", "fail"}
        /\ UNCHANGED <<board, sfiType, geom, ptable, gFlash, content, vols, xt, typed>>
        /\ \/ fpc' = "find"
           \/ fpc' = "done" /\ res' = "fail"
           \/ fpc' = "act" /\ Found'
    BY <1>1, FindStep
  <2>2. FU!TypeOK
    BY DEF FlashInv
  <2>3. FU!TypeOK'
    BY <2>1, <2>2 DEF FU!TypeOK, TablesTyped, Commands
  <2>4. CASE fpc' = "find" \/ (fpc' = "done" /\ res' = "fail")
    BY <2>1, <2>3, <2>4, NoClaim DEF FlashInv
  <2>5. CASE fpc' = "act" /\ Found'
    BY <2>1, <2>3, <2>5 DEF FlashInv, Stored, FU!FlashHonest
  <2> QED  BY <2>1, <2>4, <2>5
<1>2. CASE UNCHANGED FU!vars
  <2>1. UNCHANGED <<board, sfiType, geom, ptable, gFlash, gptsel, pte, known, attached, gpt, fits, content, vols,
                    cmd, fpc, res, xt, torn, fails, typed>>
    BY <1>2 DEF FU!vars, FU!sel, FU!sfi, FU!cache, FU!flash, FU!hist
  <2>2. FU!Home(cmd.type, cmd.name)' = FU!Home(cmd.type, cmd.name) /\ FU!Displaced' = FU!Displaced
    BY <2>1, PlaceStays DEF FU!Home, FU!Table, FU!Valid
  <2>3. FU!TypeOK' /\ Kept' /\ Stored'
    BY <2>1, <2>2 DEF FlashInv, FU!TypeOK, Kept, Stored
  <2>4. Found' /\ FU!FlashHonest'
    BY <2>1, <2>2 DEF FlashInv, Found, FU!FlashHonest
  <2> QED  BY <2>3, <2>4 DEF FlashInv
<1> QED  BY <1>1, <1>2, TypedStep, WriteStep, ActStep, UpdateStep, ResetStep DEF FU!Next

(***************************************************************************)
(* A flash command that reports success wrote its image to the partition   *)
(* of its name, in the flash the table in force places it in, or to the    *)
(* volume of its name, after any commands and failures of the flash, on    *)
(* any board and with any tables; but for entries kept of another table    *)
(* than the one names are found in, and for places in the NOR flash while  *)
(* the block size a mibib_reload took, of a table it may have refused, is  *)
(* not that of the flash (do_flash, get_gpt_entry, ubi_vol_present,        *)
(* do_mibib_reload, gpt_update_params).                                    *)
(***************************************************************************)
THEOREM FlashIsHonest == FU!Spec => []FlashHonest
<1>1. FlashInv => FlashHonest
  BY DEF FlashInv, FlashHonest
<1> QED  BY <1>1, FlashStart, FlashStep, PTL DEF FU!Spec

(***************************************************************************)
(* The block device, the flash commands and the SPI master, each on its    *)
(* own as the run has them: the first two keep the types of what they      *)
(* hold, and what the theorems of all three say holds there too            *)
(* (blk_nor_write, do_flash, do_spi_xfer).                                 *)
(***************************************************************************)
THEOREM NorSideBySide ==
  MCSpec => [](/\ MCTypeOK /\ FlashHonest /\ TablesSurvive /\ XferTruth
               /\ WritesExactly /\ OneBlockAtRisk /\ StrayLosesNothing)
<1> DEFINE All == IInv /\ FlashInv /\ TablesCounted /\ XferInv
<1>1. MCInit => All
  BY InitIInv, FlashStart, CountInit, XferStart, FlashIs DEF MCInit
<1>2. All /\ [MCNext]_<<task, vars, fuVars, spiVars>> => All'
  <2> SUFFICES ASSUME All, [MCNext]_<<task, vars, fuVars, spiVars>> PROVE All'
    OBVIOUS
  <2>1. [Next]_vars /\ [FU!Next]_FU!vars /\ [Spi!Next]_Spi!vars
    <3>1. fuVars' = fuVars => FU!vars' = FU!vars
      BY DEF fuVars, FU!vars, FU!sel, FU!sfi, FU!cache, FU!flash, FU!hist
    <3>2. spiVars' = spiVars => Spi!vars' = Spi!vars
      BY DEF spiVars, Spi!vars, Spi!busVars, Spi!xferVars, Spi!pollVars, Spi!engineVars,
             Spi!dataVars
    <3> QED  BY <3>1, <3>2 DEF MCNext
  <2> QED  BY <2>1, IInvStep, FlashStep, CountStep, XferStep, FlashIs
<1>3. All => /\ MCTypeOK /\ FlashHonest /\ TablesSurvive /\ XferTruth
             /\ WritesExactly /\ OneBlockAtRisk /\ StrayLosesNothing
  BY IInvImplies DEF IInv, FlashInv, TablesCounted, XferInv, MCTypeOK, FlashHonest, TablesSurvive,
                     XferTruth
<1> QED  BY <1>1, <1>2, <1>3, PTL DEF MCSpec
=============================================================================
