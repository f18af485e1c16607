----------------------------- MODULE ImageCheck -----------------------------
(***************************************************************************)
(* do_board_upgrade_check of tools/sysupgrade.c: the files an upgrade has  *)
(* unpacked into /tmp are assigned to the sections of the board, each is   *)
(* authenticated, by TrustZone or with openssl, and their versions are     *)
(* compared with and recorded for the installed ones.  Every check is a    *)
(* process of its own; what it leaves in /tmp stays for the next.  The     *)
(* sections not named here are treated as u-boot and tz are.               *)
(***************************************************************************)
EXTENDS Naturals

CONSTANTS
  Images,     \* what may be unpacked: [parts, good, version]
  Installed,  \* versions the board may hold
  MaxChecks,  \* bound: checks between two restarts
  NoImage     \* no such file in /tmp

VARIABLES
  board,     \* [tz, auth, rootfs_auth, nand]: what the board requires
  local,     \* version file -> the version installed
  image,     \* the image checked
  checks,    \* how many checks were started since the restart
  pc,        \* the step of do_board_upgrade_check, "idle" between checks
  files,     \* entries of /tmp that readdir has still to return
  present,   \* sections with is_present
  seen,      \* section -> local_version
  kernel,    \* TEMP_KERNEL_PATH: the image it was extracted from
  metadata,  \* TEMP_METADATA_PATH: the image it was written for
  next,      \* place of the section the loop looks at
  recorded,  \* version file in /tmp -> the number in it, 0 without a file
  verdict,   \* what the last check returned
  masked,    \* history: in this check a failure's result was not looked at
  failed     \* history: in this check a call failed

vars == <<board, local, image, checks, pc, files, present, seen, kernel, metadata,
          next, recorded, verdict, masked, failed>>

Sections == <<"u-boot", "hlos", "rootfs", "ubi", "tz">>
Section == {Sections[i] : i \in DOMAIN Sections}

version_file(s) == IF s \in {"hlos", "rootfs", "ubi"} THEN "hlos" ELSE s
VersionFile == {version_file(s) : s \in Section}

ImageCheckAssumption ==
  /\ \A m \in Images : m.parts \subseteq Section /\ m.good \subseteq Section /\ m.version \in Nat
  /\ Installed \subseteq Nat /\ MaxChecks \in Nat
  /\ NoImage \notin Images

\* Two numbers, written one over the other without truncating the file: the
\* last digit of the longer one stays.
Digits(n) == IF n < 10 THEN 1 ELSE 2
Over(old, new) ==
  IF old # 0 /\ Digits(old) > Digits(new) THEN new * 10 + (old % 10) ELSE new

Init ==
  /\ board \in [tz : BOOLEAN, auth : BOOLEAN, rootfs_auth : BOOLEAN, nand : BOOLEAN]
  /\ local \in {[f \in VersionFile |-> v] : v \in Installed}
  /\ image = NoImage /\ checks = 0 /\ pc = "idle"
  /\ files = {} /\ present = {} /\ seen = [s \in Section |-> 0]
  /\ kernel = NoImage /\ metadata = NoImage
  /\ next = 1
  /\ recorded = [f \in VersionFile |-> 0]
  /\ verdict = "none" /\ masked = FALSE /\ failed = FALSE

Return(v) == verdict' = v /\ pc' = "idle"
Continue(step) == pc' = step /\ UNCHANGED verdict
Quiet == UNCHANGED <<masked, failed>>
Fails == failed' = TRUE /\ UNCHANGED masked /\ Return("refused")

\* The board's checks decide the way; a board without either accepts.
Check(m) ==
  /\ pc = "idle" /\ checks < MaxChecks
  /\ checks' = checks + 1
  /\ image' = m /\ files' = m.parts
  /\ present' = {} /\ seen' = [s \in Section |-> 0] /\ next' = 1
  /\ masked' = FALSE /\ failed' = FALSE
  /\ IF board.tz \/ board.auth
     THEN verdict' = "none" /\ pc' = IF board.tz /\ board.rootfs_auth THEN "rootfs" ELSE "load"
     ELSE Return("accepted")
  /\ UNCHANGED <<board, local, kernel, metadata, recorded>>

\* extract_rootfs_binary and extract_ubi_volume: the root file system of a
\* UBI image becomes a file of its own; nobody asks whether it did.
ExtractRootfs ==
  /\ pc = "rootfs"
  /\ \/ /\ files' = files \cup (IF "ubi" \in files /\ board.nand THEN {"rootfs"} ELSE {})
        /\ Quiet
     \/ UNCHANGED files /\ masked' = TRUE /\ failed' = TRUE
  /\ Continue("load")
  /\ UNCHANGED <<board, local, image, checks, present, seen, kernel, metadata, next, recorded>>

\* Without a "kernel" partition the UBI image is passed over.
PassOver ==
  /\ pc = "load" /\ ~board.nand /\ "ubi" \in files
  /\ files' = files \ {"ubi"}
  /\ UNCHANGED <<board, local, image, checks, pc, present, seen, kernel, metadata,
                 next, recorded, verdict, masked, failed>>

\* parse_elf_image_phdr: from the kernel the section has now.
MetadataOf(s) ==
  IF board.rootfs_auth /\ s = "hlos" THEN image
  ELSE IF board.rootfs_auth /\ s = "ubi" /\ kernel' # NoImage THEN kernel'
  ELSE metadata

Version(s) == IF board.tz THEN seen ELSE [seen EXCEPT ![s] = local[version_file(s)]]

\* The section takes its file and its version; pre_op extracts the kernel
\* and the metadata, or takes the digest.  Neither file is truncated (999,
\* 1576): a longer one of an earlier check keeps its tail.  Whoever reads
\* them goes by the headers at the start, so they count as the new image's.
LoadSection ==
  /\ pc = "load"
  /\ \E s \in files :
       /\ s = "ubi" => board.nand
       /\ files' = files \ {s}
       /\ present' = present \cup {s}
       /\ kernel' = IF s = "ubi" THEN image ELSE kernel
       /\ metadata' = MetadataOf(s)
       /\ seen' = Version(s)
  /\ Continue("load") /\ Quiet
  /\ UNCHANGED <<board, local, image, checks, next, recorded>>

\* extract_binary returns 1 whatever the extraction did: the section is then
\* the kernel an earlier check left, if there is one.
ExtractFails ==
  /\ pc = "load" /\ board.nand /\ "ubi" \in files
  /\ files' = files \ {"ubi"}
  /\ present' = present \cup {"ubi"}
  /\ masked' = TRUE /\ failed' = TRUE
  /\ UNCHANGED kernel
  /\ metadata' = MetadataOf("ubi")
  /\ seen' = Version("ubi")
  /\ IF ~board.tz /\ kernel = NoImage THEN Return("refused") ELSE Continue("load")
  /\ UNCHANGED <<board, local, image, checks, next, recorded>>

\* The result of create_file is not looked at.
MetadataFails ==
  /\ pc = "load" /\ board.rootfs_auth /\ "hlos" \in files
  /\ files' = files \ {"hlos"}
  /\ present' = present \cup {"hlos"}
  /\ masked' = TRUE /\ failed' = TRUE
  /\ seen' = Version("hlos")
  /\ Continue("load")
  /\ UNCHANGED <<board, local, image, checks, kernel, metadata, next, recorded>>

\* The version file cannot be read: the installed version counts as 0.
VersionUnread ==
  /\ pc = "load" /\ ~board.tz
  /\ \E s \in files \ {"ubi"} :
       /\ files' = files \ {s}
       /\ present' = present \cup {s}
       /\ UNCHANGED kernel
       /\ metadata' = MetadataOf(s)
  /\ masked' = TRUE /\ failed' = TRUE
  /\ Continue("load")
  /\ UNCHANGED <<board, local, image, checks, seen, next, recorded>>

\* The directory, the digest, the headers of the file.
LoadFails ==
  /\ pc = "load" /\ files # {}
  /\ Fails
  /\ UNCHANGED <<board, local, image, checks, files, present, seen, kernel, metadata, next, recorded>>

Loaded ==
  /\ pc = "load" /\ files = {}
  /\ Continue("authenticate") /\ Quiet
  /\ UNCHANGED <<board, local, image, checks, files, present, seen, kernel, metadata, next, recorded>>

\* What the file of a section holds; NoImage when it is not there.
Source(s) == IF s = "ubi" THEN kernel ELSE image

\* Without metadata TrustZone is not asked about the root file system.
Skipped(s) == s \notin present \/ (board.tz /\ s = "rootfs" /\ metadata = NoImage)

Genuine(s) ==
  /\ Source(s) # NoImage /\ s \in Source(s).good
  /\ board.tz /\ s = "rootfs" => metadata = image

Current == Sections[next]

PassSection ==
  /\ pc = "authenticate" /\ next \in DOMAIN Sections
  /\ Skipped(Current) \/ Genuine(Current)
  /\ next' = next + 1
  /\ Continue("authenticate") /\ Quiet
  /\ UNCHANGED <<board, local, image, checks, files, present, seen, kernel, metadata, recorded>>

RefuseSection ==
  /\ pc = "authenticate" /\ next \in DOMAIN Sections
  /\ ~Skipped(Current) /\ ~Genuine(Current)
  /\ Return("refused") /\ Quiet
  /\ UNCHANGED <<board, local, image, checks, files, present, seen, kernel, metadata, next, recorded>>

AuthenticationFails ==
  /\ pc = "authenticate" /\ next \in DOMAIN Sections /\ ~Skipped(Current)
  /\ Fails
  /\ UNCHANGED <<board, local, image, checks, files, present, seen, kernel, metadata, next, recorded>>

\* sec_image_auth removes what was extracted, and is done.
TzAccepts ==
  /\ pc = "authenticate" /\ next \notin DOMAIN Sections /\ board.tz
  /\ kernel' = NoImage /\ metadata' = NoImage
  /\ Return("accepted") /\ Quiet
  /\ UNCHANGED <<board, local, image, checks, files, present, seen, next, recorded>>

\* Mutant: the last section is not looked at.
LowerButLast(s) == s # "tz" /\ seen[s] > Source(s).version

Lower(s) == seen[s] > Source(s).version

\* is_image_version_higher; a version above the maximum is only reported.
CheckVersion ==
  /\ pc = "authenticate" /\ next \notin DOMAIN Sections /\ ~board.tz
  /\ IF \E s \in present : Lower(s) THEN Return("refused") ELSE Continue("update")
  /\ next' = 1 /\ Quiet
  /\ UNCHANGED <<board, local, image, checks, files, present, seen, kernel, metadata, recorded>>

\* set_local_image_version, one section after the other.
UpdateVersion ==
  /\ pc = "update" /\ next \in DOMAIN Sections
  /\ next' = next + 1
  /\ recorded' = IF Current \notin present THEN recorded
                 ELSE [recorded EXCEPT ![version_file(Current)] = Over(@, Source(Current).version)]
  /\ Continue("update") /\ Quiet
  /\ UNCHANGED <<board, local, image, checks, files, present, seen, kernel, metadata>>

UpdateFails ==
  /\ pc = "update" /\ next \in DOMAIN Sections /\ Current \in present
  /\ Fails
  /\ UNCHANGED <<board, local, image, checks, files, present, seen, kernel, metadata, next, recorded>>

Updated ==
  /\ pc = "update" /\ next \notin DOMAIN Sections
  /\ Return("accepted") /\ Quiet
  /\ UNCHANGED <<board, local, image, checks, files, present, seen, kernel, metadata, next, recorded>>

\* /tmp does not survive.
Restart ==
  /\ checks' = 0 /\ image' = NoImage /\ pc' = "idle" /\ files' = {} /\ present' = {}
  /\ seen' = [s \in Section |-> 0] /\ next' = 1
  /\ kernel' = NoImage /\ metadata' = NoImage /\ recorded' = [f \in VersionFile |-> 0]
  /\ verdict' = "none" /\ masked' = FALSE /\ failed' = FALSE
  /\ UNCHANGED <<board, local>>
-----------------------------------------------------------------------------
Next ==
  \/ \E m \in Images : Check(m)
  \/ ExtractRootfs \/ PassOver \/ LoadSection \/ ExtractFails \/ MetadataFails
  \/ VersionUnread \/ LoadFails \/ Loaded
  \/ PassSection \/ RefuseSection \/ AuthenticationFails \/ TzAccepts
  \/ CheckVersion \/ UpdateVersion \/ UpdateFails \/ Updated
  \/ Restart

Spec == Init /\ [][Next]_vars
-----------------------------------------------------------------------------
TypeOK ==
  /\ board \in [tz : BOOLEAN, auth : BOOLEAN, rootfs_auth : BOOLEAN, nand : BOOLEAN]
  /\ local \in [VersionFile -> Nat] /\ seen \in [Section -> Nat]
  /\ image \in Images \cup {NoImage} /\ kernel \in Images \cup {NoImage}
  /\ metadata \in Images \cup {NoImage}
  /\ checks \in 0 .. MaxChecks /\ next \in 1 .. 6
  /\ pc \in {"idle", "rootfs", "load", "authenticate", "update"}
  /\ files \subseteq Section /\ present \subseteq Section
  /\ recorded \in [VersionFile -> Nat]
  /\ verdict \in {"none", "accepted", "refused"}
  /\ masked \in BOOLEAN /\ failed \in BOOLEAN

\* What the board requires of an image: the sections it installs are genuine,
\* the root file system where it is signed, and none is older.
Required ==
  {s \in image.parts : (s = "ubi" => board.nand)
                       /\ (s = "rootfs" /\ board.tz => board.rootfs_auth)}
  \cup IF board.tz /\ board.rootfs_auth /\ board.nand /\ "ubi" \in image.parts
       THEN {"rootfs"} ELSE {}

\* The metadata of a signed root file system are those of a kernel.
KernelComes ==
  board.tz /\ board.rootfs_auth /\ "rootfs" \in image.parts =>
    "hlos" \in image.parts \/ (board.nand /\ "ubi" \in image.parts)

Fit ==
  /\ Required \subseteq image.good
  /\ ~board.tz => \A s \in Required : local[version_file(s)] <= image.version

(***************************************************************************)
(* The verdict is the image's.  Whatever the checks before it left in      *)
(* /tmp, extracted kernels, metadata or half recorded versions, a check    *)
(* accepts only an image whose sections are genuine and not older than     *)
(* what is installed, and refuses such an image only when a call failed.   *)
(* Results sysupgrade does not look at, of the extraction from a UBI image *)
(* and of the reading of a version file, are excepted, and so is a signed  *)
(* root file system that comes without a kernel, about which TrustZone is  *)
(* not asked; and a version in /tmp is no lower than what was accepted.    *)
(***************************************************************************)
VerdictFits ==
  (pc = "idle" /\ (board.tz \/ board.auth) /\ verdict # "none" /\ KernelComes) =>
    /\ verdict = "accepted" /\ ~masked =>
         /\ Fit
         /\ ~board.tz => \A s \in present : recorded[version_file(s)] >= image.version
    /\ verdict = "refused" /\ ~failed => ~Fit
=============================================================================
