----------------------------- MODULE MCDualBoot -----------------------------
(* Three versions: an upgrade, a second one back into the first set, and    *)
(* every attempt at either that the power cuts short.  Or, in place of all  *)
(* that, three checks of images in one run of Linux: whole ones, some with  *)
(* a section that is not genuine, versions of one and of two digits.  Or    *)
(* two commands that put secondary cores to work.                           *)
EXTENDS DualBoot

CONSTANTS
  Images, Installed, MaxChecks, NoImage,   \* of ImageCheck
  Core, UpWait, OffWait, MaxCalls          \* of MultiCore

VARIABLES
  task,     \* "upgrade", "check" or "cores"
  board, local, checked, checks, stage, files, present, seen, tmp_kernel, metadata,
  section, recorded, verdict, masked, failed,
  at, argc, i, delay, core_status, core_on_status, off, power, stored, visible,
  outcome, stack, report, starved, calls

core_vars == <<at, argc, i, delay, core_status, core_on_status, off, power, stored,
               visible, outcome, stack, report, starved, calls>>

check_vars == <<board, local, checked, checks, stage, files, present, seen, tmp_kernel,
                metadata, section, recorded, verdict, masked, failed>>

MCParts == {{"u-boot", "hlos", "rootfs"}, {"ubi", "tz"}}
MCSoleRootfs == [parts |-> {"rootfs"}, good |-> {"rootfs"}, version |-> 10]
MCImages ==
  {[parts |-> p, good |-> p \cup {"rootfs"}, version |-> v] : p \in MCParts, v \in {9, 10}}
  \cup UNION {{[parts |-> p, good |-> (p \cup {"rootfs"}) \ {s}, version |-> 10] :
                  s \in p \cup {"rootfs"}} : p \in MCParts}
  \cup {MCSoleRootfs, [MCSoleRootfs EXCEPT !.good = {}]}

Check == INSTANCE ImageCheck
  WITH image <- checked, pc <- stage, kernel <- tmp_kernel, next <- section

Cores == INSTANCE MultiCore WITH step <- at

ASSUME CheckIs == Check!ImageCheckAssumption
ASSUME CoresAre == Cores!MultiCoreAssumption

\* Of what a board does not do one initial state is enough.
NoUpgrade == bc = [set |-> 0, status |-> 0] /\ (\A s \in Sets : image[s] = 0) /\ ~secure /\ ~nand
              /\ preset = NoInfo
NoCheck ==
  /\ board = [tz |-> FALSE, auth |-> FALSE, rootfs_auth |-> FALSE, nand |-> FALSE]
  /\ \A f \in DOMAIN local : local[f] = 0

MCInit ==
  /\ Init /\ Check!Init /\ Cores!Init
  /\ \/ task = "upgrade" /\ NoCheck
     \/ task = "check" /\ NoUpgrade
     \/ task = "cores" /\ NoUpgrade /\ NoCheck

MCNext ==
  /\ UNCHANGED task
  /\ \/ task = "upgrade" /\ Next /\ UNCHANGED <<check_vars, core_vars>>
     \/ task = "check" /\ Check!Next /\ UNCHANGED <<vars, core_vars>>
     \/ task = "cores" /\ Cores!Next /\ UNCHANGED <<vars, check_vars>>

MCSpec == MCInit /\ [][MCNext]_<<vars, check_vars, core_vars, task>>

\* Every variable of the three keeps its range.
MCTypeOK == TypeOK /\ Check!TypeOK /\ Cores!TypeOK

\* Secondary cores get their stacks back to the heap after they are off, and
\* are reported as they ended (MultiCore).
CoresReturned == Cores!CoresReturned

\* The verdict on an image is the image's (ImageCheck).
VerdictFits == Check!VerdictFits
=============================================================================
