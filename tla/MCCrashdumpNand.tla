-------------------------- MODULE MCCrashdumpNand ---------------------------
(* Two units to a page, two pages to a block and five blocks, any of them  *)
(* bad: entries of one unit leave pages half full, one of three completes   *)
(* a page and keeps a remainder, one of four leaves a block half written,   *)
(* one of seven is written in two goes, the second longer than a block.     *)
(* Or: the dump command on boards with one bank of memory of one and two    *)
(* files or less, or three, and with two banks, the first of two files or of  *)
(* one, for every set of variables.                                        *)
EXTENDS CrashdumpNand, CrashDump

VARIABLE task

MCSizes == {1, 3, 4, 7}

OneBank(n) == [banks |-> 1, ram |-> n, bank0 |-> 8, base1 |-> 100]
MCBoards == {OneBank(n) : n \in {4, 6, 8}} \cup {[OneBank(12) EXCEPT !.bank0 = 12]}
            \cup {[OneBank(n) EXCEPT !.banks = 2] : n \in {8, 11, 13}}
            \cup {[OneBank(7) EXCEPT !.banks = 2, !.bank0 = 4]}
Tlv(type, whose, size) == [t |-> type, who |-> whose, n |-> size]
MCLists ==
  { << Tlv("uname", "host", 1), Tlv("dmesg", "host", 2), Tlv("mod", "live", 1),
       Tlv("mod", "host", 1), Tlv("mod", "nss", 1), Tlv("info", "host", 1) >>,
    << Tlv("mod", "host", 1), Tlv("pt", "host", 1), Tlv("mod", "nss", 2) >> }

MCInit ==
  /\ Init /\ DumpInit
  /\ \/ /\ task = "flash"
        /\ board = OneBank(4) /\ Len(tlvs) = 3 /\ Room = 5
     \/ /\ task = "dump"
        /\ mode = "flash" /\ bad = {}

MCNext ==
  /\ UNCHANGED task
  /\ \/ task = "flash" /\ Next /\ UNCHANGED dumpVars
     \/ task = "dump" /\ DumpNext /\ UNCHANGED vars

MCSpec == MCInit /\ [][MCNext]_<<task, vars, dumpVars>>
=============================================================================
