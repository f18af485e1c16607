----------------------------- MODULE CrashDump ------------------------------
(***************************************************************************)
(* The crash dump command of arch/arm/mach-ipq/cmd_crashdump.c: what the   *)
(* environment asks for, the table of what is to be dumped, made of the    *)
(* board's list and of the segments the kernel registered, and the dump    *)
(* itself: to files (USB, TFTP, eMMC), compressed in the memory that is    *)
(* being dumped, or into reserved memory behind a header.  What happens    *)
(* below crashdump_flash_write for the flash targets is CrashdumpNand.     *)
(*                                                                         *)
(* Memory is counted in units of TEMP_COMPRESS_BUF_SZ; a unit holds its    *)
(* own number until it is overwritten, 0 stands for anything else.  The    *)
(* reserved memory is counted in units of a header.                        *)
(***************************************************************************)
EXTENDS Naturals, Sequences

CONSTANTS
  Limit,    \* SZ_1G, the most one file holds
  Boards,   \* [banks, ram, bank0, base1]: dram_init's banks
  Lists,    \* sequences of [t, who, n]: the TLVs the kernel left
  Reserved  \* sizes of the reserved memory of dump_to_mem

\* CFG_SYS_SDRAM_BASE leaves room below the memory.
Base == 3

\* The first of two banks is a number of files, the second at a distance.
ASSUME DumpAssumption ==
  /\ Limit \in Nat /\ Limit > 1
  /\ Boards \subseteq [banks : {1, 2}, ram : Nat \ {0, 1}, bank0 : Nat, base1 : Nat]
  /\ Lists \subseteq Seq([t : {"uname", "dmesg", "pt", "mod", "info"},
                          who : {"host", "nss", "live"}, n : Nat \ {0}])
  /\ Reserved \subseteq Nat \ {0, 1}
  /\ \A b \in Boards : b.banks = 2 =>
       b.bank0 % Limit = 0 /\ b.base1 >= Base + b.bank0 + Limit

VARIABLES
  ph,      \* how far ipq_dump_func is
  board, tlvs,
  level,   \* dump_level
  to,      \* dump_to
  comp,    \* is_compress_enabled
  seg,     \* g_mini_seg: whose modules are dumped
  todo,    \* entries of board_dumpinfo still to be put into the table
  left, lastNo,  \* total_dram_sz, last_dram_file_no
  table,   \* actual_dumps_list
  short,   \* history: no memory for an entry of the full dump, and nobody noticed
  mem,     \* the banks
  out, outSz,    \* comp_out_addr, comp_out_size
  cur,     \* the entry dump_to_dst is at: where it now is, and what was read
  over,    \* history: a part or its output went outside the memory
  dumped, files, \* the files stored, by name
  rsv,     \* the reserved memory
  curr, lst      \* dump2mem_curr_addr, memdump_list

ramVars == <<mem, out, outSz, cur, over>>
memVars == <<rsv, curr, lst>>
cfgVars == <<level, to, comp>>
tabVars == <<seg, todo, left, lastNo, table, short>>
dumpVars == <<ph, board, tlvs, cfgVars, tabVars, ramVars, dumped, files, memVars>>
-----------------------------------------------------------------------------
LowOf(x, y) == IF x < y THEN x ELSE y

Size0 == IF board.banks = 1 THEN board.ram ELSE LowOf(board.ram, board.bank0)
RamTop == Base + Size0
Memory == (Base .. RamTop - 1) \cup (board.base1 .. board.base1 + (board.ram - Size0) - 1)

None == <<"none">>
NoEntry == [at |-> 0, n |-> 0, data |-> <<>>]

\* A dump an earlier crash left in reserved memory.
OldDump(n) == [i \in 0 .. n-1 |-> IF i = 0 THEN <<"hdr", 2>>
                                  ELSE IF i = 1 THEN <<"data", <<"old">>, 1>>
                                  ELSE IF i = 2 THEN <<"list", << [name |-> <<"old">>, off |-> 1, n |-> 1] >> >>
                                  ELSE None]

DumpInit ==
  /\ ph = "crash"
  /\ board \in Boards /\ tlvs \in Lists
  /\ level = "full" /\ to = "tftp" /\ comp = FALSE
  /\ seg = "all" /\ todo = <<>> /\ left = board.ram /\ lastNo = 0
  /\ table = <<>> /\ short = FALSE
  /\ mem = [u \in Memory |-> u] /\ out = 0 /\ outSz = 0 /\ cur = NoEntry /\ over = FALSE
  /\ dumped = 0 /\ files = <<>>
  /\ \E n \in Reserved : n > 2 /\ rsv = OldDump(n)
  /\ curr = 0 /\ lst = <<>>
-----------------------------------------------------------------------------
Names == {"both", "minimal", "usb", "mem", "nvmem", "flash", "emmc", "compressed"}

\* parse_crashdump_config: a later variable wins over an earlier one.
Target(env) ==
  CASE "emmc" \in env -> "emmc"   [] "flash" \in env -> "flash"
    [] "nvmem" \in env -> "nvmem" [] "mem" \in env -> "mem"
    [] "usb" \in env -> "usb"     [] OTHER -> "tftp"

Level(env) ==
  CASE "both" \in env -> "both"
    [] env \cap {"minimal", "flash"} # {} -> "mini"
    [] OTHER -> "full"

ParseConfig(env) ==
  /\ ph = "crash"
  /\ level' = Level(env) /\ to' = Target(env) /\ comp' = ("compressed" \in env)
  /\ ph' = "parsed"
  /\ UNCHANGED <<board, tlvs, tabVars, ramVars, dumped, files, memVars>>

\* verify_crashdump_config: what can be dumped where.
Allowed ==
  /\ ~(level = "both" /\ comp)
  /\ to \in {"mem", "nvmem"} => level = "mini" /\ ~comp
  /\ to = "emmc" => level = "full" /\ comp

\* A key was hit, the variables contradict each other or name no address,
\* partition or server, or the interface does not answer.
GiveUp ==
  /\ ph \in {"parsed", "verified"}
  /\ ph' = "reset"
  /\ UNCHANGED <<board, tlvs, cfgVars, tabVars, ramVars, dumped, files, memVars>>

VerifyConfig ==
  /\ ph = "parsed" /\ Allowed
  /\ ph' = "verified"
  /\ UNCHANGED <<board, tlvs, cfgVars, tabVars, ramVars, dumped, files, memVars>>

\* Mutant: the old header stays until the new one replaces it.
KeepHeader(r) == r

ClearHeader(r) == [r EXCEPT ![0] = None]

Fulls == IF board.banks = 1 THEN << "dram", "plain", "aligned" >>
                           ELSE << "dram", "dram", "plain", "aligned" >>
Minis == << "cpu", "uname", "dmesg", "pt", "wlan" >>

\* prepare_crashdump_table: everything of the full dump, then the segments.
Wanted == CASE level = "full" -> Fulls [] level = "mini" -> Minis [] OTHER -> Fulls \o Minis

VerifyIface ==
  /\ ph = "verified"
  /\ IF to = "mem" THEN rsv' = ClearHeader(rsv) /\ curr' = 1 ELSE UNCHANGED <<rsv, curr>>
  /\ ph' = "table"
  /\ todo' = Wanted
  /\ UNCHANGED <<board, tlvs, cfgVars, seg, left, lastNo, table, short, ramVars, dumped, files, lst>>
-----------------------------------------------------------------------------
DumpEntry(name, a, n, gz) == [name |-> name, at |-> a, n |-> n, gz |-> gz]

\* add_entry_crashdump_table: DUMP_TO_FLASH takes the entries that are marked.
ToFlash == {"cpu", "uname"}
Added(kind, es) == table \o (IF to = "flash" /\ kind \notin ToFlash THEN <<>> ELSE es)

TableStep(kind) ==
  /\ ph = "table" /\ todo # <<>> /\ Head(todo) = kind
  /\ todo' = Tail(todo)
  /\ UNCHANGED <<ph, board, tlvs, cfgVars, ramVars, dumped, files, memVars>>

\* split_bin_dump: from the top down, numbered from the highest.
Parts(a, n, s, no) ==
  LET k == (n + s - 1) \div s
  IN [i \in 1 .. k |-> LET from == IF n > i*s THEN a + n - i*s ELSE a
                       IN DumpEntry(<<"dram", no + k - i>>, from, a + n - (i-1)*s - from, comp)]

Split(n) == IF comp /\ n <= Limit /\ n = board.ram THEN n \div 2 ELSE Limit

\* The banks take what is left of the memory one after the other.
AddDram ==
  /\ TableStep("dram")
  /\ LET n == IF board.banks = 1 THEN board.ram
              ELSE IF left = board.ram THEN Size0 ELSE left
         a == IF left = board.ram THEN Base ELSE board.base1
         no == IF board.banks = 1 THEN 0 ELSE lastNo
     IN /\ n > 0
        /\ left' = left - n
        /\ lastNo' = IF n > Split(n) THEN n \div Split(n) ELSE lastNo + 1
        /\ \/ n > Split(n)
              /\ table' = Added("dram", Parts(a, n, Split(n), no)) /\ short' = short
           \/ n > Split(n) /\ to # "flash"
              /\ table' = table \o << Head(Parts(a, n, Split(n), no)) >> /\ short' = TRUE
           \/ n <= Split(n)
              /\ table' = Added("dram", << DumpEntry(<<"dram", no>>, a, n, comp) >>) /\ short' = short
  /\ UNCHANGED seg

\* The second bank of a board whose memory is all in the first.
NoDram ==
  /\ TableStep("dram")
  /\ left = 0
  /\ UNCHANGED <<seg, left, lastNo, table, short>>

AddPlain(kind) ==
  /\ TableStep(kind)
  /\ table' = Added(kind, << DumpEntry(<<kind>>, 0, 1, FALSE) >>)
  /\ UNCHANGED <<seg, left, lastNo, short>>

\* The TLVs of some types, and the lists of a set of TLVs in the kernel's order.
Tlvs(types) == {j \in 1 .. Len(tlvs) : tlvs[j].t \in types}
InOrder(js) ==
  {q \in UNION {[1 .. n -> js] : n \in 0 .. Len(tlvs)} :
     /\ \A j \in js : \E i \in DOMAIN q : q[i] = j
     /\ \A i, k \in DOMAIN q : i < k => q[i] < q[k]}
TlvEntry(j) == DumpEntry(<<"tlv", j>>, 0, tlvs[j].n, FALSE)

\* The subsystem of a module: one that is unknown narrows nothing.
Module(m) == IF m \in {"host", "nss"} THEN m ELSE "all"

\* checkcrashtype: what the log holds decides whose modules are dumped, the
\* later test over the earlier one.
Found == {"nothing", "host", "nss", "unknown"}
Logs == [memory : BOOLEAN, assertion : BOOLEAN, crash : Found, warning : Found]
CrashType(log) ==
  CASE log.warning # "nothing" -> Module(log.warning)
    [] log.warning = "nothing" /\ log.crash # "nothing" -> Module(log.crash)
    [] log.warning = log.crash /\ log.crash = "nothing" ->
         IF log.assertion THEN "host" ELSE IF log.memory THEN "all" ELSE seg

\* wdt_extract_dump for a segment there is one of, if the kernel registered
\* it.  With the log, its kind of crash is looked for in it (dump_minimal 2).
AddSegment(kind) ==
  /\ TableStep(kind)
  /\ \/ Tlvs({kind}) = {} /\ UNCHANGED <<seg, table>>
     \/ /\ \E j \in Tlvs({kind}) :
             /\ \A i \in Tlvs({kind}) : j <= i
             /\ table' = Added(kind, << TlvEntry(j) >>)
        /\ IF kind = "dmesg" /\ level = "mini"
             THEN \E log \in Logs : seg' \in {seg, CrashType(log)}
             ELSE seg' = seg
  /\ UNCHANGED <<left, lastNo, short>>

OfCrash(r) == r.t = "info" \/ (r.t = "mod" /\ r.who # "live" /\ seg \in {"all", r.who})

\* Mutant: the walk ends at the first module that is not taken.
ModulesUntil ==
  {j \in Tlvs({"mod", "info"}) : \A i \in Tlvs({"mod", "info"}) : i <= j => OfCrash(tlvs[i])}

Modules == {j \in Tlvs({"mod", "info"}) : OfCrash(tlvs[j])}

\* wdt_extract_dump for WLAN_MOD: all of them, up to the end of the list.
AddModules ==
  /\ TableStep("wlan")
  /\ \E q \in InOrder(Modules) : table' = Added("wlan", [i \in DOMAIN q |-> TlvEntry(q[i])])
  /\ UNCHANGED <<seg, left, lastNo, short>>

\* An allocation failed: no dump, and no table any more; unless the segments
\* are still to come, whose result takes the place of the full dump's.
TableFails ==
  /\ ph = "table" /\ todo # <<>>
  /\ \/ /\ level = "both" /\ Len(todo) > Len(Minis)
        /\ todo' = Minis /\ short' = TRUE
        /\ UNCHANGED <<ph, table>>
     \/ /\ ~(level = "both" /\ Len(todo) > Len(Minis))
        /\ ph' = "reset" /\ table' = <<>>
        /\ UNCHANGED <<todo, short>>
  /\ UNCHANGED <<board, tlvs, cfgVars, seg, left, lastNo, ramVars, dumped, files, memVars>>

TableDone ==
  /\ ph = "table" /\ todo = <<>>
  /\ ph' = IF to \in {"flash", "nvmem"} THEN "flash" ELSE IF to = "mem" THEN "mem" ELSE "files"
  /\ UNCHANGED <<board, tlvs, cfgVars, tabVars, ramVars, dumped, files, memVars>>
-----------------------------------------------------------------------------
\* dump_to_dst for the files, an entry at a time.
Entries == Len(table)
E == table[dumped + 1]
Read(u) == IF u \in Memory THEN mem[u] ELSE 0
Wrote(us) == [u \in Memory |-> IF u \in us THEN 0 ELSE mem[u]]
Store(name, data) == [f \in {name} \cup DOMAIN files |-> IF f = name THEN data ELSE files[f]]
IsFirstPart == E.name = <<"dram", 0>>
TempName == <<"dram", 0>>

FileStep == ph \in {"files", "gzip", "put", "back"} /\ dumped < Entries

\* What is read here and only here is no memory a compression may overwrite;
\* an access that has to be aligned goes through the top of the memory.
DumpPlain ==
  /\ FileStep /\ ph = "files" /\ ~E.gz
  /\ IF E.name = <<"aligned">> THEN mem' = Wrote({RamTop - 1}) ELSE mem' = mem
  /\ files' = Store(E.name, [i \in 1 .. E.n |-> IF E.at = 0 THEN 0 ELSE Read(E.at + i - 1)])
  /\ dumped' = dumped + 1
  /\ UNCHANGED <<ph, board, tlvs, cfgVars, tabVars, out, outSz, cur, over, memVars>>

\* A part is compressed to o; the first part, which has nothing below it, is
\* moved there to be compressed downwards.
Begin(o, size) ==
  /\ \/ /\ IsFirstPart
        /\ mem' = [u \in Memory |-> IF u \in o .. o + E.n - 1 THEN Read(E.at + u - o) ELSE mem[u]]
        /\ cur' = [NoEntry EXCEPT !.at = o, !.n = E.n]
        /\ out' = o - 1 /\ outSz' = E.n
        /\ over' = (over \/ ~(o .. o + E.n - 1 \subseteq Memory))
     \/ /\ ~IsFirstPart
        /\ cur' = [NoEntry EXCEPT !.at = E.at, !.n = E.n]
        /\ out' = o /\ outSz' = size
        /\ UNCHANGED <<mem, over>>
  /\ ph' = "gzip"
  /\ UNCHANGED <<board, tlvs, cfgVars, tabVars, dumped, memVars>>

\* The unit below the topmost part is saved as the file of the first part:
\* the output goes there.
Backup ==
  /\ FileStep /\ ph = "files" /\ E.gz
  /\ E.at + E.n = RamTop
  /\ files' = Store(TempName, << Read(E.at - 1) >>)
  /\ Begin(E.at - 1, E.n)

\* The others go where the parts before them were.
NextPart ==
  /\ FileStep /\ ph = "files" /\ E.gz
  /\ E.at + E.n # RamTop /\ out # 0 /\ outSz # 0
  /\ Begin(out, outSz)
  /\ files' = files

\* gzip of cur to z units from out on.  Output that starts below the input
\* never overtakes it; any other overlap is overwritten before it is read.
Compress(z) ==
  /\ FileStep /\ ph = "gzip"
  /\ z <= outSz
  /\ LET target == out .. out + z - 1
         lost(u) == u \in target /\ out >= cur.at
         data == [i \in 1 .. cur.n |-> IF lost(cur.at + i - 1) THEN 0 ELSE Read(cur.at + i - 1)]
     IN /\ cur' = [cur EXCEPT !.data = IF target \subseteq Memory THEN data ELSE <<0>>]
        /\ mem' = Wrote(target)
        /\ over' = (over \/ ~(target \subseteq Memory))
  /\ ph' = "put"
  /\ UNCHANGED <<board, tlvs, cfgVars, tabVars, out, outSz, dumped, files, memVars>>

\* Mutant: the output buffer stays where it was.
OutStays == out

\* comp_out_addr moves up behind the temporary buffer.
OutAfter == out + 1

\* The compressed part is stored.
Put ==
  /\ FileStep /\ ph = "put"
  /\ files' = Store(E.name, cur.data)
  /\ out' = OutAfter
  /\ \/ IsFirstPart /\ ph' = "files" /\ dumped' = dumped + 1
     \/ ~IsFirstPart /\ ph' = "back" /\ dumped' = dumped
  /\ UNCHANGED <<board, tlvs, cfgVars, tabVars, mem, outSz, cur, over, memVars>>

\* The saved unit comes back to where the output was: as many units as the
\* file of that name now has.
Reload ==
  /\ FileStep /\ ph = "back"
  /\ LET f == files[TempName]
     IN mem' = [u \in Memory |-> IF u \in out - 1 .. out + Len(f) - 2 THEN f[u - out + 2] ELSE mem[u]]
  /\ ph' = "files" /\ dumped' = dumped + 1
  /\ UNCHANGED <<board, tlvs, cfgVars, tabVars, out, outSz, cur, over, files, memVars>>

\* A store, a load or the compression fails, or there is no room for it.
DumpFails ==
  /\ FileStep \/ ph = "mem"
  /\ ph' = "failed"
  /\ UNCHANGED <<board, tlvs, cfgVars, tabVars, ramVars, dumped, files, memVars>>

FilesDone ==
  /\ ph = "files" /\ dumped = Entries
  /\ ph' = "success"
  /\ UNCHANGED <<board, tlvs, cfgVars, tabVars, ramVars, dumped, files, memVars>>
-----------------------------------------------------------------------------
\* dump_to_dst into reserved memory.
Room == CHOOSE n \in Reserved : DOMAIN rsv = 0 .. n-1

DumpToMem ==
  /\ ph = "mem" /\ dumped < Entries
  /\ curr + E.n <= Room
  /\ rsv' = [i \in DOMAIN rsv |-> IF i \in curr .. curr + E.n - 1 THEN <<"data", E.name, i - curr + 1>>
                                  ELSE rsv[i]]
  /\ lst' = Append(lst, [name |-> E.name, off |-> curr, n |-> E.n])
  /\ curr' = curr + E.n
  /\ dumped' = dumped + 1
  /\ UNCHANGED <<ph, board, tlvs, cfgVars, tabVars, ramVars, files>>

\* The test adds the size of everything to the address behind the dumps, and
\* so asks for more than the list takes.
ListFits == 2*curr + 1 <= Room

StoreList ==
  /\ ph = "mem" /\ dumped = Entries
  /\ ListFits
  /\ rsv' = [i \in DOMAIN rsv |-> IF i = curr THEN <<"list", lst>> ELSE rsv[i]]
  /\ ph' = "header"
  /\ UNCHANGED <<board, tlvs, cfgVars, tabVars, ramVars, dumped, files, curr, lst>>

StoreHeader ==
  /\ ph = "header"
  /\ rsv' = [rsv EXCEPT ![0] = <<"hdr", curr>>]
  /\ ph' = "success"
  /\ UNCHANGED <<board, tlvs, cfgVars, tabVars, ramVars, dumped, files, curr, lst>>

\* delete_crashdump_table and the reset.
Reset ==
  /\ ph \in {"success", "failed", "flash"}
  /\ ph' = "reset"
  /\ table' = <<>>
  /\ UNCHANGED <<board, tlvs, cfgVars, seg, todo, left, lastNo, short, ramVars, dumped, files, memVars>>

DumpNext ==
  \/ \E env \in SUBSET Names : ParseConfig(env)
  \/ GiveUp \/ VerifyConfig \/ VerifyIface
  \/ AddDram \/ NoDram \/ \E k \in {"plain", "aligned", "cpu"} : AddPlain(k)
  \/ \E k \in {"uname", "dmesg", "pt"} : AddSegment(k)
  \/ AddModules \/ TableFails \/ TableDone
  \/ DumpPlain \/ Backup \/ NextPart \/ \E z \in 1 .. Limit : Compress(z)
  \/ Put \/ Reload \/ DumpFails \/ FilesDone
  \/ DumpToMem \/ StoreList \/ StoreHeader
  \/ Reset

DumpSpec == DumpInit /\ [][DumpNext]_dumpVars
-----------------------------------------------------------------------------
(***************************************************************************)
(* A file that was stored holds the memory as it was at the crash, although *)
(* the parts are compressed into each other's memory, the backup of the    *)
(* buffer has the first part's name, and the numbers go on from one bank to *)
(* the next; unless memory of three parts or more was so full of noise that *)
(* a part or its output ran past the end of the first bank, as the buffer  *)
(* moves up with each part and is never made smaller, or the first bank is *)
(* one part, which is moved below the memory (dump_to_dst).                *)
(***************************************************************************)
Truth(e) == [i \in 1 .. e.n |-> e.at + i - 1]

FilesAreTheMemory ==
  ~over => \A i \in 1 .. dumped : ph # "reset" /\ to # "mem" /\ table[i].at # 0 =>
    files[table[i].name] = Truth(table[i])

(***************************************************************************)
(* A dump that reports success has stored every bank whole and every       *)
(* segment the kernel registered for the crash.  Two cases are left out    *)
(* for the banks, in which the code reports success without them: an       *)
(* allocation failed while a bank was split, or, with both dumps wanted,   *)
(* anywhere in the full one's table, whose result the segments' replaces   *)
(* (prepare_crashdump_table); and a part ran out of memory as above.  A    *)
(* header in the reserved memory stands for a list and the data of all it  *)
(* names, at any moment.                                                   *)
(***************************************************************************)
Due(r, j) ==
  IF r.t \in {"mod", "info"} THEN OfCrash(r)
  ELSE \A i \in 1 .. j-1 : tlvs[i].t # r.t

DueTlvs == {<<"tlv", j>> : j \in {j \in 1 .. Len(tlvs) : Due(tlvs[j], j)}}

Whole(names) ==
  /\ level # "full" => DueTlvs \subseteq names
  /\ level # "mini" /\ ~short /\ ~over =>
       \A u \in Memory : \E f \in DOMAIN files : \E i \in 1 .. Len(files[f]) : files[f][i] = u

Promised(l) ==
  \A k \in 1 .. Len(l) : \A i \in 1 .. l[k].n :
    /\ l[k].off + i - 1 \in DOMAIN rsv
    /\ rsv[l[k].off + i - 1] = <<"data", l[k].name, i>>

DumpIsWhole ==
  /\ ph = "success" /\ to # "mem" => Whole(DOMAIN files)
  /\ rsv[0][1] = "hdr" =>
       /\ rsv[0][2] \in DOMAIN rsv
       /\ rsv[rsv[0][2]][1] = "list"
       /\ Promised(rsv[rsv[0][2]][2])
       /\ ph = "success" /\ to = "mem" => Whole({l.name : l \in {lst[k] : k \in 1 .. Len(lst)}})
=============================================================================
