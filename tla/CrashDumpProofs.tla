--------------------------- MODULE CrashDumpProofs --------------------------
(***************************************************************************)
(* What the crash dump command stores is the memory at the crash, and what *)
(* looks like a finished dump is one, for every size of a file, every      *)
(* board, every list of TLVs and every reserved memory.                    *)
(*                                                                         *)
(* Both come from two inductive invariants.  Told says of the memory that  *)
(* the parts are in the table from the top of the first bank down (Shape), *)
(* that nothing still to be dumped has been written (Keeps), and that the  *)
(* buffer of the compression is behind all of it, in what is dumped (the   *)
(* In... of each phase).  Sound says of the table that it lists what had   *)
(* its turn (Listed), covers the banks that had theirs (Covered), that a   *)
(* file is there for each entry dumped (Filed), and of reserved memory     *)
(* that a header is never there before what it stands for (Header).        *)
(***************************************************************************)
EXTENDS CrashDump, TLAPS, SequenceTheorems
-----------------------------------------------------------------------------

(* Multiples of a size, in order.                                          *)
LEMMA Products ==
  ASSUME NEW a \in Nat, NEW b \in Nat, NEW d \in Nat
  PROVE  /\ a * d \in Nat
         /\ (a + 1) * d = (a * d) + d
         /\ (a + b) * d = (a * d) + (b * d)
         /\ a <= b => a * d <= b * d
         /\ a < b => (a * d) + d <= b * d
<1>1. a * d \in Nat /\ b * d \in Nat
  OBVIOUS
<1>2. (a + 1) * d = (a * d) + d /\ (a + b) * d = (a * d) + (b * d)
  OBVIOUS
<1>3. ASSUME a <= b PROVE a * d <= b * d
  <2>1. PICK k \in Nat : b = a + k
    BY <1>3
  <2>2. b * d = (a * d) + (k * d) /\ k * d \in Nat
    BY <2>1
  <2> QED BY <1>1, <2>2
<1>4. ASSUME a < b PROVE (a * d) + d <= b * d
  <2>1. PICK k \in Nat : b = (a + 1) + k
    BY <1>4
  <2>2. b * d = ((a + 1) * d) + (k * d) /\ k * d \in Nat
    BY <2>1
  <2> QED BY <1>1, <1>2, <2>2
<1> QED BY <1>1, <1>2, <1>3, <1>4

(* How many files of a size hold a number of units.                        *)
LEMMA Ceiling ==
  ASSUME NEW n \in Nat \ {0}, NEW s \in Nat \ {0}
  PROVE  LET k == (n + s - 1) \div s
         IN /\ k \in Nat \ {0} /\ (k-1)*s < n /\ n <= k*s
            /\ n % s = 0 => k <= n \div s
            /\ n > s => k >= 2
<1> DEFINE m == n + s - 1
           k == m \div s
           d == n \div s
<1>1. m \in Nat /\ s \in Nat /\ s > 0 /\ n \in Nat
  OBVIOUS
<1>2. m = (s * k) + (m % s) /\ k \in Nat /\ m % s \in 0 .. s-1
  BY <1>1
<1>3. n = (s * d) + (n % s) /\ d \in Nat
  BY <1>1
<1> HIDE DEF k, d
<1>4. s * k = k * s /\ k * s \in Nat /\ s * d = d * s /\ d * s \in Nat
  BY <1>1, <1>2, <1>3
<1>5. n <= k*s /\ k*s < n + s
  BY <1>1, <1>2, <1>4
<1>6. k > 0
  BY <1>1, <1>2, <1>5
<1>7. (k-1)*s < n
  <2>1. k-1 \in Nat /\ ((k-1) + 1) * s = ((k-1) * s) + s
    BY <1>1, <1>2, <1>6, Products
  <2> QED  BY <1>1, <1>2, <1>5, <2>1
<1>8. n % s = 0 => k <= d
  <2>1. ASSUME n % s = 0, k > d PROVE FALSE
    <3>1. (d * s) + s <= k * s
      BY <1>1, <1>2, <1>3, <2>1, Products
    <3> QED  BY <1>1, <1>3, <1>4, <1>5, <2>1, <3>1
  <2> QED  BY <1>2, <1>3, <2>1
<1>9. n > s => k >= 2
  <2>1. k = 1 => k * s = s
    BY <1>1
  <2> QED  BY <1>1, <1>2, <1>5, <1>6, <2>1
<1> QED  BY <1>2, <1>5, <1>6, <1>7, <1>8, <1>9 DEF k, d

\* What the entries of the table are.
EntryNames == {<<"dram", no>> : no \in Nat} \cup {<<"tlv", j>> : j \in Nat}
              \cup {<<kind>> : kind \in {"plain", "aligned", "cpu"}}
Rows == [name : EntryNames, at : Nat, n : Nat \ {0}, gz : BOOLEAN]

\* The entries that make up one bank, from its top down.
Named(e, no) == \E m \in Nat : m >= no /\ e.name = <<"dram", m>>
Bank(r, a, n, no) ==
  /\ r \in Seq(Rows) /\ Len(r) > 0
  /\ \A i \in 1 .. Len(r) : /\ Named(r[i], no) /\ r[i].n <= Limit /\ r[i].gz = comp
                            /\ a <= r[i].at /\ r[i].at + r[i].n <= a + n
  /\ \A i, j \in 1 .. Len(r) : i < j => r[i].name # r[j].name /\ r[j].at + r[j].n <= r[i].at
  /\ r[1].at + r[1].n = a + n
  /\ r[1].name = <<"dram", no>> => r[1].at = a

\* Together they leave nothing out; and their numbers are below one.
Covers(r, a, n) ==
  \A u \in a .. a+n-1 : \E i \in 1 .. Len(r) : r[i].at <= u /\ u < r[i].at + r[i].n
Below(r, no) == \A i \in 1 .. Len(r) : \A m \in Nat : r[i].name = <<"dram", m>> => m < no

(* The files of a bank are in it, follow on one another and leave nothing  *)
(* out (split_bin_dump).                                                   *)
LEMMA PartsAre ==
  ASSUME NEW a \in Nat \ {0}, NEW n \in Nat, NEW s \in Nat \ {0}, NEW no \in Nat,
         n > s, s <= Limit, Limit \in Nat, comp \in BOOLEAN
  PROVE  /\ Bank(Parts(a, n, s, no), a, n, no) /\ Covers(Parts(a, n, s, no), a, n)
         /\ n % s = 0 => Below(Parts(a, n, s, no), no + (n \div s))
         /\ Bank(<< Head(Parts(a, n, s, no)) >>, a, n, no)
         /\ n % s = 0 => Below(<< Head(Parts(a, n, s, no)) >>, no + (n \div s))
<1> DEFINE k == (n + s - 1) \div s
           from(i) == IF n > i*s THEN a + n - i*s ELSE a
           row(i) == DumpEntry(<<"dram", no + k - i>>, from(i), a + n - (i-1)*s - from(i), comp)
           r == [i \in 1 .. k |-> row(i)]
<1>1. Parts(a, n, s, no) = r
  BY DEF Parts
<1>2. /\ k \in Nat \ {0} /\ (k-1)*s < n /\ n <= k*s /\ k >= 2
      /\ n % s = 0 => k <= n \div s
  BY Ceiling
<1>2a. n \div s \in Int
  OBVIOUS
<1> HIDE DEF k
<1>3. ASSUME NEW i \in 1 .. k
      PROVE  /\ i*s \in Nat /\ (i-1)*s \in Nat /\ i*s = (i-1)*s + s
             /\ (i-1)*s < n
             /\ i < k => i*s < n
             /\ i = k => i*s >= n
  <2>1. i \in Nat /\ i-1 \in Nat /\ k-1 \in Nat /\ s \in Nat
    BY <1>2
  <2>2. i*s \in Nat /\ (i-1)*s \in Nat /\ ((i-1)+1)*s = (i-1)*s + s
    BY <2>1, Products
  <2>3. (i-1)*s <= (k-1)*s
    BY <1>2, <2>1, Products
  <2>4. i < k => i*s <= (k-1)*s
    BY <1>2, <2>1, Products
  <2>5. (k-1)*s \in Int
    BY <2>1
  <2> QED  BY <1>2, <2>1, <2>2, <2>3, <2>4, <2>5
<1>4. ASSUME NEW i \in 1 .. k
      PROVE  LET w == a + n - (i-1)*s - from(i)
             IN /\ from(i) \in Nat /\ from(i) >= a /\ w \in 1 .. s
                /\ from(i) + w = a + n - (i-1)*s /\ from(i) + w <= a + n
                /\ i < k => from(i) = a + n - i*s
                /\ i = k => from(i) = a
  <2>1. /\ i*s \in Nat /\ (i-1)*s \in Nat /\ i*s = (i-1)*s + s
        /\ (i-1)*s < n
        /\ i < k => i*s < n
        /\ i = k => i*s >= n
    BY <1>3
  <2>2. PICK x \in Nat, y \in Nat : x = i*s /\ y = (i-1)*s
    BY <2>1
  <2>3. from(i) = IF n > x THEN a + n - x ELSE a
    BY <2>2
  <2>4. i < k \/ i = k
    BY <1>2
  <2> HIDE DEF from
  <2> QED  BY <2>1, <2>2, <2>3, <2>4
<1>5. ASSUME NEW i \in 1 .. k
      PROVE  /\ row(i) \in Rows /\ Named(row(i), no) /\ row(i).n <= Limit /\ row(i).gz = comp
             /\ a <= row(i).at /\ row(i).at + row(i).n <= a + n
             /\ row(i).name = <<"dram", no + k - i>> /\ row(i).at = from(i)
             /\ row(i).at + row(i).n = a + n - (i-1)*s
  <2> DEFINE w == a + n - (i-1)*s - from(i)
  <2>1. from(i) \in Nat /\ w \in Nat \ {0} /\ w <= Limit /\ from(i) >= a
        /\ from(i) + w <= a + n /\ from(i) + w = a + n - (i-1)*s
    BY <1>4
  <2> HIDE DEF from, w
  <2>2. no + k - i \in Nat /\ no + k - i >= no
    BY <1>2
  <2>3. <<"dram", no + k - i>> \in EntryNames
    BY <2>2 DEF EntryNames
  <2>4. row(i) = [name |-> <<"dram", no + k - i>>, at |-> from(i), n |-> w, gz |-> comp]
    BY DEF w, DumpEntry
  <2> HIDE DEF row
  <2>5. row(i) \in Rows
    BY <2>1, <2>3, <2>4 DEF Rows
  <2>6. Named(row(i), no)
    BY <2>2, <2>4 DEF Named
  <2> QED  BY <2>1, <2>4, <2>5, <2>6
<1>6. r \in Seq(Rows) /\ Len(r) = k /\ \A i \in 1 .. k : r[i] = row(i)
  BY <1>2, <1>5
<1> HIDE DEF row, from
<1>7. ASSUME NEW i \in 1 .. k, NEW j \in 1 .. k, i < j
      PROVE  row(i).name # row(j).name /\ row(j).at + row(j).n <= row(i).at
  <2>1. row(i).name = <<"dram", no + k - i>> /\ row(j).name = <<"dram", no + k - j>>
    BY <1>5
  <2>2. row(i).name[2] # row(j).name[2]
    BY <1>2, <1>7, <2>1
  <2>3. i*s <= (j-1)*s
    BY <1>2, <1>7, Products
  <2>4. row(i).at = a + n - i*s /\ row(j).at + row(j).n = a + n - (j-1)*s
    <3>1. i < k /\ row(i).at = from(i)
      BY <1>2, <1>5, <1>7
    <3>2. row(i).at = a + n - i*s
      BY <1>4, <3>1
    <3> QED  BY <1>5, <3>2
  <2>5. i*s \in Int /\ (j-1)*s \in Int
    BY <1>3
  <2> QED  BY <2>2, <2>3, <2>4, <2>5
<1>8. /\ r[1] = row(1) /\ row(1).at + row(1).n = a + n
      /\ row(1).name = <<"dram", no + k - 1>>
  <2>1. 1 \in 1 .. k
    BY <1>2
  <2>2. r[1] = row(1)
    BY <1>6, <2>1
  <2> HIDE DEF r
  <2>3. row(1).name = <<"dram", no + k - 1>> /\ row(1).at + row(1).n = a + n - (1-1)*s
    BY <1>5, <2>1
  <2> QED  BY <2>2, <2>3
<1>9. row(1).name # <<"dram", no>>
  <2>1. row(1).name[2] = no + k - 1
    BY <1>8
  <2> QED  BY <1>2, <2>1
<1>10. Bank(r, a, n, no)
  <2> HIDE DEF r
  <2>1. r \in Seq(Rows) /\ Len(r) > 0 /\ Len(r) = k
    BY <1>2, <1>6
  <2>2. \A i \in 1 .. Len(r) : /\ Named(r[i], no) /\ r[i].n <= Limit /\ r[i].gz = comp
                               /\ a <= r[i].at /\ r[i].at + r[i].n <= a + n
    <3> TAKE i \in 1 .. Len(r)
    <3>1. i \in 1 .. k /\ r[i] = row(i)
      BY <1>6, <2>1
    <3> QED  BY <1>5, <3>1
  <2>3. \A i, j \in 1 .. Len(r) : i < j => r[i].name # r[j].name /\ r[j].at + r[j].n <= r[i].at
    BY <1>6, <1>7, <2>1
  <2>4. r[1].at + r[1].n = a + n /\ r[1].name # <<"dram", no>>
    BY <1>8, <1>9
  <2> QED  BY <2>1, <2>2, <2>3, <2>4 DEF Bank
<1>11. Covers(r, a, n)
  <2> SUFFICES ASSUME NEW u \in a .. a+n-1
               PROVE  \E i \in 1 .. k : row(i).at <= u /\ u < row(i).at + row(i).n
    BY <1>6 DEF Covers
  <2> DEFINE t == a + n - 1 - u
             d == t \div s
  <2>1. t \in 0 .. n-1 /\ s \in Nat /\ s > 0
    OBVIOUS
  <2>2. t = (s * d) + (t % s) /\ d \in Nat /\ t % s \in 0 .. s-1 /\ s * d = d * s
    BY <2>1
  <2> HIDE DEF t, d
  <2>3. d * s \in Nat /\ d * s <= t /\ t < d * s + s /\ (d + 1) * s = d * s + s
    BY <2>1, <2>2, Products
  <2>4. d < k
    <3>1. d >= k => k * s <= d * s
      BY <1>2, <2>2, Products
    <3> QED  BY <1>2, <2>1, <2>2, <2>3, <3>1
  <2>5. d + 1 \in 1 .. k /\ (d+1) - 1 = d
    BY <1>2, <2>2, <2>4
  <2>6. row(d+1).at + row(d+1).n = a + n - d * s
    BY <1>5, <2>5
  <2>7. row(d+1).at <= u
    <3>1. CASE d + 1 < k
      BY <1>4, <1>5, <2>1, <2>3, <2>5, <3>1 DEF t
    <3>2. CASE d + 1 = k
      BY <1>4, <1>5, <2>5, <3>2
    <3> QED  BY <1>2, <2>5, <3>1, <3>2
  <2> QED  BY <2>1, <2>3, <2>5, <2>6, <2>7 DEF t
<1>12. Head(r) = row(1) /\ Bank(<< row(1) >>, a, n, no)
  <2>1. Head(r) = row(1)
    BY <1>2, <1>6, <1>8
  <2> DEFINE q == << row(1) >>
  <2>2. q \in Seq(Rows) /\ Len(q) = 1 /\ q[1] = row(1) /\ 1 \in 1 .. k
    BY <1>2, <1>5
  <2> HIDE DEF q
  <2>3. Bank(q, a, n, no)
    BY <1>5, <1>8, <1>9, <2>2 DEF Bank
  <2> QED  BY <2>1, <2>3 DEF q
<1>13. ASSUME n % s = 0, NEW i \in 1 .. k, NEW m \in Nat, row(i).name = <<"dram", m>>
       PROVE  m < no + (n \div s)
  <2>1. m = no + k - i
    <3>1. row(i).name[2] = no + k - i
      BY <1>5
    <3> QED  BY <1>13, <3>1
  <2> QED  BY <1>2, <1>2a, <1>13, <2>1
<1>14. n % s = 0 => Below(r, no + (n \div s)) /\ Below(<< row(1) >>, no + (n \div s))
  <2> HIDE DEF r
  <2>1. \A i \in 1 .. Len(<< row(1) >>) : << row(1) >>[i] = row(1)
    OBVIOUS
  <2> QED  BY <1>2, <1>6, <1>13, <2>1 DEF Below
<1> QED  BY <1>1, <1>10, <1>11, <1>12, <1>14

\* Where an entry can be: in a bank, or in no memory at all.
InBank0(e) == Base <= e.at /\ e.at + e.n <= RamTop
InBank1(e) == board.base1 <= e.at /\ e.at + e.n <= board.base1 + (board.ram - Size0)
DramRow(e) == Named(e, 0) /\ e.n <= Limit /\ e.gz = comp /\ (InBank0(e) \/ InBank1(e))
OtherRow(e) == e.at = 0 /\ e.gz = FALSE /\ e.name[1] # "dram"

\* One is before the other: above it, or in the bank before.
Apart(d, e) == d.name # e.name /\ (InBank0(e) => InBank0(d) /\ e.at + e.n <= d.at)

\* The table: the memory from its top down, then what is not memory.
Shape(t) ==
  /\ t \in Seq(Rows)
  /\ \A i \in 1 .. Len(t) : (t[i].at # 0 /\ DramRow(t[i])) \/ OtherRow(t[i])
  /\ \A i, j \in 1 .. Len(t) : i < j /\ t[j].at # 0 => t[i].at # 0 /\ Apart(t[i], t[j])
  /\ Len(t) > 0 /\ t[1].at # 0 =>
       InBank0(t[1]) /\ t[1].at + t[1].n = RamTop /\ (t[1].name = <<"dram", 0>> => t[1].at = Base)

(* What is known of a board's banks.                                       *)
LEMMA Banks ==
  ASSUME board \in Boards
  PROVE  /\ Limit \in Nat /\ Limit > 1 /\ board.ram \in Nat /\ board.ram > 1 /\ board.base1 \in Nat
         /\ Size0 \in Nat /\ Size0 <= board.ram /\ RamTop = 3 + Size0 /\ Base = 3
         /\ board.banks \in {1, 2} /\ (board.banks = 1 => Size0 = board.ram)
         /\ board.ram > Size0 => Size0 % Limit = 0 /\ board.base1 >= RamTop + Limit
<1>1. /\ board.ram \in Nat /\ board.ram > 1 /\ board.base1 \in Nat /\ board.bank0 \in Nat
      /\ board.banks \in {1, 2} /\ Limit \in Nat /\ Limit > 1
      /\ board.banks = 2 => board.bank0 % Limit = 0 /\ board.base1 >= 3 + board.bank0 + Limit
  BY DumpAssumption DEF Base
<1> QED  BY <1>1 DEF Size0, LowOf, RamTop, Base

(* Which units are memory.                                                 *)
LEMMA UnitsAre ==
  ASSUME board \in Boards
  PROVE  /\ \A u : u \in Memory <=>
              u \in Nat /\ ((Base <= u /\ u < RamTop)
                            \/ (board.base1 <= u /\ u < board.base1 + (board.ram - Size0)))
         /\ \A u \in Memory : u >= RamTop => u >= RamTop + Limit
BY Banks DEF Memory

(* A run of units that starts in the first bank stays in it.               *)
LEMMA RunInBank ==
  ASSUME board \in Boards, NEW o \in Int, NEW z \in Nat \ {0},
         o .. o + z - 1 \subseteq Memory, o <= RamTop
  PROVE  Base <= o /\ o + z <= RamTop
<1>1. /\ \A u \in Memory : u \in Nat /\ u >= Base /\ (u < RamTop \/ u > RamTop)
      /\ RamTop \in Nat
  BY UnitsAre, Banks
<1>2. o \in Memory /\ o \in o .. o + z - 1
  OBVIOUS
<1>3. o + z > RamTop => RamTop \in o .. o + z - 1
  BY <1>1
<1> QED  BY <1>1, <1>2, <1>3

\* Where the entries of two sequences are, one behind the other.
Joined(w, p, q) ==
  /\ Len(w) = Len(p) + Len(q) /\ Len(p) \in Nat /\ Len(q) \in Nat
  /\ \A i \in 1 .. Len(p) : w[i] = p[i]
  /\ \A i \in 1 .. Len(q) : w[Len(p) + i] = q[i]
  /\ \A i \in 1 .. Len(w) :
       i \in 1 .. Len(p) \/ (i - Len(p) \in 1 .. Len(q) /\ w[i] = q[i - Len(p)])

(* So they are in the sequence of both.                                    *)
LEMMA Behind ==
  ASSUME NEW S, NEW p \in Seq(S), NEW q \in Seq(S)
  PROVE  p \o q \in Seq(S) /\ Joined(p \o q, p, q)
<1> DEFINE w == p \o q
<1>1. /\ w \in Seq(S) /\ Len(w) = Len(p) + Len(q)
      /\ \A i \in 1 .. Len(p) + Len(q) : w[i] = IF i <= Len(p) THEN p[i] ELSE q[i - Len(p)]
  BY ConcatProperties, Zenon
<1>2. Len(p) \in Nat /\ Len(q) \in Nat
  OBVIOUS
<1> HIDE DEF w
<1>3. \A i \in 1 .. Len(q) : w[Len(p) + i] = q[i]
  <2> TAKE i \in 1 .. Len(q)
  <2>1. Len(p) + i \in 1 .. Len(p) + Len(q) /\ ~(Len(p) + i <= Len(p)) /\ (Len(p) + i) - Len(p) = i
    BY <1>2
  <2> QED  BY <1>1, <2>1
<1>4. \A i \in 1 .. Len(p) : w[i] = p[i]
  BY <1>1, <1>2
<1>5. \A i \in 1 .. Len(w) :
              i \in 1 .. Len(p) \/ (i - Len(p) \in 1 .. Len(q) /\ w[i] = q[i - Len(p)])
  BY <1>1, <1>2
<1> QED  BY <1>1, <1>2, <1>3, <1>4, <1>5 DEF w, Joined

(* The files of the first bank are a table.                                *)
LEMMA FirstBank ==
  ASSUME board \in Boards, NEW r, Bank(r, Base, Size0, 0)
  PROVE  Shape(r) /\ \A i \in 1 .. Len(r) : InBank0(r[i]) /\ r[i].at # 0
<1>1. Base = 3 /\ RamTop = 3 + Size0 /\ Size0 \in Nat
  BY Banks
<1>2. r \in Seq(Rows) /\ Len(r) \in Nat /\ \A i \in 1 .. Len(r) : r[i] \in Rows
  BY DEF Bank
<1>3. \A i \in 1 .. Len(r) : r[i].at \in Nat /\ r[i].n \in Nat /\ r[i].n > 0
  BY <1>2 DEF Rows
<1>4. \A i \in 1 .. Len(r) : InBank0(r[i]) /\ r[i].at # 0 /\ DramRow(r[i])
  BY <1>1, <1>3 DEF Bank, InBank0, DramRow
<1>5. \A i, j \in 1 .. Len(r) : i < j => Apart(r[i], r[j])
  BY <1>4 DEF Bank, Apart
<1>6. r[1].at + r[1].n = RamTop /\ (r[1].name = <<"dram", 0>> => r[1].at = Base) /\ 1 \in 1 .. Len(r)
  BY <1>1, <1>2 DEF Bank
<1> QED  BY <1>2, <1>4, <1>5, <1>6 DEF Shape

(* Those of the second come behind them, under other names.                *)
LEMMA SecondBank ==
  ASSUME board \in Boards, NEW t, NEW r, NEW no \in Nat, Shape(t), Len(t) > 0,
         \A i \in 1 .. Len(t) : InBank0(t[i]) /\ t[i].at # 0,
         Below(t, no), board.ram > Size0, Bank(r, board.base1, board.ram - Size0, no)
  PROVE  Shape(t \o r)
<1>1. /\ Base = 3 /\ RamTop \in Nat /\ board.base1 > RamTop /\ board.base1 \in Nat
      /\ board.ram - Size0 \in Nat
  BY Banks
<1>2. /\ t \in Seq(Rows) /\ r \in Seq(Rows) /\ Len(t) \in Nat /\ Len(r) \in Nat
      /\ \A i \in 1 .. Len(t) : t[i] \in Rows /\ Named(t[i], 0)
      /\ \A i \in 1 .. Len(r) : r[i] \in Rows
  BY DEF Bank, Shape, DramRow, OtherRow
<1>3. \A i \in 1 .. Len(r) : r[i].at \in Nat /\ r[i].n \in Nat /\ r[i].n > 0
  BY <1>2 DEF Rows
<1>4. \A i \in 1 .. Len(r) : InBank1(r[i]) /\ r[i].at # 0 /\ DramRow(r[i]) /\ ~InBank0(r[i])
  <2> TAKE i \in 1 .. Len(r)
  <2>1. InBank1(r[i]) /\ Named(r[i], no)
    BY DEF Bank, InBank1
  <2>2. r[i].at # 0 /\ ~InBank0(r[i])
    BY <1>1, <1>3, <2>1 DEF InBank0, InBank1
  <2>3. Named(r[i], 0)
    BY <2>1 DEF Named
  <2> QED  BY <2>1, <2>2, <2>3 DEF Bank, DramRow
<1>5. ASSUME NEW i \in 1 .. Len(t), NEW j \in 1 .. Len(r)
      PROVE  Apart(t[i], r[j])
  <2>1. PICK m \in Nat : m >= no /\ r[j].name = <<"dram", m>>
    BY DEF Bank, Named
  <2>2. t[i].name # <<"dram", m>>
    BY <2>1 DEF Below
  <2> QED  BY <1>4, <2>1, <2>2 DEF Apart
<1>6. \A i, j \in 1 .. Len(r) : i < j => Apart(r[i], r[j])
  BY <1>4 DEF Bank, Apart
<1>6a. t \in Seq(Rows) /\ r \in Seq(Rows)
  BY <1>2
<1> DEFINE w == t \o r
<1>6b. w \in Seq(Rows) /\ Joined(w, t, r)
  BY <1>6a, Behind
<1> HIDE DEF w
<1>7. /\ w \in Seq(Rows) /\ Len(w) = Len(t) + Len(r)
      /\ \A i \in 1 .. Len(t) : w[i] = t[i]
      /\ \A i \in 1 .. Len(w) : i \in 1 .. Len(t) \/ (i - Len(t) \in 1 .. Len(r) /\ w[i] = r[i - Len(t)])
  BY <1>6b DEF Joined
<1>8. \A i \in 1 .. Len(w) : w[i].at # 0 /\ DramRow(w[i])
  BY <1>4, <1>7 DEF Shape, OtherRow
<1>9. ASSUME NEW i \in 1 .. Len(w), NEW j \in 1 .. Len(w), i < j
      PROVE  Apart(w[i], w[j])
  <2>1. CASE j \in 1 .. Len(t)
    <3>1. i \in 1 .. Len(t)
      BY <1>2, <1>9, <2>1
    <3>2. Apart(t[i], t[j])
      BY <1>9, <2>1, <3>1 DEF Shape
    <3> QED  BY <1>7, <2>1, <3>1, <3>2
  <2>2. CASE j \notin 1 .. Len(t)
    <3>1. j - Len(t) \in 1 .. Len(r) /\ w[j] = r[j - Len(t)]
      BY <1>7, <2>2
    <3>2. CASE i \in 1 .. Len(t)
      BY <1>5, <1>7, <3>1, <3>2
    <3>3. CASE i \notin 1 .. Len(t)
      <4>1. i - Len(t) \in 1 .. Len(r) /\ w[i] = r[i - Len(t)]
        BY <1>7, <3>3
      <4>2. i - Len(t) < j - Len(t)
        BY <1>2, <1>7, <1>9
      <4> QED  BY <1>6, <3>1, <4>1, <4>2
    <3> QED  BY <3>2, <3>3
  <2> QED  BY <2>1, <2>2
<1>10. w[1] = t[1] /\ InBank0(t[1]) /\ t[1].at + t[1].n = RamTop
       /\ (t[1].name = <<"dram", 0>> => t[1].at = Base)
  BY <1>2, <1>7 DEF Shape
<1> QED  BY <1>7, <1>8, <1>9, <1>10 DEF Shape, w

(* And what is not memory behind all of them.                              *)
LEMMA OthersBehind ==
  ASSUME NEW t, NEW q, Shape(t), q \in Seq(Rows), \A i \in 1 .. Len(q) : OtherRow(q[i])
  PROVE  Shape(t \o q)
<1>1. t \in Seq(Rows) /\ Len(t) \in Nat /\ Len(q) \in Nat
  BY DEF Shape
<1> DEFINE w == t \o q
<1>1a. w \in Seq(Rows) /\ Joined(w, t, q)
  BY <1>1, Behind
<1> HIDE DEF w
<1>2. /\ w \in Seq(Rows) /\ Len(w) = Len(t) + Len(q)
      /\ \A i \in 1 .. Len(t) : w[i] = t[i]
      /\ \A i \in 1 .. Len(w) : i \in 1 .. Len(t) \/ (i - Len(t) \in 1 .. Len(q) /\ w[i] = q[i - Len(t)])
  BY <1>1a DEF Joined
<1>3. \A i \in 1 .. Len(w) : w[i].at # 0 => i \in 1 .. Len(t)
  BY <1>2 DEF OtherRow
<1>4. \A i \in 1 .. Len(w) : (w[i].at # 0 /\ DramRow(w[i])) \/ OtherRow(w[i])
  BY <1>2 DEF Shape
<1>5. ASSUME NEW i \in 1 .. Len(w), NEW j \in 1 .. Len(w), i < j, w[j].at # 0
      PROVE  w[i].at # 0 /\ Apart(w[i], w[j])
  <2>1. j \in 1 .. Len(t) /\ i \in 1 .. Len(t)
    BY <1>1, <1>3, <1>5
  <2>2. w[i] = t[i] /\ w[j] = t[j]
    BY <1>2, <2>1
  <2> QED  BY <1>5, <2>1, <2>2 DEF Shape
<1>6. ASSUME Len(w) > 0, w[1].at # 0
      PROVE  1 \in 1 .. Len(t) /\ w[1] = t[1] /\ Len(t) > 0
  <2>1. 1 \in 1 .. Len(w)
    BY <1>1, <1>2, <1>6
  <2> QED  BY <1>1, <1>2, <1>3, <1>6, <2>1
<1>7. Len(w) > 0 /\ w[1].at # 0 =>
       InBank0(w[1]) /\ w[1].at + w[1].n = RamTop /\ (w[1].name = <<"dram", 0>> => w[1].at = Base)
  BY <1>6 DEF Shape
<1> QED  BY <1>2, <1>4, <1>5, <1>7 DEF Shape, w


\* The entries still to be added begin with those of the banks.
Kinds == {"dram", "plain", "aligned", "cpu", "uname", "dmesg", "pt", "wlan"}
Drams(q, d) ==
  /\ q \in Seq(Kinds) /\ d \in 0 .. 2 /\ d <= Len(q)
  /\ \A i \in 1 .. Len(q) : q[i] = "dram" <=> i <= d

(* What is left of the entries when the first had its turn.                *)
LEMMA DramsTail ==
  ASSUME NEW q, NEW d, Drams(q, d), q # <<>>
  PROVE  /\ Head(q) = "dram" => d # 0 /\ Drams(Tail(q), d - 1)
         /\ Head(q) # "dram" => d = 0 /\ Drams(Tail(q), 0)
<1>1. q \in Seq(Kinds) /\ Len(q) \in Nat /\ d \in 0 .. 2 /\ d <= Len(q)
  BY DEF Drams
<1> DEFINE r == Tail(q)
<1>2. /\ r \in Seq(Kinds) /\ Len(r) = Len(q) - 1
      /\ \A i \in 1 .. Len(r) : r[i] = q[i+1]
  BY <1>1, HeadTailProperties, Zenon
<1>2a. Head(q) = q[1]
  OBVIOUS
<1>3. Len(q) > 0
  BY <1>1, EmptySeq
<1> HIDE DEF r
<1>4. q[1] = "dram" <=> 1 <= d
  BY <1>1, <1>3 DEF Drams
<1>5. \A i \in 1 .. Len(r) : r[i] = "dram" <=> i + 1 <= d
  <2> TAKE i \in 1 .. Len(r)
  <2>1. i + 1 \in 1 .. Len(q)
    BY <1>1, <1>2
  <2> QED  BY <1>2, <2>1 DEF Drams
<1>6. CASE d = 0
  BY <1>1, <1>2, <1>2a, <1>3, <1>4, <1>5, <1>6 DEF Drams, r
<1>7. CASE d # 0
  BY <1>1, <1>2, <1>2a, <1>3, <1>4, <1>5, <1>7 DEF Drams, r
<1> QED  BY <1>6, <1>7

(* The banks come first in what is wanted (board_dumpinfo).                *)
LEMMA DramsWanted ==
  ASSUME board.banks \in {1, 2}
  PROVE  Drams(Wanted, IF level = "mini" THEN 0 ELSE board.banks)
<1>1. Drams(Minis, 0)
  BY DEF Drams, Minis, Kinds
<1>2. Drams(Fulls, board.banks)
  <2>1. CASE board.banks = 1
    BY <2>1 DEF Drams, Fulls, Kinds
  <2>2. CASE board.banks = 2
    BY <2>2 DEF Drams, Fulls, Kinds
  <2> QED  BY <2>1, <2>2
<1> DEFINE w == Fulls \o Minis
<1>3. /\ Fulls \in Seq(Kinds) /\ Minis \in Seq(Kinds)
  BY <1>1, <1>2 DEF Drams
<1>3a. w \in Seq(Kinds) /\ Joined(w, Fulls, Minis)
  BY <1>3, Behind
<1> HIDE DEF w
<1>4. /\ w \in Seq(Kinds) /\ Len(w) = Len(Fulls) + Len(Minis)
      /\ Len(Fulls) \in Nat /\ Len(Minis) \in Nat
      /\ \A i \in 1 .. Len(Fulls) : w[i] = Fulls[i]
      /\ \A i \in 1 .. Len(w) : i \in 1 .. Len(Fulls)
            \/ (i - Len(Fulls) \in 1 .. Len(Minis) /\ w[i] = Minis[i - Len(Fulls)])
  BY <1>3a DEF Joined
<1>5. Drams(w, board.banks)
  <2>1. board.banks \in 0 .. 2 /\ board.banks <= Len(Fulls)
    BY <1>2 DEF Drams
  <2>2. ASSUME NEW i \in 1 .. Len(w)
        PROVE  w[i] = "dram" <=> i <= board.banks
    <3>1. CASE i \in 1 .. Len(Fulls)
      BY <1>2, <1>4, <3>1 DEF Drams
    <3>2. CASE i \notin 1 .. Len(Fulls)
      BY <1>1, <1>4, <2>1, <3>2 DEF Drams
    <3> QED  BY <3>1, <3>2
  <2> QED  BY <1>4, <2>1, <2>2 DEF Drams
<1> QED  BY <1>1, <1>2, <1>5 DEF Wanted, w

\* The table while it is made: empty, or the first bank, or all of the memory.
FirstDone ==
  /\ Shape(table) /\ Len(table) > 0
  /\ \A i \in 1 .. Len(table) : InBank0(table[i]) /\ table[i].at # 0
  /\ left > 0 => Below(table, lastNo)

Tabled(d) ==
  /\ Drams(todo, d)
  /\ \/ d = board.banks /\ left = board.ram /\ lastNo = 0 /\ table = <<>>
     \/ /\ d = 1 /\ board.banks = 2 /\ left = board.ram - Size0 /\ Size0 > 0 /\ lastNo \in Nat
        /\ to # "flash" => FirstDone
     \/ d = 0 /\ (to # "flash" => Shape(table))

-----------------------------------------------------------------------------
(* A table without entries.                                                *)
LEMMA EmptyShape == Shape(<<>>)
BY DEF Shape

(* An entry that is not a part is the whole bank.                          *)
LEMMA WholeBank ==
  ASSUME NEW a \in Nat \ {0}, NEW n \in Nat \ {0}, NEW no \in Nat, n <= Limit, comp \in BOOLEAN
  PROVE  LET r == << DumpEntry(<<"dram", no>>, a, n, comp) >>
         IN Bank(r, a, n, no) /\ Covers(r, a, n) /\ Below(r, no + 1)
<1> DEFINE e == DumpEntry(<<"dram", no>>, a, n, comp)
           r == << e >>
<1>1. <<"dram", no>> \in EntryNames
  BY DEF EntryNames
<1>2. /\ e.name = <<"dram", no>> /\ e.at = a /\ e.n = n /\ e.gz = comp
  BY DEF DumpEntry
<1>3. e \in Rows
  BY <1>1 DEF DumpEntry, Rows
<1>4. Named(e, no)
  BY <1>2 DEF Named
<1> HIDE DEF e
<1>5. r \in Seq(Rows) /\ Len(r) = 1 /\ r[1] = e
  BY <1>3
<1> HIDE DEF r
<1>6. Bank(r, a, n, no)
  BY <1>2, <1>4, <1>5 DEF Bank
<1>7. Covers(r, a, n)
  BY <1>2, <1>5 DEF Covers
<1>8. Below(r, no + 1)
  <2> SUFFICES ASSUME NEW m \in Nat, e.name = <<"dram", m>> PROVE m < no + 1
    BY <1>5 DEF Below
  <2>1. e.name[2] = m /\ e.name[2] = no
    BY <1>2
  <2> QED  BY <2>1
<1> QED  BY <1>6, <1>7, <1>8 DEF r, e

(* How a bank is split: into files of one size at most.                    *)
LEMMA SplitIs ==
  ASSUME board \in Boards, NEW n \in Nat \ {0}
  PROVE  /\ Split(n) \in Nat \ {0} /\ Split(n) <= Limit
         /\ n # board.ram => Split(n) = Limit
<1>1. Limit \in Nat /\ Limit > 1 /\ board.ram > 1
  BY Banks
<1>2. CASE comp /\ n <= Limit /\ n = board.ram
  <2>1. n \div 2 \in Nat /\ n \div 2 <= n /\ n \div 2 > 0
    BY <1>1, <1>2
  <2> QED  BY <1>1, <1>2, <2>1 DEF Split
<1>3. CASE ~(comp /\ n <= Limit /\ n = board.ram)
  BY <1>1, <1>3 DEF Split
<1> QED  BY <1>2, <1>3

\* The bank whose turn it is (AddDram): its size, address and first number.
DramSize == IF board.banks = 1 THEN board.ram
            ELSE IF left = board.ram THEN Size0 ELSE left
DramAt == IF left = board.ram THEN Base ELSE board.base1
DramNo == IF board.banks = 1 THEN 0 ELSE lastNo

(* What is added to the table for a bank.                                  *)
LEMMA DramRows ==
  ASSUME board \in Boards, comp \in BOOLEAN, left \in Nat, lastNo \in Nat, AddDram,
         DramSize \in Nat, DramAt \in Nat \ {0}
  PROVE  /\ DramSize > 0 /\ left' = left - DramSize /\ lastNo' \in Nat
         /\ \E r : /\ Bank(r, DramAt, DramSize, DramNo)
                   /\ lastNo = 0 /\ DramSize # board.ram /\ DramSize % Limit = 0 => Below(r, lastNo')
                   /\ to # "flash" => table' = table \o r
                   /\ ~short' => Covers(r, DramAt, DramSize)
<1> DEFINE n == DramSize
           a == DramAt
           no == DramNo
<1>1. /\ n > 0 /\ left' = left - n
      /\ lastNo' = IF n > Split(n) THEN n \div Split(n) ELSE lastNo + 1
      /\ \/ n > Split(n) /\ table' = Added("dram", Parts(a, n, Split(n), no))
         \/ n > Split(n) /\ to # "flash" /\ table' = table \o << Head(Parts(a, n, Split(n), no)) >>
         \/ n <= Split(n) /\ table' = Added("dram", << DumpEntry(<<"dram", no>>, a, n, comp) >>)
  BY Zenon DEF AddDram, DramSize, DramAt, DramNo
<1>1a. \/ n > Split(n) /\ table' = Added("dram", Parts(a, n, Split(n), no))
       \/ n > Split(n) /\ to # "flash" /\ table' = table \o << Head(Parts(a, n, Split(n), no)) >> /\ short'
       \/ n <= Split(n) /\ table' = Added("dram", << DumpEntry(<<"dram", no>>, a, n, comp) >>)
  BY Zenon DEF AddDram, DramSize, DramAt, DramNo
<1>2. n \in Nat \ {0} /\ a \in Nat \ {0} /\ no \in Nat /\ (lastNo = 0 => no = 0)
  BY <1>1 DEF DramNo
<1> HIDE DEF n, a, no
<1>3. PICK s : s = Split(n)
  OBVIOUS
<1>4. s \in Nat \ {0} /\ s <= Limit /\ Limit \in Nat /\ (n # board.ram => s = Limit)
  BY <1>2, <1>3, SplitIs, Banks
<1>5. Added("dram", Parts(a, n, s, no))
        = IF to = "flash" THEN table \o <<>> ELSE table \o Parts(a, n, s, no)
  BY DEF Added, ToFlash
<1>6. Added("dram", << DumpEntry(<<"dram", no>>, a, n, comp) >>)
        = IF to = "flash" THEN table \o <<>> ELSE table \o << DumpEntry(<<"dram", no>>, a, n, comp) >>
  BY DEF Added, ToFlash
<1>7. ASSUME n > s
      PROVE  /\ n \div s \in Nat /\ lastNo' = n \div s
             /\ Bank(Parts(a, n, s, no), a, n, no) /\ Covers(Parts(a, n, s, no), a, n)
             /\ n % s = 0 => Below(Parts(a, n, s, no), no + (n \div s))
             /\ Bank(<< Head(Parts(a, n, s, no)) >>, a, n, no)
             /\ n % s = 0 => Below(<< Head(Parts(a, n, s, no)) >>, no + (n \div s))
  <2>1. n \div s \in Nat
    BY <1>2, <1>4
  <2>2. lastNo' = n \div s
    BY <1>1, <1>3, <1>7
  <2> QED  BY <1>2, <1>4, <1>7, <2>1, <2>2, PartsAre
<1>8. ASSUME ~(n > s)
      PROVE  /\ lastNo' = lastNo + 1
             /\ Bank(<< DumpEntry(<<"dram", no>>, a, n, comp) >>, a, n, no)
             /\ Covers(<< DumpEntry(<<"dram", no>>, a, n, comp) >>, a, n)
             /\ Below(<< DumpEntry(<<"dram", no>>, a, n, comp) >>, no + 1)
  <2>1. n <= Limit
    BY <1>2, <1>4, <1>8
  <2> QED  BY <1>1, <1>2, <1>3, <1>8, <2>1, WholeBank
<1>9. \E r : /\ Bank(r, a, n, no)
             /\ lastNo = 0 /\ n # board.ram /\ n % Limit = 0 => Below(r, lastNo')
             /\ to # "flash" => table' = table \o r
             /\ ~short' => Covers(r, a, n)
  <2>1. CASE n > s /\ table' = Added("dram", Parts(a, n, s, no))
    <3> DEFINE r == Parts(a, n, s, no)
    <3>1. Bank(r, a, n, no) /\ Covers(r, a, n) /\ (to # "flash" => table' = table \o r)
      BY <1>5, <1>7, <2>1
    <3>2. lastNo = 0 /\ n # board.ram /\ n % Limit = 0 => Below(r, lastNo')
      <4> HIDE DEF r
      <4>1. ASSUME lastNo = 0, n # board.ram, n % Limit = 0
            PROVE  n % s = 0 /\ no + (n \div s) = lastNo'
        BY <1>2, <1>4, <1>7, <2>1, <4>1
      <4> USE DEF r
      <4> QED  BY <1>7, <2>1, <4>1, Zenon
    <3> HIDE DEF r
    <3> QED  BY <3>1, <3>2
  <2>2. CASE n > s /\ to # "flash" /\ table' = table \o << Head(Parts(a, n, s, no)) >> /\ short'
    <3> DEFINE r == << Head(Parts(a, n, s, no)) >>
    <3>1. Bank(r, a, n, no) /\ table' = table \o r
      BY <1>7, <2>2
    <3>2. lastNo = 0 /\ n # board.ram /\ n % Limit = 0 => Below(r, lastNo')
      <4> HIDE DEF r
      <4>1. ASSUME lastNo = 0, n # board.ram, n % Limit = 0
            PROVE  n % s = 0 /\ no + (n \div s) = lastNo'
        BY <1>2, <1>4, <1>7, <2>2, <4>1
      <4> USE DEF r
      <4> QED  BY <1>7, <2>2, <4>1, Zenon
    <3> HIDE DEF r
    <3> QED  BY <2>2, <3>1, <3>2
  <2>3. CASE ~(n > s) /\ table' = Added("dram", << DumpEntry(<<"dram", no>>, a, n, comp) >>)
    <3> DEFINE r == << DumpEntry(<<"dram", no>>, a, n, comp) >>
    <3>1. Bank(r, a, n, no) /\ Covers(r, a, n) /\ (to # "flash" => table' = table \o r)
      BY <1>6, <1>8, <2>3
    <3>2. lastNo = 0 => Below(r, lastNo')
      <4>1. lastNo = 0 => no + 1 = lastNo'
        BY <1>2, <1>8, <2>3
      <4> QED  BY <1>8, <2>3, <4>1, Zenon
    <3> HIDE DEF r
    <3> QED  BY <3>1, <3>2
  <2>4. n <= s <=> ~(n > s)
    BY <1>2, <1>4
  <2>5. \/ n > s /\ table' = Added("dram", Parts(a, n, s, no))
        \/ n > s /\ to # "flash" /\ table' = table \o << Head(Parts(a, n, s, no)) >> /\ short'
        \/ n <= s /\ table' = Added("dram", << DumpEntry(<<"dram", no>>, a, n, comp) >>)
    BY <1>1a, <1>3, Zenon
  <2> QED  BY <2>1, <2>2, <2>3, <2>4, <2>5, Zenon
<1>10. lastNo' \in Nat
  <2>1. n > s => lastNo' \in Nat
    BY <1>7
  <2>2. ~(n > s) => lastNo' = lastNo + 1
    BY <1>8
  <2> QED  BY <2>1, <2>2
<1> QED  BY <1>1, <1>9, <1>10, Zenon DEF n, a, no

(* A shape depends on the board and on the compression only.               *)
LEMMA ShapeStays ==
  ASSUME board' = board, comp' = comp, NEW t, Shape(t)
  PROVE  Shape(t)'
BY DEF Shape, DramRow, OtherRow, Apart, InBank0, InBank1, RamTop, Size0

(* So does that of the table.                                              *)
LEMMA ShapeNext ==
  ASSUME board' = board, comp' = comp, Shape(table')
  PROVE  Shape(table)'
<1>1. PICK t : t = table'
  OBVIOUS
<1>2. Shape(t)'
  BY <1>1, ShapeStays
<1> QED  BY <1>1, <1>2

(* The table behind the first bank, after the step that put it there.      *)
LEMMA FirstNext ==
  ASSUME board' = board, comp' = comp, Shape(table'), Len(table') > 0,
         \A i \in 1 .. Len(table') : InBank0(table'[i]) /\ table'[i].at # 0,
         left' > 0 => Below(table', lastNo')
  PROVE  FirstDone'
<1>1. Shape(table)'
  BY ShapeNext
<1>2. \A i \in 1 .. Len(table') : InBank0(table[i])'
  BY DEF InBank0, RamTop, Size0, Base
<1>3. left' > 0 => Below(table, lastNo)'
  BY DEF Below
<1> QED  BY <1>1, <1>2, <1>3 DEF FirstDone

(* The banks are added one behind the other.                               *)
LEMMA DramTabled ==
  ASSUME board \in Boards, comp \in BOOLEAN, NEW d, Tabled(d), AddDram
  PROVE  d # 0 /\ Tabled(d - 1)'
<1>1. /\ todo # <<>> /\ Head(todo) = "dram" /\ todo' = Tail(todo)
      /\ board' = board /\ to' = to /\ comp' = comp
  BY DEF AddDram, TableStep, cfgVars
<1>2. d # 0 /\ Drams(todo', d - 1) /\ d \in 0 .. 2
  <2>1. Drams(todo, d)
    BY DEF Tabled
  <2> QED  BY <1>1, <2>1, DramsTail DEF Drams
<1>2a. Drams(todo, d - 1)'
  BY <1>2 DEF Drams
<1>3. /\ Limit \in Nat /\ Limit > 1 /\ board.ram \in Nat /\ board.ram > 1
      /\ Size0 \in Nat /\ Size0 <= board.ram /\ Base = 3 /\ board.base1 \in Nat
      /\ board.banks \in {1, 2} /\ (board.banks = 1 => Size0 = board.ram)
      /\ board.ram > Size0 => Size0 % Limit = 0 /\ board.base1 >= RamTop + Limit
      /\ RamTop = 3 + Size0
  BY Banks
<1>4. CASE d = board.banks /\ left = board.ram /\ lastNo = 0 /\ table = <<>>
  <2>1. DramSize = Size0 /\ DramAt = Base /\ DramNo = 0
    BY <1>3, <1>4 DEF DramSize, DramAt, DramNo
  <2>2. PICK r : /\ Bank(r, Base, Size0, 0)
                 /\ Size0 # board.ram /\ Size0 % Limit = 0 => Below(r, lastNo')
                 /\ to # "flash" => table' = table \o r
    BY <1>3, <1>4, <2>1, DramRows
  <2>3. Size0 > 0 /\ left' = left - Size0 /\ lastNo' \in Nat
    BY <1>3, <1>4, <2>1, DramRows
  <2>4. Shape(r) /\ \A i \in 1 .. Len(r) : InBank0(r[i]) /\ r[i].at # 0
    BY <2>2, FirstBank
  <2>5. r \in Seq(Rows) /\ Len(r) > 0
    BY <2>2 DEF Bank
  <2>6. to # "flash" => table' = r
    BY <1>4, <2>2, <2>5
  <2>7. CASE board.banks = 1
    <3>1. to' # "flash" => Shape(table)'
      BY <1>1, <2>4, <2>6, ShapeNext
    <3>2. Drams(todo, 0)'
      BY <1>2a, <1>4, <2>7
    <3>3. Tabled(0)'
      BY <3>1, <3>2 DEF Tabled
    <3> QED  BY <1>4, <2>7, <3>3
  <2>8. CASE board.banks = 2
    <3>1. left' = board.ram - Size0 /\ (left' > 0 => Below(r, lastNo'))
      BY <1>3, <1>4, <2>2, <2>3
    <3>2. to' # "flash" => FirstDone'
      BY <1>1, <2>4, <2>5, <2>6, <3>1, FirstNext
    <3>3. Drams(todo, 1)'
      BY <1>2a, <1>4, <2>8
    <3>4. /\ (board.banks)' = 2 /\ left' = (board.ram - Size0)' /\ Size0' > 0
      BY <1>1, <2>3, <2>8, <3>1 DEF Size0
    <3>5. Tabled(1)'
      BY <2>3, <3>2, <3>3, <3>4 DEF Tabled
    <3> QED  BY <1>4, <2>8, <3>5
  <2> QED  BY <1>3, <2>7, <2>8
<1>5. CASE /\ d = 1 /\ board.banks = 2 /\ left = board.ram - Size0 /\ Size0 > 0 /\ lastNo \in Nat
           /\ to # "flash" => FirstDone
  <2>1. left # board.ram /\ left \in Nat
    BY <1>3, <1>5
  <2>2. DramSize = left /\ DramAt = board.base1 /\ DramNo = lastNo
    BY <1>5, <2>1 DEF DramSize, DramAt, DramNo
  <2>3. board.base1 # 0
    <3>1. left > 0
      <4>1. DramSize > 0
        BY Zenon DEF AddDram, DramSize
      <4> QED  BY <2>2, <4>1
    <3> QED  BY <1>3, <1>5, <3>1
  <2>4. PICK r : /\ Bank(r, board.base1, left, lastNo)
                 /\ to # "flash" => table' = table \o r
    BY <1>3, <1>5, <2>1, <2>2, <2>3, DramRows
  <2>5. left > 0
    BY <1>3, <1>5, <2>1, <2>2, <2>3, DramRows
  <2>6. to # "flash" => Shape(table')
    <3> SUFFICES ASSUME to # "flash" PROVE Shape(table \o r)
      BY <2>4
    <3>1. FirstDone /\ board.ram > Size0 /\ Bank(r, board.base1, board.ram - Size0, lastNo)
      BY <1>3, <1>5, <2>4, <2>5
    <3> QED  BY <1>5, <2>5, <3>1, SecondBank DEF FirstDone
  <2>7. to' # "flash" => Shape(table)'
    BY <1>1, <2>6, ShapeNext
  <2>8. Drams(todo, 0)'
    BY <1>2a, <1>5
  <2>9. Tabled(0)'
    BY <2>7, <2>8 DEF Tabled
  <2> QED  BY <1>5, <2>9
<1> QED  BY <1>2, <1>4, <1>5 DEF Tabled

(* The rest follows the memory.                                            *)
LEMMA OtherTabled ==
  ASSUME board \in Boards, NEW d, Tabled(d), NEW kind, TableStep(kind), kind # "dram",
         NEW q, q \in Seq(Rows), \A i \in 1 .. Len(q) : OtherRow(q[i]),
         to # "flash" => table' = table \o q
  PROVE  Tabled(0)'
<1>1. /\ todo # <<>> /\ Head(todo) = kind /\ todo' = Tail(todo)
      /\ board' = board /\ to' = to /\ comp' = comp
  BY DEF TableStep, cfgVars
<1>2. d = 0 /\ Drams(todo', 0)
  <2>1. Drams(todo, d)
    BY DEF Tabled
  <2> QED  BY <1>1, <2>1, DramsTail
<1>3. Drams(todo, 0)'
  BY <1>2 DEF Drams
<1>4. board.banks # 0
  BY Banks
<1>5. to # "flash" => Shape(table)
  BY <1>2, <1>4 DEF Tabled
<1>6. to # "flash" => Shape(table')
  BY <1>5, OthersBehind
<1>7. to' # "flash" => Shape(table)'
  BY <1>1, <1>6, ShapeNext
<1> QED  BY <1>3, <1>7 DEF Tabled

(* A bank that is empty adds nothing.                                      *)
LEMMA NoDramTabled ==
  ASSUME board \in Boards, NEW d, Tabled(d), NoDram
  PROVE  Tabled(0)'
<1>1. /\ todo # <<>> /\ Head(todo) = "dram" /\ todo' = Tail(todo) /\ left = 0 /\ table' = table
      /\ board' = board /\ to' = to /\ comp' = comp
  BY DEF NoDram, TableStep, cfgVars
<1>2. d # 0 /\ Drams(todo', d - 1)
  <2>1. Drams(todo, d)
    BY DEF Tabled
  <2> QED  BY <1>1, <2>1, DramsTail
<1>3. board.ram # 0
  BY Banks
<1>4. d = 1 /\ (to # "flash" => Shape(table'))
  BY <1>1, <1>2, <1>3 DEF Tabled, FirstDone
<1>5. Drams(todo, 0)'
  BY <1>2, <1>4 DEF Drams
<1>6. to' # "flash" => Shape(table)'
  BY <1>1, <1>4, ShapeNext
<1> QED  BY <1>5, <1>6 DEF Tabled

(* Nor does an empty sequence.                                             *)
LEMMA NothingAdded == ASSUME NEW t, t \in Seq(Rows) PROVE t \o <<>> = t
OBVIOUS

(* Nor are the entries of the board that are not banks memory.             *)
LEMMA PlainTabled ==
  ASSUME board \in Boards, NEW d, Tabled(d), NEW kind \in {"plain", "aligned", "cpu"}, AddPlain(kind)
  PROVE  Tabled(0)'
<1> DEFINE e == DumpEntry(<<kind>>, 0, 1, FALSE)
           q == << e >>
<1>1. OtherRow(e) /\ e \in Rows
  BY DEF DumpEntry, OtherRow, Rows, EntryNames
<1> HIDE DEF e
<1>2. q \in Seq(Rows) /\ Len(q) = 1 /\ q[1] = e
  BY <1>1
<1>3. to # "flash" => table' = table \o q
  BY DEF AddPlain, Added, e
<1>4. TableStep(kind) /\ kind # "dram"
  BY DEF AddPlain
<1> HIDE DEF q
<1>5. \A i \in 1 .. Len(q) : OtherRow(q[i])
  BY <1>1, <1>2
<1> QED  BY <1>2, <1>3, <1>4, <1>5, OtherTabled

(* The entry of a TLV.                                                     *)
LEMMA TlvRow ==
  ASSUME tlvs \in Lists, NEW j \in 1 .. Len(tlvs)
  PROVE  OtherRow(TlvEntry(j)) /\ TlvEntry(j) \in Rows
<1> DEFINE R == [t : {"uname", "dmesg", "pt", "mod", "info"},
                 who : {"host", "nss", "live"}, n : Nat \ {0}]
<1>0. tlvs \in Seq(R)
  BY DumpAssumption, Zenon
<1>1. tlvs[j].n \in Nat \ {0} /\ j \in Nat
  <2> HIDE DEF R
  <2>1. tlvs[j] \in R /\ j \in Nat
    BY <1>0
  <2> QED  BY <2>1 DEF R
<1>2. <<"tlv", j>> \in EntryNames
  BY <1>1 DEF EntryNames
<1>3. OtherRow(TlvEntry(j))
  BY DEF OtherRow, TlvEntry, DumpEntry
<1>4. TlvEntry(j) \in Rows
  BY <1>1, <1>2 DEF TlvEntry, DumpEntry, Rows
<1> QED  BY <1>3, <1>4

(* The segments there is one of (wdt_extract_dump).                        *)
LEMMA SegmentTabled ==
  ASSUME board \in Boards, tlvs \in Lists, NEW d, Tabled(d), NEW kind \in {"uname", "dmesg", "pt"},
         AddSegment(kind)
  PROVE  Tabled(0)'
<1>1. TableStep(kind) /\ kind # "dram"
  BY DEF AddSegment
<1>2. CASE table' = table
  <2>1. d = 0
    <3>1. Drams(todo, d)
      BY DEF Tabled
    <3>2. todo # <<>> /\ Head(todo) # "dram"
      BY <1>1 DEF TableStep
    <3> QED  BY <3>1, <3>2, DramsTail
  <2>2. to # "flash" => Shape(table)
    <3>1. board.banks # 0
      BY Banks
    <3> QED  BY <2>1, <3>1 DEF Tabled
  <2>3. to # "flash" => table' = table \o <<>>
    BY <1>2, <2>2 DEF Shape
  <2>4. <<>> \in Seq(Rows) /\ \A i \in 1 .. Len(<<>>) : OtherRow(<<>>[i])
    OBVIOUS
  <2> HIDE DEF Shape
  <2> QED  BY <1>1, <2>3, <2>4, OtherTabled
<1>3. CASE \E j \in Tlvs({kind}) : table' = Added(kind, << TlvEntry(j) >>)
  <2>1. PICK j \in Tlvs({kind}) : table' = Added(kind, << TlvEntry(j) >>)
    BY <1>3
  <2>2. j \in 1 .. Len(tlvs)
    BY DEF Tlvs
  <2> DEFINE q == << TlvEntry(j) >>
  <2>3. OtherRow(TlvEntry(j)) /\ TlvEntry(j) \in Rows
    BY <2>2, TlvRow
  <2>4. q \in Seq(Rows) /\ Len(q) = 1 /\ q[1] = TlvEntry(j)
    BY <2>3
  <2>5. to # "flash" => table' = table \o q
    BY <2>1 DEF Added
  <2> HIDE DEF q
  <2>6. \A i \in 1 .. Len(q) : OtherRow(q[i])
    BY <2>3, <2>4
  <2> QED  BY <1>1, <2>4, <2>5, <2>6, OtherTabled
<1> QED  BY <1>2, <1>3 DEF AddSegment

(* The modules, however many (wdt_extract_dump for WLAN_MOD).              *)
LEMMA ModulesTabled ==
  ASSUME board \in Boards, tlvs \in Lists, NEW d, Tabled(d), AddModules
  PROVE  Tabled(0)'
<1>1. TableStep("wlan")
  BY DEF AddModules
<1>2. PICK p \in InOrder(Modules) : table' = Added("wlan", [i \in DOMAIN p |-> TlvEntry(p[i])])
  BY DEF AddModules
<1>3. PICK n \in 0 .. Len(tlvs) : p \in [1 .. n -> Modules]
  BY DEF InOrder
<1>4. Modules \subseteq 1 .. Len(tlvs)
  BY DEF Modules, Tlvs
<1> DEFINE q == [i \in DOMAIN p |-> TlvEntry(p[i])]
<1>5. /\ q = [i \in 1 .. n |-> TlvEntry(p[i])] /\ n \in Nat
      /\ \A i \in 1 .. n : OtherRow(TlvEntry(p[i])) /\ TlvEntry(p[i]) \in Rows
  <2>1. DOMAIN p = 1 .. n
    BY <1>3
  <2>2. \A i \in 1 .. n : p[i] \in 1 .. Len(tlvs)
    BY <1>3, <1>4
  <2>3. n \in Nat
    BY <1>3, DumpAssumption
  <2> QED  BY <2>1, <2>2, <2>3, TlvRow
<1>6. q \in Seq(Rows) /\ Len(q) = n /\ \A i \in 1 .. n : q[i] = TlvEntry(p[i])
  BY <1>5
<1>7. to # "flash" => table' = table \o q
  BY <1>2 DEF Added
<1> HIDE DEF q
<1>8. \A i \in 1 .. Len(q) : OtherRow(q[i])
  BY <1>5, <1>6
<1>9. "wlan" # "dram"
  OBVIOUS
<1> QED  BY <1>1, <1>6, <1>7, <1>8, <1>9, OtherTabled

\* The units of an entry, and those below an address or out of reach behind
\* the first bank.
Run(e) == e.at .. e.at + e.n - 1
Clear(e, a) == \A u \in Run(e) : u < a \/ u >= RamTop + Limit

(* A run inside a bank is memory; one of the second bank is far above the  *)
(* first.                                                                  *)
LEMMA RunUnits ==
  ASSUME board \in Boards, NEW e \in Rows, InBank0(e) \/ InBank1(e)
  PROVE  /\ Run(e) \subseteq Memory
         /\ InBank1(e) => e.at + e.n # RamTop /\ \A u \in Run(e) : u >= RamTop + Limit
<1>1. /\ RamTop \in Nat /\ board.base1 \in Nat /\ board.ram - Size0 \in Nat /\ Limit \in Nat
      /\ board.ram - Size0 > 0 => board.base1 >= RamTop + Limit
      /\ Limit > 1
  BY Banks
<1>2. PICK top \in Nat, b1 \in Nat, w \in Nat, s \in Nat :
        top = RamTop /\ b1 = board.base1 /\ w = board.ram - Size0 /\ s = Limit
  BY <1>1
<1>3. PICK a \in Nat, n \in Nat \ {0} : a = e.at /\ n = e.n
  BY DEF Rows
<1>4. /\ InBank0(e) => Base <= a /\ a + n <= top
      /\ InBank1(e) => b1 <= a /\ a + n <= b1 + w
      /\ Run(e) = a .. a + n - 1
  BY <1>2, <1>3 DEF InBank0, InBank1, Run
<1>5. \A u : u \in Nat /\ ((Base <= u /\ u < top) \/ (b1 <= u /\ u < b1 + w)) => u \in Memory
  BY <1>2, UnitsAre
<1>6. w > 0 => b1 >= top + s /\ s > 1
  BY <1>1, <1>2
<1>7. Base = 3
  BY DEF Base
<1>8. Run(e) \subseteq Memory
  <2>1. ASSUME NEW u \in a .. a + n - 1
        PROVE  u \in Nat /\ ((Base <= u /\ u < top) \/ (b1 <= u /\ u < b1 + w))
    BY <1>4, <1>7
  <2> QED  BY <1>4, <1>5, <2>1
<1>9. ASSUME InBank1(e) PROVE e.at + e.n # RamTop /\ \A u \in Run(e) : u >= RamTop + Limit
  <2>1. b1 <= a /\ a + n <= b1 + w /\ w > 0 /\ b1 >= top + s /\ s > 1
    BY <1>4, <1>6, <1>9
  <2>2. e.at + e.n = a + n /\ RamTop = top /\ Limit = s
    BY <1>2, <1>3
  <2>3. a + n # top /\ \A u \in a .. a + n - 1 : u >= top + s
    BY <2>1
  <2> QED  BY <1>4, <2>2, <2>3
<1> QED  BY <1>8, <1>9

(* Where the entries of a table are: all but the first are below it or in   *)
(* the second bank, and no two have one name.                              *)
LEMMA Geometry ==
  ASSUME board \in Boards, NEW t, Shape(t)
  PROVE  /\ Len(t) \in Nat /\ \A i \in 1 .. Len(t) : t[i] \in Rows
         /\ \A i \in 1 .. Len(t) : t[i].at # 0 =>
              /\ Run(t[i]) \subseteq Memory /\ t[i].n <= Limit /\ t[i].gz = comp
              /\ t[1].at # 0 /\ (t[i].at + t[i].n = RamTop <=> i = 1)
         /\ \A i \in 1 .. Len(t) : t[i].at = 0 => t[i].gz = FALSE /\ t[i].name # TempName
         /\ Len(t) > 0 /\ t[1].at # 0 =>
              /\ t[1].at \in Nat /\ Base <= t[1].at /\ t[1].at < RamTop
              /\ t[1].name = TempName => t[1].at = Base
<1>1. /\ RamTop \in Nat /\ Size0 \in Nat /\ board.base1 \in Nat /\ board.ram \in Nat /\ Base = 3
      /\ board.ram > Size0 => board.base1 > RamTop
      /\ board.ram >= Size0
  BY Banks
<1>2. t \in Seq(Rows) /\ Len(t) \in Nat /\ \A i \in 1 .. Len(t) : t[i] \in Rows
  BY DEF Shape
<1>3. \A i \in 1 .. Len(t) : t[i].at \in Nat /\ t[i].n \in Nat /\ t[i].n > 0
  BY <1>2 DEF Rows
<1>4. ASSUME NEW i \in 1 .. Len(t), t[i].at # 0
      PROVE  /\ Run(t[i]) \subseteq Memory /\ t[i].n <= Limit /\ t[i].gz = comp
             /\ t[1].at # 0 /\ (t[i].at + t[i].n = RamTop <=> i = 1)
  <2>1. DramRow(t[i]) /\ t[i].at \in Nat /\ t[i].n \in Nat /\ t[i].n > 0
    BY <1>3, <1>4 DEF Shape, OtherRow
  <2>2. Run(t[i]) \subseteq Memory
    BY <1>2, <2>1, RunUnits DEF DramRow
  <2>3. t[1].at # 0 /\ (i # 1 => Apart(t[1], t[i])) /\ 1 \in 1 .. Len(t)
    BY <1>2, <1>4 DEF Shape
  <2>4. t[1].at + t[1].n = RamTop /\ t[1].at \in Nat /\ t[1].n \in Nat /\ t[1].n > 0
    BY <1>2, <1>3, <2>3 DEF Shape
  <2>5. i # 1 => t[i].at + t[i].n # RamTop
    <3>1. CASE InBank0(t[i])
      BY <2>1, <2>3, <2>4, <3>1 DEF Apart
    <3>2. CASE InBank1(t[i])
      BY <1>2, <3>2, RunUnits
    <3> QED  BY <2>1, <3>1, <3>2 DEF DramRow
  <2> QED  BY <2>1, <2>2, <2>3, <2>4, <2>5 DEF DramRow
<1>5. ASSUME NEW i \in 1 .. Len(t), t[i].at = 0
      PROVE  t[i].gz = FALSE /\ t[i].name # TempName
  <2>1. OtherRow(t[i])
    BY <1>5 DEF Shape
  <2> QED  BY <2>1 DEF OtherRow, TempName
<1>6. ASSUME Len(t) > 0, t[1].at # 0
      PROVE  /\ t[1].at \in Nat /\ Base <= t[1].at /\ t[1].at < RamTop
             /\ t[1].name = TempName => t[1].at = Base
  <2>1. 1 \in 1 .. Len(t)
    BY <1>2, <1>6
  <2>2. t[1].at \in Nat /\ t[1].n \in Nat /\ t[1].n > 0
    BY <1>3, <2>1
  <2>3. /\ InBank0(t[1]) /\ t[1].at + t[1].n = RamTop
        /\ t[1].name = TempName => t[1].at = Base
    BY <1>6 DEF Shape, TempName
  <2> QED  BY <1>1, <2>2, <2>3 DEF InBank0
<1> QED  BY <1>2, <1>4, <1>5, <1>6

(* What ends at a place or before is clear of it.                          *)
LEMMA Under ==
  ASSUME NEW e \in Rows, NEW c \in Int, e.at + e.n <= c
  PROVE  Clear(e, c)
<1>1. PICK a \in Nat, n \in Nat : a = e.at /\ n = e.n
  BY DEF Rows
<1>2. a + n <= c
  BY <1>1
<1>3. \A u \in a .. a + n - 1 : u < c
  BY <1>2
<1> QED  BY <1>1, <1>3 DEF Clear, Run

(* The entries of the first bank but its last part leave the unit below    *)
(* the last part alone.                                                    *)
LEMMA Distances ==
  ASSUME board \in Boards, NEW t, Shape(t)
  PROVE  /\ \A i \in 1 .. Len(t) : i > 1 /\ t[i].at # 0 => Clear(t[i], t[1].at)
         /\ \A i, j \in 1 .. Len(t) : 1 < i /\ i < j /\ t[j].at # 0 => Clear(t[j], t[1].at - 1)
<1>1. /\ RamTop \in Nat /\ Size0 \in Nat /\ board.base1 \in Nat /\ board.ram \in Nat /\ Base = 3
      /\ board.ram > Size0 => board.base1 >= RamTop + Limit
      /\ board.ram >= Size0 /\ Limit \in Nat
  BY Banks
<1>2. t \in Seq(Rows) /\ Len(t) \in Nat /\ \A i \in 1 .. Len(t) : t[i] \in Rows
  BY DEF Shape
<1>3. \A i \in 1 .. Len(t) : t[i].at \in Nat /\ t[i].n \in Nat /\ t[i].n > 0
  BY <1>2 DEF Rows
<1>4. \A i \in 1 .. Len(t) : t[i].at # 0 => InBank0(t[i]) \/ InBank1(t[i])
  BY DEF Shape, DramRow, OtherRow
<1>5. \A i, j \in 1 .. Len(t) : i < j /\ t[j].at # 0 => t[i].at # 0 /\ Apart(t[i], t[j])
  BY DEF Shape
<1>6. \A i \in 1 .. Len(t) : InBank1(t[i]) => \A a : Clear(t[i], a)
  BY <1>2, RunUnits DEF Clear
<1>7. ASSUME NEW i \in 1 .. Len(t), i > 1, InBank0(t[i]), t[i].at # 0
      PROVE  t[i].at + t[i].n <= t[1].at /\ t[1].at \in Nat
  BY <1>2, <1>3, <1>5, <1>7 DEF Apart
<1>8. ASSUME NEW i \in 1 .. Len(t), i > 1, t[i].at # 0
      PROVE  Clear(t[i], t[1].at)
  <2>1. CASE InBank0(t[i])
    <3>1. t[i].at + t[i].n <= t[1].at /\ t[1].at \in Nat /\ t[i] \in Rows
      BY <1>2, <1>7, <1>8, <2>1
    <3> QED  BY <3>1, Under
  <2> QED  BY <1>4, <1>6, <1>8, <2>1
<1>9. ASSUME NEW i \in 1 .. Len(t), NEW j \in 1 .. Len(t), 1 < i, i < j, t[j].at # 0
      PROVE  Clear(t[j], t[1].at - 1)
  <2>1. CASE InBank0(t[j])
    <3>1. t[i].at # 0 /\ InBank0(t[i]) /\ t[j].at + t[j].n <= t[i].at
      BY <1>5, <1>9, <2>1 DEF Apart
    <3>2. t[i].at + t[i].n <= t[1].at /\ t[1].at \in Nat
      BY <1>7, <1>9, <3>1
    <3>3. t[j].at + t[j].n <= t[1].at - 1
      <4>0. /\ t[j].at \in Nat /\ t[j].n \in Nat /\ t[i].at \in Nat /\ t[i].n \in Nat /\ t[i].n > 0
            /\ t[1].at \in Nat
        BY <1>3, <3>2
      <4>1. PICK a \in Nat, n \in Nat, b \in Nat, k \in Nat, c \in Nat :
              a = t[j].at /\ n = t[j].n /\ b = t[i].at /\ k = t[i].n /\ c = t[1].at
        BY <4>0, Zenon
      <4>2. k > 0
        BY <4>0, <4>1
      <4>2a. a + n <= b
        BY <3>1, <4>1
      <4>2b. b + k <= c
        BY <3>2, <4>1
      <4>3. a + n <= c - 1
        BY <4>2, <4>2a, <4>2b
      <4> QED  BY <4>1, <4>3
    <3>4. t[j] \in Rows /\ t[1].at - 1 \in Int
      BY <1>2, <3>2
    <3> QED  BY <3>3, <3>4, Under
  <2> QED  BY <1>4, <1>6, <1>9, <2>1
<1> QED  BY <1>8, <1>9

(* No two entries have the name of one part.                               *)
LEMMA Distinct ==
  ASSUME NEW t, Shape(t), NEW i \in 1 .. Len(t), NEW j \in 1 .. Len(t), i # j, t[i].at # 0
  PROVE  t[i].name # t[j].name
<1>1. Len(t) \in Nat
  BY DEF Shape
<1>2. CASE t[j].at # 0
  BY <1>1, <1>2 DEF Shape, Apart
<1>3. CASE t[j].at = 0
  <2>1. OtherRow(t[j]) /\ DramRow(t[i])
    BY <1>3 DEF Shape, OtherRow
  <2> QED  BY <2>1 DEF OtherRow, DramRow, Named
<1> QED  BY <1>2, <1>3

\* The memory of the entries from one on, but for a unit, is as it was.
Keeps(t, m, i, x) ==
  \A j \in i .. Len(t) : t[j].at # 0 => \A u \in Run(t[j]) : u # x => m[u] = u

\* What is stored; and the file that saves the unit below the first entry.
Has(f, e) == e.name \in DOMAIN f /\ f[e.name] = Truth(e)
Stored(t, f, d) == \A i \in 1 .. d : t[i].at # 0 => Has(f, t[i])
Temp(f) == TempName \in DOMAIN f /\ Len(f[TempName]) \in Nat /\ Len(f[TempName]) <= Limit
Saved(t, f) ==
  Len(f[TempName]) = 1 /\ (t[1].at - 1 \in Memory => f[TempName][1] = t[1].at - 1)

(* A step that writes elsewhere keeps what is still to be dumped.          *)
LEMMA Untouched ==
  ASSUME board \in Boards, NEW t, Shape(t), NEW i \in Nat \ {0}, NEW x, NEW m, NEW w, NEW W,
         Keeps(t, m, i, x), \A u \in Memory \ W : w[u] = m[u],
         \A j \in i .. Len(t) : t[j].at # 0 => \A u \in Run(t[j]) : u # x => u \notin W
  PROVE  Keeps(t, w, i, x)
<1>1. ASSUME NEW j \in i .. Len(t), t[j].at # 0, NEW u \in Run(t[j]), u # x
      PROVE  w[u] = u
  <2>1. j \in 1 .. Len(t)
    BY Geometry
  <2>2. u \in Memory
    BY <1>1, <2>1, Geometry
  <2>3. u \notin W /\ m[u] = u
    BY <1>1 DEF Keeps
  <2> QED  BY <2>2, <2>3
<1> QED  BY <1>1 DEF Keeps

(* Fewer entries still to be dumped ask for less.                          *)
LEMMA KeepsLess ==
  ASSUME board \in Boards, NEW t, Shape(t), NEW i \in Nat \ {0}, NEW j \in Nat, i <= j,
         NEW m, NEW x, Keeps(t, m, i, 0)
  PROVE  Keeps(t, m, j, x)
<1>1. ASSUME NEW k \in j .. Len(t), t[k].at # 0, NEW u \in Run(t[k]), u # x
      PROVE  m[u] = u
  <2>1. k \in i .. Len(t) /\ k \in 1 .. Len(t)
    BY Geometry
  <2>2. Run(t[k]) \subseteq Memory
    BY <1>1, <2>1, Geometry
  <2>3. u # 0
    BY <2>2, UnitsAre, Banks
  <2> QED  BY <1>1, <2>1, <2>3 DEF Keeps
<1> QED  BY <1>1 DEF Keeps

(* The memory is the board's.                                              *)
LEMMA UnitsNext ==
  ASSUME board' = board
  PROVE  RamTop' = RamTop /\ Memory' = Memory
BY DEF RamTop, Memory, Size0

\* A stored file is not overwritten by one of another name.
LEMMA StoreIs ==
  ASSUME NEW name, NEW data, NEW f, f = Store(name, data)
  PROVE  /\ name \in DOMAIN f /\ f[name] = data
         /\ \A k \in DOMAIN files : k \in DOMAIN f /\ (k # name => f[k] = files[k])
BY DEF Store

(* A file under another name leaves those stored as they are.              *)
LEMMA StoredStays ==
  ASSUME NEW t, NEW d, Stored(t, files, d), NEW name, NEW data,
         \A i \in 1 .. d : t[i].at # 0 => t[i].name # name
  PROVE  Stored(t, Store(name, data), d)
<1> DEFINE f == Store(name, data)
<1>1. \A k \in DOMAIN files : k \in DOMAIN f /\ (k # name => f[k] = files[k])
  BY StoreIs
<1> HIDE DEF f
<1>2. Stored(t, f, d)
  BY <1>1 DEF Stored, Has
<1> QED  BY <1>2 DEF f

(* One more file is stored.                                                *)
LEMMA StoredMore ==
  ASSUME NEW t, NEW f, NEW d \in Nat, Stored(t, f, d), t[d+1].at # 0 => Has(f, t[d+1])
  PROVE  Stored(t, f, d + 1)
<1>1. \A i \in 1 .. d + 1 : i \in 1 .. d \/ i = d + 1
  OBVIOUS
<1> QED  BY <1>1 DEF Stored

(* The file of the entry at hand, when it holds the memory.                *)
LEMMA OneMore ==
  ASSUME NEW t, Shape(t), NEW d \in Nat, d < Len(t), Stored(t, files, d),
         t[d+1].at # 0, NEW data, data = Truth(t[d+1])
  PROVE  Has(Store(t[d+1].name, data), t[d+1]) /\ Stored(t, Store(t[d+1].name, data), d)
<1> DEFINE name == t[d+1].name
<1>1. d + 1 \in 1 .. Len(t) /\ Len(t) \in Nat
  BY DEF Shape
<1>2. \A i \in 1 .. d : t[i].at # 0 => t[i].name # name
  BY <1>1, Distinct
<1> HIDE DEF name
<1>3. Stored(t, Store(name, data), d)
  BY <1>2, StoredStays
<1>4. name \in DOMAIN Store(name, data) /\ Store(name, data)[name] = data
  BY StoreIs
<1> QED  BY <1>3, <1>4 DEF Has, name
-----------------------------------------------------------------------------
\* What holds while files are made, before each entry and within one.
Filing ==
  /\ board \in Boards /\ comp \in BOOLEAN
  /\ Shape(table) /\ dumped \in 0 .. Len(table)
  /\ ph # "files" => dumped < Len(table) /\ E.gz

\* Between two entries the buffer is at the first entry or above.
InFiles ==
  /\ Keeps(table, mem, dumped + 1, 0)
  /\ dumped = 0 => out = 0 /\ mem = [u \in Memory |-> u]
  /\ dumped > 0 /\ comp /\ table[1].at # 0 => Temp(files) /\ out \in table[1].at .. RamTop

\* What is compressed is as it was, and not where the output starts.
InGzip ==
  /\ Keeps(table, mem, dumped + 2, 0) /\ Temp(files)
  /\ out \in 0 .. RamTop /\ cur.at \in Nat /\ cur.n = E.n
  /\ cur = [at |-> cur.at, n |-> cur.n, data |-> <<>>]
  /\ out < cur.at \/ cur.at + cur.n <= out
  /\ \A i \in 1 .. E.n : cur.at + i - 1 \in Memory /\ mem[cur.at + i - 1] = E.at + i - 1
  /\ dumped = 0 => out = table[1].at - 1 /\ Saved(table, files)
  /\ dumped > 0 => out >= table[1].at - 1 /\ (IsFirstPart \/ out >= table[1].at)

\* The output of it is the truth, and in memory that is dumped.
InPut ==
  /\ cur.data = Truth(E) /\ Temp(files)
  /\ out \in Memory /\ out < RamTop
  /\ dumped = 0 => /\ Keeps(table, mem, 2, table[1].at - 1)
                   /\ out = table[1].at - 1 /\ Saved(table, files)
  /\ dumped > 0 => /\ Keeps(table, mem, dumped + 2, 0)
                   /\ out >= table[1].at - 1 /\ (IsFirstPart \/ out >= table[1].at)

\* It is stored, and the unit that is to come back is in the other file.
InBack ==
  /\ Has(files, E) /\ Temp(files)
  /\ out \in Nat /\ out <= RamTop
  /\ dumped = 0 => /\ Keeps(table, mem, 2, table[1].at - 1)
                   /\ out = table[1].at /\ Saved(table, files)
  /\ dumped > 0 => Keeps(table, mem, dumped + 2, 0) /\ out > table[1].at

(* Where the entry is that is at hand, and where those behind it are.       *)
LEMMA AtHand ==
  ASSUME Filing, dumped < Len(table)
  PROVE  /\ dumped \in Nat /\ dumped + 1 \in 1 .. Len(table) /\ Len(table) \in Nat
         /\ E.at \in Nat /\ E.n \in Nat /\ E.n > 0 /\ E.gz \in BOOLEAN
         /\ E.at = 0 => ~E.gz /\ E.name # TempName
         /\ E.at # 0 => /\ Run(E) \subseteq Memory /\ E.n <= Limit /\ E.gz = comp
                        /\ E.at + E.n = RamTop <=> dumped = 0
                        /\ table[1].at # 0
<1>1. /\ board \in Boards /\ Shape(table) /\ dumped \in 0 .. Len(table) /\ Len(table) \in Nat
  BY Geometry DEF Filing
<1>2. dumped \in Nat /\ dumped + 1 \in 1 .. Len(table)
  BY <1>1
<1>3. E = table[dumped + 1]
  BY DEF E
<1>4. E \in Rows
  BY <1>1, <1>2, <1>3, Geometry
<1>5. E.at \in Nat /\ E.n \in Nat /\ E.n > 0 /\ E.gz \in BOOLEAN
  BY <1>4 DEF Rows
<1>6. E.at = 0 => ~E.gz /\ E.name # TempName
  BY <1>1, <1>2, <1>3, Geometry
<1>7. E.at # 0 => /\ Run(E) \subseteq Memory /\ E.n <= Limit /\ E.gz = comp
                  /\ E.at + E.n = RamTop <=> dumped + 1 = 1
                  /\ table[1].at # 0
  BY <1>1, <1>2, <1>3, Geometry
<1> QED  BY <1>1, <1>2, <1>5, <1>6, <1>7

(* Where the entries still to come are: clear of the buffer.               *)
LEMMA Around ==
  ASSUME Filing, dumped < Len(table), table[1].at # 0
  PROVE  /\ table[1].at \in Nat /\ 1 <= table[1].at /\ table[1].at < RamTop
         /\ RamTop \in Nat /\ Limit \in Nat /\ Limit > 1
         /\ dumped > 0 /\ E.at # 0 => Clear(E, table[1].at)
         /\ \A j \in dumped + 2 .. Len(table) : table[j].at # 0 =>
              /\ Clear(table[j], table[1].at)
              /\ dumped > 0 => Clear(table[j], table[1].at - 1)
<1>1. /\ board \in Boards /\ Shape(table) /\ dumped \in 0 .. Len(table) /\ Len(table) \in Nat
  BY Geometry DEF Filing
<1>2. dumped \in Nat /\ dumped + 1 \in 1 .. Len(table)
  BY <1>1
<1>3. /\ table[1].at \in Nat /\ 1 <= table[1].at /\ table[1].at < RamTop
  <2>1. Len(table) > 0
    BY <1>1, <1>2
  <2>2. table[1].at \in Nat /\ Base <= table[1].at /\ table[1].at < RamTop
    BY <1>1, <2>1, Geometry
  <2> QED  BY <2>2 DEF Base
<1>4. RamTop \in Nat /\ Limit \in Nat /\ Limit > 1
  BY <1>1, Banks
<1>5. dumped > 0 /\ E.at # 0 => Clear(E, table[1].at)
  BY <1>1, <1>2, Distances DEF E
<1>6. ASSUME NEW j \in dumped + 2 .. Len(table), table[j].at # 0
      PROVE  /\ Clear(table[j], table[1].at)
             /\ dumped > 0 => Clear(table[j], table[1].at - 1)
  <2>1. j \in 1 .. Len(table) /\ j > 1 /\ dumped + 1 < j
    BY <1>1, <1>2
  <2>2. Clear(table[j], table[1].at)
    BY <1>1, <1>6, <2>1, Distances
  <2>3. dumped > 0 => Clear(table[j], table[1].at - 1)
    <3> SUFFICES ASSUME dumped > 0 PROVE Clear(table[j], table[1].at - 1)
      OBVIOUS
    <3>1. PICK i : i = dumped + 1
      OBVIOUS
    <3>2. i \in 1 .. Len(table) /\ 1 < i /\ i < j
      BY <1>1, <1>2, <2>1, <3>1
    <3>3. \A k, l \in 1 .. Len(table) : 1 < k /\ k < l /\ table[l].at # 0 => Clear(table[l], table[1].at - 1)
      BY <1>1, Distances
    <3> QED  BY <1>6, <2>1, <3>2, <3>3
  <2> QED  BY <2>2, <2>3
<1> QED  BY <1>3, <1>4, <1>5, <1>6

(* The table does not change while it is dumped.                           *)
LEMMA FilingNext ==
  ASSUME Filing, board' = board, comp' = comp, table' = table,
         dumped' \in 0 .. Len(table), ph' # "files" => dumped' = dumped /\ dumped < Len(table) /\ E.gz
  PROVE  Filing'
<1>1. Shape(table)'
  BY ShapeNext DEF Filing
<1>2. ph' # "files" => E' = E
  BY DEF E
<1> QED  BY <1>1, <1>2 DEF Filing

(* An entry read where it is (dump_to_dst without compression).            *)
LEMMA PlainKeeps ==
  ASSUME Filing, ph = "files", Stored(table, files, dumped), InFiles, DumpPlain
  PROVE  Stored(table, files, dumped)' /\ InFiles'
<1>1. /\ dumped < Len(table) /\ ~E.gz /\ dumped' = dumped + 1
      /\ mem' = IF E.name = <<"aligned">> THEN Wrote({RamTop - 1}) ELSE mem
      /\ files' = Store(E.name, [i \in 1 .. E.n |-> IF E.at = 0 THEN 0 ELSE Read(E.at + i - 1)])
      /\ board' = board /\ comp' = comp /\ table' = table /\ out' = out
  BY DEF DumpPlain, FileStep, Entries, cfgVars, tabVars
<1>2. /\ dumped \in Nat /\ dumped + 1 \in 1 .. Len(table) /\ Len(table) \in Nat
      /\ E.at \in Nat /\ E.n \in Nat /\ E.n > 0
      /\ E.at = 0 => E.name # TempName
      /\ E.at # 0 => Run(E) \subseteq Memory /\ E.gz = comp
  BY <1>1, AtHand
<1>3. board \in Boards /\ Shape(table) /\ comp \in BOOLEAN
  BY DEF Filing
<1>4. CASE E.at = 0
  <2> DEFINE data == [i \in 1 .. E.n |-> IF E.at = 0 THEN 0 ELSE Read(E.at + i - 1)]
  <2>1. /\ \A k \in DOMAIN files : k \in DOMAIN files' /\ (k # E.name => files'[k] = files[k])
    BY <1>1, StoreIs
  <2>2. \A i \in 1 .. dumped : table[i].at # 0 => table[i].name # E.name
    BY <1>2, <1>3, Distinct DEF E
  <2>3. Stored(table, Store(E.name, data), dumped)
    <3> HIDE DEF data
    <3> QED  BY <2>2, StoredStays
  <2>4. Stored(table, files', dumped + 1)
    BY <1>1, <1>2, <1>4, <2>3, StoredMore DEF E
  <2>5. \A j \in dumped + 2 .. Len(table) : table[j].at = 0
    BY <1>2, <1>3, <1>4 DEF Shape, E
  <2>6. Keeps(table, mem', dumped + 2, 0)
    BY <2>5 DEF Keeps
  <2>7. dumped = 0 => table[1].at = 0
    BY <1>4 DEF E
  <2>8. Temp(files) => Temp(files')
    BY <1>2, <1>4, <2>1 DEF Temp
  <2>9. RamTop' = RamTop
    BY <1>1, UnitsNext
  <2>10. /\ Keeps(table', mem', dumped' + 1, 0)
         /\ dumped' # 0
         /\ comp' /\ table'[1].at # 0 => Temp(files') /\ out' \in table'[1].at .. RamTop'
    <3>1. dumped' + 1 = dumped + 2 /\ dumped' # 0
      BY <1>1, <1>2
    <3>2. comp /\ table[1].at # 0 => Temp(files') /\ out \in table[1].at .. RamTop
      BY <1>2, <2>7, <2>8 DEF InFiles
    <3> QED  BY <1>1, <2>6, <2>9, <3>1, <3>2, Zenon
  <2>11. InFiles'
    BY <2>10, Zenon DEF InFiles
  <2> QED  BY <1>1, <2>4, <2>11
<1>5. CASE E.at # 0
  <2>1. comp = FALSE
    BY <1>1, <1>2, <1>3, <1>5
  <2>2. mem' = mem
    <3>1. E.name # <<"aligned">>
      BY <1>2, <1>3, <1>5 DEF Shape, DramRow, OtherRow, Named, E
    <3> QED  BY <1>1, <3>1
  <2> DEFINE data == [i \in 1 .. E.n |-> IF E.at = 0 THEN 0 ELSE Read(E.at + i - 1)]
  <2>3. data = Truth(E)
    <3>1. ASSUME NEW i \in 1 .. E.n PROVE Read(E.at + i - 1) = E.at + i - 1
      <4>1. E.at + i - 1 \in Run(E)
        BY <1>2 DEF Run
      <4>2. mem[E.at + i - 1] = E.at + i - 1
        <5>1. Keeps(table, mem, dumped + 1, 0)
          BY DEF InFiles
        <5>2. dumped + 1 \in dumped + 1 .. Len(table)
          BY <1>2
        <5>3. E.at + i - 1 # 0
          BY <1>2, <1>5
        <5> QED  BY <1>5, <4>1, <5>1, <5>2, <5>3 DEF Keeps, E
      <4> QED  BY <1>2, <1>5, <4>1, <4>2 DEF Read
    <3> QED  BY <1>5, <3>1 DEF Truth
  <2> HIDE DEF data
  <2>4. Has(files', E) /\ Stored(table, files', dumped)
    BY <1>1, <1>2, <1>3, <1>5, <2>3, OneMore DEF data, E
  <2>5. Stored(table, files', dumped + 1)
    BY <1>2, <2>4, StoredMore DEF E
  <2>6. Keeps(table, mem, dumped + 2, 0)
    BY <1>2, <1>3, KeepsLess DEF InFiles
  <2>7. dumped' # 0 /\ dumped' + 1 = dumped + 2
    BY <1>1, <1>2
  <2>8. Keeps(table', mem', dumped' + 1, 0) /\ ~comp'
    BY <1>1, <2>1, <2>2, <2>6, <2>7
  <2>9. InFiles'
    BY <2>7, <2>8, Zenon DEF InFiles
  <2> QED  BY <1>1, <2>5, <2>9
<1> QED  BY <1>4, <1>5

(* The unit below the topmost part is saved under the first part's name.   *)
LEMMA BackupKeeps ==
  ASSUME Filing, ~over', Stored(table, files, dumped), InFiles, Backup
  PROVE  Stored(table, files, dumped)' /\ InGzip'
<1>0. /\ dumped < Len(table) /\ E.gz /\ E.at + E.n = RamTop
      /\ Begin(E.at - 1, E.n) /\ files' = Store(TempName, << Read(E.at - 1) >>)
      /\ dumped' = dumped /\ board' = board /\ comp' = comp /\ table' = table
  BY DEF Backup, Begin, FileStep, Entries, cfgVars, tabVars
\* The topmost part is not the first one: that would be moved below the memory.
<1>0a. ~IsFirstPart
  <2> SUFFICES ASSUME IsFirstPart PROVE FALSE
    OBVIOUS
  <2>1. E.at - 1 .. E.at - 1 + E.n - 1 \subseteq Memory
    BY <1>0 DEF Begin
  <2>2. E.at # 0
    BY <1>0, AtHand
  <2>3. dumped = 0 /\ E.at \in Nat /\ E.n \in Nat /\ E.n > 0 /\ Len(table) \in Nat
    BY <1>0, <2>2, AtHand
  <2>4. E = table[1] /\ Shape(table) /\ board \in Boards /\ Len(table) > 0
    BY <1>0, <2>3 DEF E, Filing
  <2>5. E.at = Base
    BY <2>2, <2>4 DEF Shape, IsFirstPart
  <2>6. 2 \in Memory
    BY <2>1, <2>3, <2>5 DEF Base
  <2> QED  BY <2>4, <2>6, Banks DEF Memory
<1>1. /\ dumped < Len(table) /\ E.gz /\ E.at + E.n = RamTop
      /\ out' = E.at - 1 /\ files' = Store(TempName, << Read(E.at - 1) >>)
      /\ cur' = [NoEntry EXCEPT !.at = E.at, !.n = E.n] /\ dumped' = dumped /\ mem' = mem
      /\ board' = board /\ comp' = comp /\ table' = table
  BY <1>0, <1>0a DEF Begin
<1>2. /\ dumped = 0 /\ E.at # 0 /\ Run(E) \subseteq Memory /\ table[1].at # 0
      /\ E.at \in Nat /\ E.n \in Nat /\ E.n > 0 /\ Len(table) \in Nat /\ 1 \in 1 .. Len(table)
  <2>1. dumped < Len(table)
    BY <1>1
  <2>2. E.at # 0
    BY <1>1, <2>1, AtHand
  <2>3. dumped = 0
    BY <1>1, <2>1, <2>2, AtHand
  <2>4. /\ Run(E) \subseteq Memory /\ table[1].at # 0
        /\ E.at \in Nat /\ E.n \in Nat /\ E.n > 0 /\ Len(table) \in Nat
    BY <2>1, <2>2, AtHand
  <2> QED  BY <2>1, <2>2, <2>3, <2>4
<1>3. board \in Boards /\ Shape(table)
  BY DEF Filing
<1>4. E = table[1] /\ E' = E
  BY <1>1, <1>2 DEF E
<1>5. Stored(table, files, dumped)'
  BY <1>1, <1>2 DEF Stored
<1>6. RamTop' = RamTop /\ Memory' = Memory
  BY <1>1, UnitsNext
<1>7. RamTop \in Nat /\ Limit \in Nat /\ Limit > 1 /\ E.at < RamTop
  BY <1>2, <1>4, <1>1, Around
<1>8. Keeps(table, mem, 1, 0) /\ mem = [u \in Memory |-> u]
  BY <1>2 DEF InFiles
<1>9. Keeps(table, mem, 2, 0)
  BY <1>3, <1>8, KeepsLess
<1>10. TempName \in DOMAIN files' /\ files'[TempName] = << Read(E.at - 1) >>
  BY <1>1, StoreIs
<1>11. Temp(files')
  BY <1>7, <1>10 DEF Temp
<1>12. Saved(table, files')
  <2>1. E.at - 1 \in Memory => Read(E.at - 1) = E.at - 1
    BY <1>8 DEF Read
  <2> QED  BY <1>4, <1>10, <2>1 DEF Saved
<1>13. Saved(table, files)'
  BY <1>1, <1>6, <1>12 DEF Saved
<1>14. cur' = [at |-> E.at, n |-> E.n, data |-> <<>>]
  BY <1>1 DEF NoEntry
<1>15. \A i \in 1 .. E.n : E.at + i - 1 \in Memory /\ mem[E.at + i - 1] = E.at + i - 1
  <2> TAKE i \in 1 .. E.n
  <2>1. E.at + i - 1 \in Run(E)
    BY <1>2 DEF Run
  <2> QED  BY <1>2, <1>8, <2>1
<1>16. out' \in 0 .. RamTop' /\ out' < E.at
  BY <1>1, <1>2, <1>6, <1>7
<1>17. dumped' + 2 = 2 /\ dumped' = 0 /\ ~(dumped' > 0)
  BY <1>1, <1>2
<1>18. out' = table'[1].at - 1
  BY <1>1, <1>4
<1>19. /\ cur'.at = E.at /\ cur'.n = E.n /\ cur' = [at |-> cur'.at, n |-> cur'.n, data |-> <<>>]
  BY <1>14
<1>20. Keeps(table', mem', dumped' + 2, 0) /\ Temp(files')
  BY <1>1, <1>9, <1>11, <1>17
<1>21. \A i \in 1 .. E'.n : cur'.at + i - 1 \in Memory' /\ mem'[cur'.at + i - 1] = E'.at + i - 1
  BY <1>1, <1>4, <1>6, <1>15, <1>19
<1>22. cur'.at \in Nat /\ cur'.n = E'.n /\ out' < cur'.at
  BY <1>2, <1>4, <1>16, <1>19
<1>23. InGzip'
  BY <1>13, <1>16, <1>17, <1>18, <1>19, <1>20, <1>21, <1>22, Zenon DEF InGzip
<1> QED  BY <1>5, <1>23

(* A part at hand: the first is moved to where the parts before it were.   *)
LEMMA NextKeeps ==
  ASSUME Filing, ph = "files", ~over', Stored(table, files, dumped), InFiles, NextPart
  PROVE  Stored(table, files, dumped)' /\ InGzip'
<1>1. /\ dumped < Len(table) /\ E.gz /\ E.at + E.n # RamTop
      /\ out # 0 /\ files' = files /\ dumped' = dumped
      /\ board' = board /\ comp' = comp /\ table' = table
  BY DEF NextPart, Begin, FileStep, Entries, cfgVars, tabVars
<1>2. /\ dumped > 0 /\ E.at # 0 /\ Run(E) \subseteq Memory /\ table[1].at # 0 /\ comp /\ E.n <= Limit
      /\ E.at \in Nat /\ E.n \in Nat /\ E.n > 0 /\ Len(table) \in Nat /\ dumped \in Nat
      /\ dumped + 1 \in 1 .. Len(table)
  <2>1. dumped < Len(table)
    BY <1>1
  <2>2. E.at # 0
    BY <1>1, <2>1, AtHand
  <2>3. dumped # 0 /\ dumped \in Nat
    BY <1>1, <2>1, <2>2, AtHand
  <2>4. /\ Run(E) \subseteq Memory /\ table[1].at # 0 /\ E.gz = comp /\ E.n <= Limit
        /\ E.at \in Nat /\ E.n \in Nat /\ E.n > 0 /\ Len(table) \in Nat
        /\ dumped + 1 \in 1 .. Len(table)
    BY <2>1, <2>2, AtHand
  <2> QED  BY <1>1, <2>1, <2>2, <2>3, <2>4
<1>3. board \in Boards /\ Shape(table)
  BY DEF Filing
<1> DEFINE low == table[1].at
<1>4. /\ low \in Nat /\ 1 <= low /\ low < RamTop
      /\ RamTop \in Nat /\ Limit \in Nat /\ Limit > 1
      /\ Clear(E, low)
      /\ \A j \in dumped + 2 .. Len(table) : table[j].at # 0 => Clear(table[j], low - 1)
  BY <1>1, <1>2, Around, SMTT(20)
<1>5. Temp(files) /\ out \in low .. RamTop /\ Keeps(table, mem, dumped + 1, 0)
  BY <1>2 DEF InFiles
<1> HIDE DEF low
<1>6. E' = E /\ IsFirstPart' = IsFirstPart
  BY <1>1 DEF E, IsFirstPart
<1>7. RamTop' = RamTop /\ Memory' = Memory
  BY <1>1, UnitsNext
<1>8. ASSUME NEW i \in 1 .. E.n
      PROVE  /\ E.at + i - 1 \in Run(E) /\ E.at + i - 1 \in Memory
             /\ mem[E.at + i - 1] = E.at + i - 1 /\ Read(E.at + i - 1) = E.at + i - 1
  <2>1. E.at + i - 1 \in Run(E)
    <3>1. PICK a \in Nat, n \in Nat : a = E.at /\ n = E.n
      BY <1>2
    <3>2. i \in 1 .. n
      BY <3>1
    <3>3. a + i - 1 \in a .. a + n - 1
      BY <3>2
    <3> QED  BY <3>1, <3>3 DEF Run
  <2>2. dumped + 1 \in dumped + 1 .. Len(table) /\ E.at + i - 1 # 0
    BY <1>2
  <2>3. mem[E.at + i - 1] = E.at + i - 1
    BY <1>2, <1>5, <2>1, <2>2 DEF Keeps, E
  <2> QED  BY <1>2, <2>1, <2>3 DEF Read
<1>9. Keeps(table, mem, dumped + 2, 0)
  BY <1>2, <1>3, <1>5, KeepsLess
\* What InGzip says of what is compressed, and of the output.
<1> DEFINE Ready(m, c, o) ==
             /\ Keeps(table, m, dumped + 2, 0)
             /\ o \in low - 1 .. RamTop /\ (IsFirstPart \/ o >= low)
             /\ c = [at |-> c.at, n |-> c.n, data |-> <<>>] /\ c.at \in Nat /\ c.n = E.n
             /\ o < c.at \/ c.at + c.n <= o
             /\ \A i \in 1 .. E.n : c.at + i - 1 \in Memory /\ m[c.at + i - 1] = E.at + i - 1
<1>10. ASSUME ~IsFirstPart PROVE Ready(mem', cur', out')
  <2>1. /\ cur' = [NoEntry EXCEPT !.at = E.at, !.n = E.n] /\ mem' = mem /\ out' = out
    BY <1>10 DEF NextPart, Begin
  <2>2. cur' = [at |-> E.at, n |-> E.n, data |-> <<>>]
    BY <2>1 DEF NoEntry
  <2>3. out < E.at \/ E.at + E.n <= out
    <3>1. /\ E.at < low \/ E.at >= RamTop + Limit
          /\ E.at + E.n - 1 < low \/ E.at + E.n - 1 >= RamTop + Limit
      <4>1. E.at \in Run(E) /\ E.at + E.n - 1 \in Run(E)
        BY <1>2 DEF Run
      <4> QED  BY <1>4, <4>1 DEF Clear
    <3>2. PICK a \in Nat, n \in Nat, r \in Nat, s \in Nat, l \in Nat, o \in Nat :
            a = E.at /\ n = E.n /\ r = RamTop /\ s = Limit /\ l = low /\ o = out
      <4>1. out \in Nat
        BY <1>4, <1>5
      <4> QED  BY <1>2, <1>4, <4>1, Zenon
    <3>3. /\ a < l \/ a >= r + s
          /\ a + n - 1 < l \/ a + n - 1 >= r + s
          /\ n <= s /\ n > 0 /\ l <= o /\ o <= r /\ l < r /\ s > 1
      BY <1>2, <1>4, <1>5, <3>1, <3>2
    <3>4. o < a \/ a + n <= o
      BY <3>2, <3>3
    <3> QED  BY <3>2, <3>4
  <2>4. cur'.at = E.at /\ cur'.n = E.n /\ cur' = [at |-> cur'.at, n |-> cur'.n, data |-> <<>>]
    BY <2>2
  <2>5. out \in low - 1 .. RamTop /\ out >= low
    BY <1>4, <1>5
  <2>6. Ready(mem', cur', out')
    BY <1>2, <1>8, <1>9, <2>1, <2>3, <2>4, <2>5
  <2> QED  BY <2>6
<1>11. ASSUME IsFirstPart PROVE Ready(mem', cur', out')
  <2> DEFINE W == out .. out + E.n - 1
  <2>1. /\ mem' = [u \in Memory |-> IF u \in W THEN Read(E.at + u - out) ELSE mem[u]]
        /\ cur' = [NoEntry EXCEPT !.at = out, !.n = E.n]
        /\ out' = out - 1 /\ W \subseteq Memory
    BY <1>11 DEF NextPart, Begin
  <2>2. out \in Nat /\ out + E.n <= RamTop /\ out >= low
    <3>1. out \in Int /\ out <= RamTop /\ E.n \in Nat \ {0} /\ out \in Nat /\ out >= low
      BY <1>2, <1>4, <1>5
    <3>2. out .. out + E.n - 1 \subseteq Memory
      BY <2>1
    <3> QED  BY <1>3, <3>1, <3>2, RunInBank
  <2>3. \A u \in Memory \ W : mem'[u] = mem[u]
    BY <2>1
  <2>4. ASSUME NEW j \in dumped + 2 .. Len(table), table[j].at # 0, NEW u \in Run(table[j])
        PROVE  u \notin W
    <3>1. u < low - 1 \/ u >= RamTop + Limit
      BY <1>4, <2>4 DEF Clear
    <3>2. PICK n \in Nat : n = E.n
      BY <1>2
    <3>3. W = out .. out + n - 1 /\ out \in Nat /\ out + n <= RamTop /\ out >= low
      BY <2>2, <3>2
    <3> HIDE DEF W
    <3> QED  BY <1>4, <3>1, <3>3
  <2>5. Keeps(table, mem', dumped + 2, 0)
    <3>1. dumped + 2 \in Nat \ {0}
      BY <1>2
    <3>2. \A j \in dumped + 2 .. Len(table) : table[j].at # 0 => \A u \in Run(table[j]) : u # 0 => u \notin W
      BY <2>4
    <3> HIDE DEF W
    <3> QED  BY ONLY <1>3, <1>9, <2>3, <3>1, <3>2, Untouched, Zenon
  <2>6. cur' = [at |-> out, n |-> E.n, data |-> <<>>]
    BY <2>1 DEF NoEntry
  <2>7. cur'.at = out /\ cur'.n = E.n /\ cur' = [at |-> cur'.at, n |-> cur'.n, data |-> <<>>]
    BY <2>6
  <2>8. ASSUME NEW i \in 1 .. E.n
        PROVE  out + i - 1 \in Memory /\ mem'[out + i - 1] = E.at + i - 1
    <3>1. out + i - 1 \in W /\ E.at + (out + i - 1) - out = E.at + i - 1
      <4>1. PICK a \in Nat, n \in Nat : a = E.at /\ n = E.n
        BY <1>2
      <4>2. i \in 1 .. n /\ out \in Nat
        BY <2>2, <4>1
      <4>3. out + i - 1 \in out .. out + n - 1 /\ a + (out + i - 1) - out = a + i - 1
        BY <4>2
      <4> QED  BY <4>1, <4>3
    <3> HIDE DEF W
    <3>2. out + i - 1 \in Memory
      BY <2>1, <3>1
    <3>3. mem'[out + i - 1] = Read(E.at + (out + i - 1) - out)
      BY <2>1, <3>1, <3>2
    <3> QED  BY <1>8, <3>1, <3>2, <3>3
  <2>9. out - 1 \in low - 1 .. RamTop /\ out - 1 < out
    BY <1>4, <1>5, <2>2
  <2>10. Ready(mem', cur', out')
    BY <1>11, <2>1, <2>2, <2>5, <2>7, <2>8, <2>9
  <2> QED  BY <2>10
<1>12. Ready(mem', cur', out')
  BY <1>10, <1>11
<1>13. out' \in 0 .. RamTop /\ out' >= low - 1
  BY <1>4, <1>12
<1>14. Stored(table, files, dumped)'
  BY <1>1 DEF Stored
<1>15. /\ Keeps(table', mem', dumped' + 2, 0) /\ Temp(files')
       /\ out' \in 0 .. RamTop' /\ cur'.at \in Nat /\ cur'.n = E'.n
       /\ cur' = [at |-> cur'.at, n |-> cur'.n, data |-> <<>>]
       /\ out' < cur'.at \/ cur'.at + cur'.n <= out'
       /\ \A i \in 1 .. E'.n : cur'.at + i - 1 \in Memory' /\ mem'[cur'.at + i - 1] = E'.at + i - 1
       /\ dumped' # 0
       /\ out' >= table'[1].at - 1 /\ (IsFirstPart' \/ out' >= table'[1].at)
  <2>1. dumped # 0
    BY <1>2
  <2> QED  BY <1>1, <1>5, <1>6, <1>7, <1>12, <1>13, <2>1, Zenon DEF low
<1>16. InGzip'
  BY <1>15, Zenon DEF InGzip
<1> QED  BY <1>14, <1>16

(* The output stays in memory that is dumped already, below or behind the  *)
(* input.                                                                  *)
LEMMA CompressKeeps ==
  ASSUME Filing, ph = "gzip", ~over', Stored(table, files, dumped), InGzip,
         NEW z \in 1 .. Limit, Compress(z)
  PROVE  Stored(table, files, dumped)' /\ InPut'
<1> DEFINE T == out .. out + z - 1
           low == table[1].at
           data == [i \in 1 .. cur.n |-> IF cur.at + i - 1 \in T /\ out >= cur.at THEN 0
                                         ELSE Read(cur.at + i - 1)]
<1>1. /\ dumped < Len(table) /\ T \subseteq Memory
      /\ cur' = [cur EXCEPT !.data = data]
      /\ mem' = Wrote(T)
      /\ out' = out /\ files' = files /\ dumped' = dumped
      /\ board' = board /\ comp' = comp /\ table' = table
  BY DEF Compress, FileStep, Entries, cfgVars, tabVars
<1>2. /\ E.gz /\ E.at # 0 /\ low # 0
      /\ E.at \in Nat /\ E.n \in Nat /\ E.n > 0 /\ Len(table) \in Nat /\ dumped \in Nat
      /\ dumped + 1 \in 1 .. Len(table)
  <2>1. E.gz /\ dumped < Len(table)
    BY <1>1 DEF Filing
  <2>2. E.at # 0
    BY <2>1, AtHand
  <2>3. /\ table[1].at # 0 /\ E.at \in Nat /\ E.n \in Nat /\ E.n > 0 /\ Len(table) \in Nat
        /\ dumped \in Nat /\ dumped + 1 \in 1 .. Len(table)
    BY <2>1, <2>2, AtHand
  <2> QED  BY <2>1, <2>2, <2>3
<1>3. board \in Boards /\ Shape(table)
  BY DEF Filing
<1>4. /\ low \in Nat /\ 1 <= low /\ low < RamTop
      /\ RamTop \in Nat /\ Limit \in Nat /\ Limit > 1
      /\ \A j \in dumped + 2 .. Len(table) : table[j].at # 0 =>
           Clear(table[j], low) /\ (dumped > 0 => Clear(table[j], low - 1))
  BY <1>1, <1>2, Around
<1>5. /\ Keeps(table, mem, dumped + 2, 0) /\ Temp(files)
      /\ out \in 0 .. RamTop /\ cur.at \in Nat /\ cur.n = E.n
      /\ cur = [at |-> cur.at, n |-> cur.n, data |-> <<>>]
      /\ out < cur.at \/ cur.at + cur.n <= out
      /\ \A i \in 1 .. E.n : cur.at + i - 1 \in Memory /\ mem[cur.at + i - 1] = E.at + i - 1
      /\ dumped = 0 => out = low - 1 /\ Saved(table, files)
      /\ dumped > 0 => out >= low - 1 /\ (IsFirstPart \/ out >= low)
  BY DEF InGzip
<1> HIDE DEF low
<1>6. E' = E /\ IsFirstPart' = IsFirstPart
  BY <1>1 DEF E, IsFirstPart
<1>7. RamTop' = RamTop /\ Memory' = Memory
  BY <1>1, UnitsNext
<1>8. out + z <= RamTop /\ out \in Nat /\ z \in Nat /\ z > 0
  <2>1. out \in Int /\ out <= RamTop /\ z \in Nat \ {0}
    BY <1>4, <1>5
  <2>2. out .. out + z - 1 \subseteq Memory
    BY <1>1
  <2> QED  BY <1>3, <1>4, <1>5, <2>1, <2>2, RunInBank
<1>9. out \in Memory /\ out < RamTop /\ out >= low - 1
  <2>1. out \in T /\ out < RamTop
    BY <1>4, <1>8
  <2>2. out >= low - 1
    BY <1>2, <1>4, <1>5
  <2> QED  BY <1>1, <2>1, <2>2
<1>10. cur'.data = Truth(E)
  <2>1. ASSUME NEW i \in 1 .. E.n
        PROVE  /\ ~(cur.at + i - 1 \in T /\ out >= cur.at)
               /\ Read(cur.at + i - 1) = E.at + i - 1
    <3>1. Read(cur.at + i - 1) = E.at + i - 1
      BY <1>5 DEF Read
    <3>2. ASSUME cur.at + i - 1 \in T, out >= cur.at PROVE FALSE
      <4>1. PICK c \in Nat, n \in Nat : c = cur.at /\ n = E.n
        BY <1>2, <1>5
      <4>2. c + n <= out \/ out < c
        BY <1>5, <4>1
      <4>3. c + i - 1 >= out /\ out >= c
        BY <1>8, <3>2, <4>1
      <4> QED  BY <1>8, <4>1, <4>2, <4>3
    <3> QED  BY <3>1, <3>2
  <2>2. data = Truth(E)
    <3> HIDE DEF T
    <3> QED  BY <1>5, <2>1 DEF Truth
  <2> HIDE DEF data
  <2>3. cur'.data = data
    <3>1. PICK a, n : cur = [at |-> a, n |-> n, data |-> <<>>]
      BY <1>5
    <3> QED  BY <1>1, <3>1
  <2> QED  BY <2>2, <2>3
<1>11. \A u \in Memory \ T : mem'[u] = mem[u]
  <2> HIDE DEF T
  <2> QED  BY <1>1 DEF Wrote
<1>12. dumped > 0 => Keeps(table, mem', dumped + 2, 0)
  <2> SUFFICES ASSUME dumped > 0 PROVE Keeps(table, mem', dumped + 2, 0)
    OBVIOUS
  <2>1. ASSUME NEW j \in dumped + 2 .. Len(table), table[j].at # 0, NEW u \in Run(table[j])
        PROVE  u \notin T
    <3>1. u < low - 1 \/ u >= RamTop + Limit
      BY <1>4, <2>1 DEF Clear
    <3> QED  BY <1>4, <1>8, <1>9, <3>1
  <2>2. dumped + 2 \in Nat \ {0}
    BY <1>2
  <2>3. \A j \in dumped + 2 .. Len(table) : table[j].at # 0 => \A u \in Run(table[j]) : u # 0 => u \notin T
    BY <2>1
  <2>4. Keeps(table, mem, dumped + 2, 0)
    BY <1>5
  <2> HIDE DEF T
  <2> QED  BY ONLY <1>3, <1>11, <2>2, <2>3, <2>4, Untouched, Zenon
<1>13. dumped = 0 => Keeps(table, mem', 2, low - 1)
  <2> SUFFICES ASSUME dumped = 0 PROVE Keeps(table, mem', 2, low - 1)
    OBVIOUS
  <2>1. ASSUME NEW j \in 2 .. Len(table), table[j].at # 0, NEW u \in Run(table[j]), u # low - 1
        PROVE  u \notin T
    <3>1. u < low \/ u >= RamTop + Limit
      <4>1. j \in dumped + 2 .. Len(table)
        OBVIOUS
      <4> QED  BY <1>4, <2>1, <4>1 DEF Clear
    <3>2. out = low - 1
      BY <1>5
    <3> QED  BY <1>4, <1>8, <2>1, <3>1, <3>2
  <2>2. 2 \in Nat \ {0}
    OBVIOUS
  <2>3. \A j \in 2 .. Len(table) : table[j].at # 0 => \A u \in Run(table[j]) : u # low - 1 => u \notin T
    BY <2>1
  <2>4. Keeps(table, mem, 2, low - 1)
    <3>1. Keeps(table, mem, 2, 0)
      BY <1>5
    <3> QED  BY <1>3, <3>1, KeepsLess
  <2> HIDE DEF T
  <2> QED  BY ONLY <1>3, <1>11, <2>2, <2>3, <2>4, Untouched, Zenon
<1>14. Stored(table, files, dumped)'
  BY <1>1 DEF Stored
<1>15. dumped = 0 => Saved(table, files)'
  BY <1>1, <1>5, <1>7 DEF Saved
<1>16. /\ cur'.data = Truth(E') /\ Temp(files')
       /\ out' \in Memory' /\ out' < RamTop'
       /\ dumped' = 0 => Keeps(table', mem', 2, table'[1].at - 1) /\ out' = table'[1].at - 1
       /\ dumped' > 0 => /\ Keeps(table', mem', dumped' + 2, 0)
                         /\ out' >= table'[1].at - 1 /\ (IsFirstPart' \/ out' >= table'[1].at)
  BY <1>1, <1>5, <1>6, <1>7, <1>9, <1>10, <1>12, <1>13, Zenon DEF low
<1>17. InPut'
  BY <1>1, <1>15, <1>16, Zenon DEF InPut
<1> QED  BY <1>14, <1>17

(* The part is stored; the first part's file replaces the backup.          *)
LEMMA PutKeeps ==
  ASSUME Filing, ph = "put", Stored(table, files, dumped), InPut, Put
  PROVE  /\ Stored(table, files, dumped)'
         /\ ph' = "files" => InFiles'
         /\ ph' = "back" => InBack'
<1> DEFINE low == table[1].at
<1>1. /\ dumped < Len(table) /\ files' = Store(E.name, cur.data) /\ out' = out + 1
      /\ mem' = mem /\ board' = board /\ comp' = comp /\ table' = table
      /\ \/ IsFirstPart /\ ph' = "files" /\ dumped' = dumped + 1
         \/ ~IsFirstPart /\ ph' = "back" /\ dumped' = dumped
  BY DEF Put, FileStep, Entries, cfgVars, tabVars, OutAfter
<1>2. /\ E.at # 0 /\ low # 0 /\ E.n <= Limit
      /\ E.at \in Nat /\ E.n \in Nat /\ E.n > 0 /\ Len(table) \in Nat /\ dumped \in Nat
      /\ dumped + 1 \in 1 .. Len(table)
  <2>1. E.gz /\ dumped < Len(table)
    BY <1>1 DEF Filing
  <2>2. E.at # 0
    BY <2>1, AtHand
  <2>3. /\ table[1].at # 0 /\ E.at \in Nat /\ E.n \in Nat /\ E.n > 0 /\ Len(table) \in Nat
        /\ dumped \in Nat /\ dumped + 1 \in 1 .. Len(table) /\ E.n <= Limit
    BY <2>1, <2>2, AtHand
  <2> QED  BY <2>1, <2>2, <2>3
<1>3. board \in Boards /\ Shape(table)
  BY DEF Filing
<1>4. /\ low \in Nat /\ 1 <= low /\ low < RamTop /\ RamTop \in Nat
  BY <1>1, <1>2, Around
<1>5. /\ cur.data = Truth(E) /\ Temp(files)
      /\ out \in Memory /\ out < RamTop
      /\ dumped = 0 => Keeps(table, mem, 2, low - 1) /\ out = low - 1 /\ Saved(table, files)
      /\ dumped > 0 => Keeps(table, mem, dumped + 2, 0) /\ out >= low - 1 /\ (IsFirstPart \/ out >= low)
  BY DEF InPut
<1> HIDE DEF low
<1>6. RamTop' = RamTop /\ Memory' = Memory
  BY <1>1, UnitsNext
<1>7. out \in Nat /\ out >= 3
  BY <1>3, <1>5, UnitsAre, Banks
<1>8. Has(files', E) /\ Stored(table, files', dumped)
  BY <1>1, <1>2, <1>3, <1>5, OneMore DEF E
<1>9. CASE IsFirstPart
  <2>1. ph' = "files" /\ dumped' = dumped + 1
    BY <1>1, <1>9
  <2>2. dumped > 0
    <3> SUFFICES ASSUME dumped = 0 PROVE FALSE
      BY <1>2
    <3>1. table[1].name = TempName /\ Len(table) > 0
      BY <1>2, <1>9 DEF IsFirstPart, E, TempName
    <3>2. low = 3
      BY <1>2, <1>3, <3>1, Geometry DEF low, Base
    <3> QED  BY <1>5, <1>7, <3>2
  <2>3. Stored(table, files', dumped + 1)
    BY <1>2, <1>8, StoredMore DEF E
  <2>4. Temp(files')
    <3>1. E.name = TempName /\ Len(Truth(E)) = E.n
      BY <1>2, <1>9 DEF IsFirstPart, TempName, Truth
    <3> QED  BY <1>2, <1>8, <3>1 DEF Temp, Has
  <2>5. out + 1 \in low .. RamTop
    BY <1>4, <1>5, <1>7, <2>2
  <2>6. /\ Keeps(table', mem', dumped' + 1, 0)
        /\ dumped' # 0
        /\ Temp(files') /\ out' \in table'[1].at .. RamTop'
    <3>1. dumped' + 1 = dumped + 2 /\ dumped' # 0
      BY <1>2, <2>1
    <3> QED  BY <1>1, <1>5, <1>6, <2>2, <2>4, <2>5, <3>1, Zenon DEF low
  <2>7. InFiles'
    BY <2>6, Zenon DEF InFiles
  <2> QED  BY <1>1, <2>1, <2>3, <2>7
<1>10. CASE ~IsFirstPart
  <2>1. ph' = "back" /\ dumped' = dumped
    BY <1>1, <1>10
  <2>2. E' = E
    BY <1>1, <2>1 DEF E
  <2>3. TempName \in DOMAIN files' /\ files'[TempName] = files[TempName]
    <3>1. TempName # E.name /\ TempName \in DOMAIN files
      BY <1>5, <1>10 DEF IsFirstPart, TempName, Temp
    <3> QED  BY <1>1, <3>1, StoreIs
  <2>4. Temp(files') /\ (dumped = 0 => Saved(table, files'))
    BY <1>5, <2>3 DEF Temp, Saved
  <2>5. dumped = 0 => Saved(table, files)'
    BY <1>1, <1>6, <2>4 DEF Saved
  <2>6. /\ out' \in Nat /\ out' <= RamTop
        /\ dumped = 0 => out' = low
        /\ dumped > 0 => out' > low
    BY <1>1, <1>4, <1>5, <1>7, <1>10
  <2>7. /\ Has(files', E') /\ Temp(files')
        /\ out' \in Nat /\ out' <= RamTop'
        /\ dumped' = 0 => Keeps(table', mem', 2, table'[1].at - 1) /\ out' = table'[1].at
        /\ dumped' > 0 => Keeps(table', mem', dumped' + 2, 0) /\ out' > table'[1].at
    BY <1>1, <1>5, <1>6, <1>8, <2>1, <2>2, <2>4, <2>6, Zenon DEF low
  <2>8. InBack'
    BY <2>1, <2>5, <2>7, Zenon DEF InBack
  <2>9. Stored(table, files, dumped)'
    BY <1>1, <1>8, <2>1
  <2> QED  BY <2>1, <2>8, <2>9
<1> QED  BY <1>9, <1>10

(* The backup comes back below the last part.                              *)
LEMMA ReloadKeeps ==
  ASSUME Filing, ph = "back", Stored(table, files, dumped), InBack, Reload
  PROVE  Stored(table, files, dumped)' /\ InFiles'
<1> DEFINE low == table[1].at
           f == files[TempName]
           W == out - 1 .. out + Len(f) - 2
<1>1. /\ dumped < Len(table)
      /\ mem' = [u \in Memory |-> IF u \in W THEN f[u - out + 2] ELSE mem[u]]
      /\ dumped' = dumped + 1 /\ files' = files /\ out' = out
      /\ board' = board /\ comp' = comp /\ table' = table
  BY DEF Reload, FileStep, Entries, cfgVars, tabVars
<1>2. /\ E.at # 0 /\ low # 0 /\ Len(table) \in Nat /\ dumped \in Nat
      /\ dumped + 1 \in 1 .. Len(table)
  <2>1. E.gz /\ dumped < Len(table)
    BY <1>1 DEF Filing
  <2>2. E.at # 0
    BY <2>1, AtHand
  <2> QED  BY <2>1, <2>2, AtHand
<1>3. board \in Boards /\ Shape(table)
  BY DEF Filing
<1>4. /\ low \in Nat /\ 1 <= low /\ low < RamTop
      /\ RamTop \in Nat /\ Limit \in Nat /\ Limit > 1
      /\ \A j \in dumped + 2 .. Len(table) : table[j].at # 0 =>
           Clear(table[j], low) /\ (dumped > 0 => Clear(table[j], low - 1))
  BY <1>1, <1>2, Around
<1>5. /\ Has(files, E) /\ Temp(files) /\ out \in Nat /\ out <= RamTop
      /\ dumped = 0 => Keeps(table, mem, 2, low - 1) /\ out = low /\ Saved(table, files)
      /\ dumped > 0 => Keeps(table, mem, dumped + 2, 0) /\ out > low
  BY DEF InBack
<1>6. RamTop' = RamTop
  BY <1>1, UnitsNext
<1>7. Len(f) \in Nat /\ Len(f) <= Limit
  BY <1>5 DEF Temp
<1>8. Stored(table, files, dumped + 1)
  BY <1>2, <1>5, StoredMore DEF E
<1>9. \A u \in Memory \ W : mem'[u] = mem[u]
  <2> HIDE DEF W, f
  <2> QED  BY <1>1
<1>10. ASSUME dumped = 0 PROVE Keeps(table, mem', dumped + 2, 0)
  <2>1. /\ Keeps(table, mem, 2, low - 1) /\ out = low /\ Len(f) = 1
        /\ low - 1 \in Memory => f[1] = low - 1
    BY <1>5, <1>10 DEF Saved, low
  <2>2. W = {low - 1}
    BY <1>4, <2>1
  <2>3. ASSUME NEW j \in 2 .. Len(table), table[j].at # 0, NEW u \in Run(table[j])
        PROVE  mem'[u] = u
    <3>1. u \in Memory
      <4>1. j \in 1 .. Len(table)
        BY <1>2
      <4> QED  BY <1>3, <2>3, <4>1, Geometry
    <3>2. CASE u = low - 1
      <4>1. mem'[u] = f[u - out + 2]
        BY <1>1, <2>2, <3>1, <3>2
      <4>2. u - out + 2 = 1
        BY <1>4, <2>1, <3>2
      <4> HIDE DEF f
      <4> QED  BY <2>1, <3>1, <3>2, <4>1, <4>2
    <3>3. CASE u # low - 1
      <4>1. u \notin W
        BY <2>2, <3>3
      <4>2. mem[u] = u
        BY <2>1, <2>3, <3>3 DEF Keeps
      <4> HIDE DEF W
      <4> QED  BY <1>9, <3>1, <4>1, <4>2
    <3> QED  BY <3>2, <3>3
  <2>4. Keeps(table, mem', 2, 0)
    BY <2>3 DEF Keeps
  <2> QED  BY <1>10, <2>4
<1>11. ASSUME dumped > 0 PROVE Keeps(table, mem', dumped + 2, 0)
  <2>1. Keeps(table, mem, dumped + 2, 0) /\ out > low
    BY <1>5, <1>11
  <2>2. ASSUME NEW j \in dumped + 2 .. Len(table), table[j].at # 0, NEW u \in Run(table[j])
        PROVE  u \notin W
    <3>1. u < low - 1 \/ u >= RamTop + Limit
      BY <1>4, <1>11, <2>2 DEF Clear
    <3>2. PICK n \in Nat : n = Len(f)
      BY <1>7
    <3>3. W = out - 1 .. out + n - 2 /\ n <= Limit
      BY <1>7, <3>2
    <3> HIDE DEF W, f
    <3> QED  BY <1>4, <1>5, <2>1, <3>1, <3>2, <3>3
  <2>3. dumped + 2 \in Nat \ {0}
    BY <1>2
  <2>4. \A j \in dumped + 2 .. Len(table) : table[j].at # 0 => \A u \in Run(table[j]) : u # 0 => u \notin W
    BY <2>2
  <2> HIDE DEF W
  <2> QED  BY ONLY <1>3, <1>9, <2>1, <2>3, <2>4, Untouched, Zenon
<1>12. dumped = 0 \/ dumped > 0
  BY <1>2
<1>13. Keeps(table, mem', dumped + 2, 0)
  BY <1>10, <1>11, <1>12
<1>14. out \in low .. RamTop
  BY <1>4, <1>5, <1>12
<1>15. /\ Keeps(table', mem', dumped' + 1, 0)
       /\ dumped' # 0
       /\ Temp(files') /\ out' \in table'[1].at .. RamTop'
  <2>1. dumped' + 1 = dumped + 2 /\ dumped' # 0
    BY <1>1, <1>2
  <2> QED  BY <1>1, <1>5, <1>6, <1>13, <1>14, <2>1, Zenon DEF low
<1>16. InFiles'
  BY <1>15, Zenon DEF InFiles
<1> QED  BY <1>1, <1>8, <1>16
-----------------------------------------------------------------------------
\* Before, while and after files are made: the first invariant.
Untold == dumped = 0 /\ out = 0 /\ mem = [u \in Memory |-> u]

FilesPhases == {"files", "gzip", "put", "back"}

Kept ==
  ~over => /\ Stored(table, files, dumped)
           /\ ph = "files" => InFiles
           /\ ph = "gzip" => InGzip
           /\ ph = "put" => InPut
           /\ ph = "back" => InBack

Told ==
  /\ board \in Boards /\ tlvs \in Lists /\ comp \in BOOLEAN
  /\ ph \in {"crash", "parsed", "verified", "table", "mem", "header", "flash",
             "success", "failed", "reset"} \cup FilesPhases
  /\ ph \in {"crash", "parsed", "verified"} =>
       Untold /\ table = <<>> /\ left = board.ram /\ lastNo = 0
  /\ ph = "table" => Untold /\ \E d \in 0 .. 2 : Tabled(d)
  /\ ph = "flash" => dumped = 0
  /\ ph \in {"mem", "header"} => to = "mem"
  /\ ph \in FilesPhases => Filing /\ Kept
  /\ ph \in {"success", "failed"} => to = "mem" \/ over \/ Stored(table, files, dumped)

(* The invariant holds when the command starts.                            *)
LEMMA ToldFirst == DumpInit => Told
BY DumpAssumption DEF DumpInit, Told, Untold, FilesPhases

(* Nothing is dumped yet.                                                  *)
LEMMA UntoldNext ==
  ASSUME Untold, board' = board, dumped' = dumped, out' = out, mem' = mem
  PROVE  Untold'
BY UnitsNext DEF Untold

(* Steps before there is a table.                                          *)
LEMMA EarlyTold ==
  ASSUME Told, \/ \E env \in SUBSET Names : ParseConfig(env)
               \/ GiveUp \/ VerifyConfig \/ VerifyIface
  PROVE  Told'
<1>1. CASE \/ \E env \in SUBSET Names : ParseConfig(env)
           \/ GiveUp \/ VerifyConfig
  <2>1. /\ board' = board /\ tlvs' = tlvs /\ dumped' = dumped /\ out' = out /\ mem' = mem
        /\ table' = table /\ left' = left /\ lastNo' = lastNo /\ comp' \in BOOLEAN
        /\ ph' \in {"parsed", "verified", "reset"}
        /\ ph \in {"crash", "parsed", "verified"}
    <3>1. comp \in BOOLEAN
      BY DEF Told
    <3>2. CASE \E env \in SUBSET Names : ParseConfig(env)
      BY <3>2 DEF ParseConfig, tabVars, ramVars
    <3>3. CASE GiveUp \/ VerifyConfig
      BY <3>1, <3>3 DEF GiveUp, VerifyConfig, cfgVars, tabVars, ramVars
    <3> QED  BY <1>1, <3>2, <3>3
  <2>2. Untold'
    BY <2>1, UntoldNext DEF Told
  <2> QED  BY <2>1, <2>2 DEF Told, FilesPhases
<1>2. CASE VerifyIface
  <2>1. /\ board' = board /\ tlvs' = tlvs /\ dumped' = dumped /\ out' = out /\ mem' = mem
        /\ table' = table /\ left' = left /\ lastNo' = lastNo /\ comp' = comp
        /\ ph' = "table" /\ ph = "verified" /\ todo' = Wanted
    BY <1>2 DEF VerifyIface, cfgVars, ramVars
  <2>2. /\ Untold' /\ table = <<>> /\ left = board.ram /\ lastNo = 0
        /\ board \in Boards /\ tlvs \in Lists /\ comp \in BOOLEAN
    <3>1. /\ Untold /\ table = <<>> /\ left = board.ram /\ lastNo = 0
          /\ board \in Boards /\ tlvs \in Lists /\ comp \in BOOLEAN
      BY <2>1 DEF Told
    <3> QED  BY <2>1, <3>1, UntoldNext
  <2>3. board.banks \in {1, 2}
    BY <2>2, Banks
  <2>4. \E d \in 0 .. 2 : Tabled(d)'
    <3>1. CASE level = "mini"
      <4>1. Drams(todo, 0)'
        BY <2>1, <2>3, <3>1, DramsWanted DEF Drams
      <4>2. to' # "flash" => Shape(table)'
        BY <2>1, <2>2, EmptyShape, ShapeNext
      <4>3. Tabled(0)'
        BY <4>1, <4>2 DEF Tabled
      <4> QED  BY <4>3
    <3>2. CASE level # "mini"
      <4>1. PICK d \in 0 .. 2 : d = board.banks
        BY <2>3
      <4>2. Drams(todo, d)'
        BY <2>1, <2>3, <3>2, <4>1, DramsWanted DEF Drams
      <4>3. Tabled(d)'
        BY <2>1, <2>2, <4>1, <4>2 DEF Tabled
      <4> QED  BY <4>3
    <3> QED  BY <3>1, <3>2
  <2> QED  BY <2>1, <2>2, <2>4 DEF Told, FilesPhases
<1> QED  BY <1>1, <1>2

(* Steps that make it.                                                     *)
LEMMA TableTold ==
  ASSUME Told, \/ AddDram \/ NoDram \/ \E k \in {"plain", "aligned", "cpu"} : AddPlain(k)
               \/ \E k \in {"uname", "dmesg", "pt"} : AddSegment(k)
               \/ AddModules
  PROVE  Told'
<1>1. /\ ph = "table" /\ ph' = ph /\ board' = board /\ tlvs' = tlvs /\ comp' = comp
      /\ dumped' = dumped /\ out' = out /\ mem' = mem
  BY DEF AddDram, NoDram, AddPlain, AddSegment, AddModules, TableStep, cfgVars, ramVars
<1>2. Untold' /\ board \in Boards /\ tlvs \in Lists /\ comp \in BOOLEAN
  BY <1>1, UntoldNext DEF Told
<1>3. PICK d \in 0 .. 2 : Tabled(d)
  BY <1>1 DEF Told
<1>4. \E k \in 0 .. 2 : Tabled(k)'
  <2>1. CASE AddDram
    <3>1. d # 0 /\ Tabled(d - 1)'
      BY <1>2, <1>3, <2>1, DramTabled
    <3> QED  BY <1>3, <3>1
  <2>2. CASE NoDram
    <3>1. Tabled(0)'
      BY <1>2, <1>3, <2>2, NoDramTabled
    <3> QED  BY <3>1
  <2>3. CASE \E k \in {"plain", "aligned", "cpu"} : AddPlain(k)
    <3>1. Tabled(0)'
      BY <1>2, <1>3, <2>3, PlainTabled
    <3> QED  BY <3>1
  <2>4. CASE \E k \in {"uname", "dmesg", "pt"} : AddSegment(k)
    <3>1. Tabled(0)'
      BY <1>2, <1>3, <2>4, SegmentTabled
    <3> QED  BY <3>1
  <2>5. CASE AddModules
    <3>1. Tabled(0)'
      BY <1>2, <1>3, <2>5, ModulesTabled
    <3> QED  BY <3>1
  <2> QED  BY <2>1, <2>2, <2>3, <2>4, <2>5
<1> QED  BY <1>1, <1>2, <1>4 DEF Told, FilesPhases

\* A failure while the full dump's entries are put in, of which nothing is said.
Overlooked == ph' = "table" /\ level = "both" /\ todo' = Minis /\ short' = TRUE /\ table' = table

(* What the table then holds, and that no bank is to come.                 *)
LEMMA OverlookedTabled ==
  ASSUME Told, TableFails, Overlooked
  PROVE  Tabled(0)'
<1>1. ph = "table" /\ board' = board /\ comp' = comp /\ to' = to /\ todo' = Minis /\ table' = table
  BY DEF TableFails, Overlooked, cfgVars
<1>2. PICK d \in 0 .. 2 : Tabled(d)
  BY <1>1 DEF Told
<1>3. to # "flash" => Shape(table)
  BY <1>2, EmptyShape DEF Tabled, FirstDone
<1>4. to' # "flash" => Shape(table)'
  BY <1>1, <1>3, ShapeNext
<1>5. Drams(Minis, 0)
  BY DEF Drams, Minis, Kinds
<1> QED  BY <1>1, <1>4, <1>5 DEF Tabled, Drams

(* The end of the table.                                                   *)
LEMMA TableLeft ==
  ASSUME Told, TableFails \/ TableDone
  PROVE  Told'
<1>1. CASE TableFails
  <2>1. /\ board' = board /\ tlvs' = tlvs /\ comp' = comp /\ ph = "table"
        /\ ph' = "reset" \/ Overlooked
    BY <1>1 DEF TableFails, Overlooked, cfgVars
  <2>2. CASE ph' = "reset"
    BY <2>1, <2>2 DEF Told, FilesPhases
  <2>3. CASE Overlooked
    <3>1. Untold /\ board \in Boards /\ tlvs \in Lists /\ comp \in BOOLEAN
      BY <2>1 DEF Told
    <3>2. Untold'
      BY <1>1, <2>1, <3>1, UnitsNext DEF TableFails, Untold, ramVars
    <3>3. Tabled(0)'
      BY <1>1, <2>1, <2>3, OverlookedTabled
    <3> QED  BY <2>1, <2>3, <3>1, <3>2, <3>3 DEF Told, Overlooked, FilesPhases
  <2> QED  BY <2>1, <2>2, <2>3
<1>2. CASE TableDone
  <2>1. /\ board' = board /\ tlvs' = tlvs /\ comp' = comp /\ to' = to
        /\ dumped' = dumped /\ out' = out /\ mem' = mem /\ table' = table /\ files' = files
        /\ ph = "table" /\ todo = <<>>
        /\ ph' = IF to \in {"flash", "nvmem"} THEN "flash" ELSE IF to = "mem" THEN "mem" ELSE "files"
    BY <1>2 DEF TableDone, cfgVars, tabVars, ramVars
  <2>2. Untold /\ board \in Boards /\ tlvs \in Lists /\ comp \in BOOLEAN
    BY <2>1 DEF Told
  <2>3. CASE ph' \in {"flash", "mem"}
    <3>1. dumped' = 0 /\ (ph' = "mem" => to' = "mem")
      BY <2>1, <2>2 DEF Untold
    <3> QED  BY <2>1, <2>2, <2>3, <3>1 DEF Told, FilesPhases
  <2>4. CASE ph' = "files"
    <3>1. PICK d \in 0 .. 2 : Tabled(d)
      BY <2>1 DEF Told
    <3>2. d = 0
      <4>1. Drams(todo, d)
        BY <3>1 DEF Tabled
      <4>2. Len(todo) = 0
        BY <2>1
      <4> QED  BY <3>1, <4>1, <4>2 DEF Drams
    <3>3. Shape(table)
      <4>1. board.banks # 0 /\ to # "flash"
        BY <2>1, <2>2, <2>4, Banks
      <4> QED  BY <3>1, <3>2, <4>1 DEF Tabled
    <3>4. Shape(table)' /\ Len(table) \in Nat
      BY <2>1, <3>3, ShapeNext DEF Shape
    <3>5. Filing'
      BY <2>1, <2>2, <2>4, <3>4 DEF Filing, Untold
    <3>6. Keeps(table, mem, 1, 0)
      <4>1. ASSUME NEW j \in 1 .. Len(table), table[j].at # 0, NEW u \in Run(table[j])
            PROVE  mem[u] = u
        <5>1. u \in Memory
          BY <2>2, <3>3, <4>1, Geometry
        <5> QED  BY <2>2, <5>1 DEF Untold
      <4> QED  BY <4>1 DEF Keeps
    <3>7. Memory' = Memory /\ dumped' = 0
      BY <2>1, <2>2, UnitsNext DEF Untold
    <3>8. Keeps(table', mem', dumped' + 1, 0)
      BY <2>1, <3>6, <3>7
    <3>9. out' = 0 /\ mem' = [u \in Memory' |-> u]
      BY <2>1, <2>2, <3>7 DEF Untold
    <3>10. InFiles'
      BY <3>7, <3>8, <3>9 DEF InFiles
    <3>11. Stored(table', files', dumped')
      BY <3>7 DEF Stored
    <3>12. Kept'
      BY <2>4, <3>10, <3>11 DEF Kept
    <3> QED  BY <2>1, <2>2, <2>4, <3>5, <3>12 DEF Told, FilesPhases
  <2> QED  BY <2>1, <2>3, <2>4
<1> QED  BY <1>1, <1>2

(* Steps that store files.                                                 *)
LEMMA FilesTold ==
  ASSUME Told, \/ DumpPlain \/ Backup \/ NextPart \/ \E z \in 1 .. Limit : Compress(z)
               \/ Put \/ Reload
  PROVE  Told'
<1>1. /\ ph \in FilesPhases /\ ph' \in FilesPhases /\ dumped < Len(table)
      /\ board' = board /\ tlvs' = tlvs /\ comp' = comp /\ table' = table
      /\ over => over'
  <2>1. CASE DumpPlain \/ Backup
    <3>1. CASE DumpPlain
      BY <2>1, <3>1 DEF DumpPlain, FileStep, Entries, cfgVars, tabVars, FilesPhases
    <3>2. CASE Backup
      <4>1. over => over'
        BY <3>2, Zenon DEF Backup, Begin
      <4>2. /\ ph = "files" /\ ph' = "gzip" /\ dumped < Len(table)
            /\ board' = board /\ tlvs' = tlvs /\ comp' = comp /\ table' = table
        BY <3>2 DEF Backup, Begin, FileStep, Entries, cfgVars, tabVars
      <4> QED  BY <4>1, <4>2 DEF FilesPhases
    <3> QED  BY <2>1, <3>1, <3>2
  <2>2. CASE NextPart
    <3>1. over => over'
      BY <2>2, Zenon DEF NextPart, Begin
    <3>2. /\ ph = "files" /\ ph' = "gzip" /\ dumped < Len(table)
          /\ board' = board /\ tlvs' = tlvs /\ comp' = comp /\ table' = table
      BY <2>2 DEF NextPart, Begin, FileStep, Entries, cfgVars, tabVars
    <3> QED  BY <3>1, <3>2 DEF FilesPhases
  <2>3. CASE \E z \in 1 .. Limit : Compress(z)
    BY <2>3 DEF Compress, FileStep, Entries, cfgVars, tabVars, FilesPhases
  <2>4. CASE Put \/ Reload
    BY <2>4 DEF Put, Reload, FileStep, Entries, cfgVars, tabVars, FilesPhases
  <2> QED  BY <2>1, <2>2, <2>3, <2>4
<1>2. Filing /\ board \in Boards /\ tlvs \in Lists /\ comp \in BOOLEAN
  BY <1>1 DEF Told
<1>3. ~over' => /\ ~over /\ Stored(table, files, dumped)
                /\ ph = "files" => InFiles
                /\ ph = "gzip" => InGzip
                /\ ph = "put" => InPut
                /\ ph = "back" => InBack
  BY <1>1 DEF Told, Kept
<1>4. dumped \in Nat /\ Len(table) \in Nat /\ dumped + 1 \in 0 .. Len(table) /\ dumped \in 0 .. Len(table)
  BY <1>1, <1>2, AtHand
<1>5. ASSUME ph' = "files", dumped' \in 0 .. Len(table) PROVE Filing'
  BY <1>1, <1>2, <1>5, FilingNext
<1>6. ASSUME dumped' = dumped, E.gz PROVE Filing'
  BY <1>1, <1>2, <1>4, <1>6, FilingNext
<1>7. Filing' /\ Kept'
  <2>1. CASE DumpPlain
    <3>1. ph = "files" /\ ph' = "files" /\ dumped' = dumped + 1
      BY <2>1 DEF DumpPlain
    <3>2. Filing'
      BY <1>4, <1>5, <3>1
    <3>3. ~over' => Stored(table, files, dumped)' /\ InFiles'
      BY <1>2, <1>3, <2>1, <3>1, PlainKeeps
    <3> QED  BY <3>1, <3>2, <3>3 DEF Kept
  <2>2. CASE Backup
    <3>1. ph = "files" /\ ph' = "gzip" /\ dumped' = dumped /\ E.gz
      BY <2>2 DEF Backup, Begin
    <3>2. Filing'
      BY <1>6, <3>1
    <3>3. ~over' => Stored(table, files, dumped)' /\ InGzip'
      BY <1>2, <1>3, <2>2, <3>1, BackupKeeps
    <3> QED  BY <3>1, <3>2, <3>3 DEF Kept
  <2>3. CASE NextPart
    <3>1. ph = "files" /\ ph' = "gzip" /\ dumped' = dumped /\ E.gz
      BY <2>3 DEF NextPart, Begin
    <3>2. Filing'
      BY <1>6, <3>1
    <3>3. ~over' => Stored(table, files, dumped)' /\ InGzip'
      BY <1>2, <1>3, <2>3, <3>1, NextKeeps
    <3> QED  BY <3>1, <3>2, <3>3 DEF Kept
  <2>4. ASSUME NEW z \in 1 .. Limit, Compress(z) PROVE Filing' /\ Kept'
    <3>1. ph = "gzip" /\ ph' = "put" /\ dumped' = dumped
      BY <2>4 DEF Compress
    <3>2. Filing'
      BY <1>2, <1>6, <3>1 DEF Filing
    <3>3. ~over' => Stored(table, files, dumped)' /\ InPut'
      BY <1>2, <1>3, <2>4, <3>1, CompressKeeps
    <3> QED  BY <3>1, <3>2, <3>3 DEF Kept
  <2>5. CASE Put
    <3>1. /\ ph = "put" /\ (ph' = "files" \/ ph' = "back")
          /\ ph' = "files" => dumped' = dumped + 1
          /\ ph' = "back" => dumped' = dumped
      BY <2>5 DEF Put
    <3>2. Filing'
      <4>1. E.gz
        BY <1>2, <3>1 DEF Filing
      <4> QED  BY <1>4, <1>5, <1>6, <3>1, <4>1
    <3>3. ~over' => /\ Stored(table, files, dumped)'
                    /\ ph' = "files" => InFiles'
                    /\ ph' = "back" => InBack'
      BY <1>2, <1>3, <2>5, <3>1, PutKeeps
    <3> QED  BY <3>1, <3>2, <3>3 DEF Kept
  <2>6. CASE Reload
    <3>1. ph = "back" /\ ph' = "files" /\ dumped' = dumped + 1
      BY <2>6 DEF Reload
    <3>2. Filing'
      BY <1>4, <1>5, <3>1
    <3>3. ~over' => Stored(table, files, dumped)' /\ InFiles'
      BY <1>2, <1>3, <2>6, <3>1, ReloadKeeps
    <3> QED  BY <3>1, <3>2, <3>3 DEF Kept
  <2> QED  BY <2>1, <2>2, <2>3, <2>4, <2>5, <2>6
<1> QED  BY <1>1, <1>2, <1>7 DEF Told, FilesPhases

(* Steps to reserved memory, and the end.                                  *)
LEMMA EndTold ==
  ASSUME Told, DumpFails \/ FilesDone \/ DumpToMem \/ StoreList \/ StoreHeader \/ Reset
  PROVE  Told'
<1>1. board' = board /\ tlvs' = tlvs /\ comp' = comp /\ to' = to
  BY DEF DumpFails, FilesDone, DumpToMem, StoreList, StoreHeader, Reset, cfgVars
<1>2. board \in Boards /\ tlvs \in Lists /\ comp \in BOOLEAN
  BY DEF Told
<1>3. CASE DumpFails \/ FilesDone
  <2>1. /\ ph' \in {"success", "failed"} /\ ph \in FilesPhases \cup {"mem"}
        /\ over' = over /\ table' = table /\ files' = files /\ dumped' = dumped
    BY <1>3 DEF DumpFails, FilesDone, FileStep, tabVars, ramVars, FilesPhases
  <2>2. to = "mem" \/ over \/ Stored(table, files, dumped)
    BY <2>1 DEF Told, Kept
  <2>3. to' = "mem" \/ over' \/ Stored(table', files', dumped')
    BY <1>1, <2>1, <2>2
  <2> QED  BY <1>1, <1>2, <2>1, <2>3 DEF Told, FilesPhases
<1>4. CASE DumpToMem \/ StoreList \/ StoreHeader
  <2>1. /\ ph \in {"mem", "header"} /\ ph' \in {"mem", "header", "success"}
    BY <1>4 DEF DumpToMem, StoreList, StoreHeader
  <2>2. to' = "mem"
    BY <1>1, <2>1 DEF Told
  <2> QED  BY <1>1, <1>2, <2>1, <2>2 DEF Told, FilesPhases
<1>5. CASE Reset
  <2>1. ph' = "reset"
    BY <1>5 DEF Reset
  <2> QED  BY <1>1, <1>2, <2>1 DEF Told, FilesPhases
<1> QED  BY <1>3, <1>4, <1>5

(* Steps of nothing.                                                       *)
LEMMA ToldStays == Told /\ UNCHANGED dumpVars => Told'
<1> SUFFICES ASSUME Told, UNCHANGED dumpVars PROVE Told'
  OBVIOUS
<1>1. /\ board' = board /\ tlvs' = tlvs /\ comp' = comp /\ to' = to /\ ph' = ph
      /\ table' = table /\ todo' = todo /\ left' = left /\ lastNo' = lastNo
      /\ dumped' = dumped /\ files' = files
      /\ mem' = mem /\ out' = out /\ cur' = cur /\ over' = over
  BY DEF dumpVars, cfgVars, tabVars, ramVars
<1>2. Memory' = Memory /\ RamTop' = RamTop /\ Size0' = Size0
  BY <1>1, UnitsNext DEF Size0
<1>3. \A t : Shape(t) <=> Shape(t)'
  BY <1>1 DEF Shape, DramRow, OtherRow, Apart, InBank0, InBank1, RamTop, Size0
<1>4. Untold <=> Untold'
  BY <1>1, <1>2 DEF Untold
<1>5. FirstDone <=> FirstDone'
  BY <1>1, <1>2, <1>3 DEF FirstDone, Below, InBank0
<1>6. \A d : Tabled(d) <=> Tabled(d)'
  BY <1>1, <1>2, <1>3, <1>5 DEF Tabled, Drams
<1>7. Filing <=> Filing'
  BY <1>1, <1>3 DEF Filing, E
<1>8. Kept <=> Kept'
  BY <1>1, <1>2 DEF Kept, InFiles, InGzip, InPut, InBack, Saved, E, IsFirstPart
<1> QED  BY <1>1, <1>4, <1>6, <1>7, <1>8 DEF Told

(* The invariant is strong enough.                                         *)
LEMMA ToldMeans == Told => FilesAreTheMemory
BY DEF Told, Kept, Untold, Stored, Has, FilesPhases, FilesAreTheMemory

(* A file that was stored holds the memory as it was at the crash, unless  *)
(* a part or its output went outside the memory (dump_to_dst).             *)
THEOREM DumpIsTrue == DumpSpec => []FilesAreTheMemory
<1>1. Told /\ [DumpNext]_dumpVars => Told'
  BY EarlyTold, TableTold, TableLeft, FilesTold, EndTold, ToldStays DEF DumpNext
<1> QED  BY ToldFirst, <1>1, ToldMeans, PTL DEF DumpSpec
-----------------------------------------------------------------------------
\* What a table lists, and the memory it covers.
TableNames(t) == {t[i].name : i \in 1 .. Len(t)}
Holds(t, u) == \E i \in 1 .. Len(t) : t[i].at # 0 /\ u \in Run(t[i])

\* The entries still to be added, the log before the modules it narrows.
Waits(q, kind) == \E i \in 1 .. Len(q) : q[i] = kind
Later(q) == \A i \in 1 .. Len(q) : q[i] = "dmesg" => \E k \in i+1 .. Len(q) : q[k] = "wlan"

\* The TLV that is taken of a type there is one of.
First(kind, j) == j \in Tlvs({kind}) /\ \A i \in Tlvs({kind}) : j <= i

\* The segments that had their turn, and the banks.
Listed ==
  level # "full" /\ to # "flash" =>
    /\ \A kind \in {"uname", "dmesg", "pt"} :
         Waits(todo, kind) \/ \A j \in 1 .. Len(tlvs) : First(kind, j) => <<"tlv", j>> \in TableNames(table)
    /\ Waits(todo, "wlan") \/ \A j \in Modules : <<"tlv", j>> \in TableNames(table)

\* The banks that had theirs, d being left.
Covered(d) ==
  level # "mini" /\ ~short /\ to # "flash" =>
    /\ board.banks = 2 /\ d = 1 => \A u \in Base .. RamTop - 1 : Holds(table, u)
    /\ d = 0 => \A u \in Memory : Holds(table, u)

\* The table when it is made.
Full ==
  /\ table \in Seq(Rows)
  /\ level # "full" => DueTlvs \subseteq TableNames(table)
  /\ level # "mini" /\ ~short => \A u \in Memory : Holds(table, u)

\* What has been dumped is there.
Filed ==
  /\ to # "mem"
  /\ \A i \in 1 .. dumped : table[i].name \in DOMAIN files
  /\ ph = "back" => E.name \in DOMAIN files

\* The reserved memory: what a list says of it, and what a header does.
Promises(r, l) ==
  \A k \in 1 .. Len(l) : \A i \in 1 .. l[k].n :
    /\ l[k].off + i - 1 \in DOMAIN r
    /\ r[l[k].off + i - 1] = <<"data", l[k].name, i>>

Header ==
  rsv[0][1] = "hdr" =>
    rsv[0][2] \in DOMAIN rsv /\ rsv[rsv[0][2]][1] = "list" /\ Promises(rsv, rsv[rsv[0][2]][2])

\* How far a dump into it is: no header, and what is listed is in place.
Ranges == [name : EntryNames, off : Nat \ {0}, n : Nat]
Filling ==
  /\ rsv[0][1] # "hdr" /\ Shape(table)
  /\ curr \in Nat \ {0} /\ lst \in Seq(Ranges) /\ dumped = Len(lst) /\ dumped \in 0 .. Len(table)
  /\ \A k \in 1 .. Len(lst) : lst[k].name = table[k].name /\ lst[k].off + lst[k].n <= curr
  /\ Promises(rsv, lst)

Backed == DOMAIN rsv = 0 .. Room - 1 /\ Room \in Reserved /\ Header

\* The second invariant.
Sound ==
  /\ Backed
  /\ ph \in {"crash", "parsed", "verified", "table"} => lst = <<>>
  /\ ph \notin {"crash", "parsed", "reset"} /\ to = "mem" => level = "mini"
  /\ ph = "table" => /\ Later(todo) /\ Listed
                     /\ \E d \in 0 .. 2 : Tabled(d) /\ Covered(d)
                     /\ to = "mem" => rsv[0][1] # "hdr" /\ curr = 1
  /\ ph \in FilesPhases \cup {"mem", "header", "success"} => Full
  /\ ph \in FilesPhases => Filed
  /\ ph \in {"mem", "header"} => Filling
  /\ ph = "header" => dumped = Len(table) /\ curr \in DOMAIN rsv /\ rsv[curr] = <<"list", lst>>
  /\ ph = "success" /\ to # "mem" => TableNames(table) \subseteq DOMAIN files /\ dumped = Len(table)
  /\ ph = "success" /\ to = "mem" =>
       TableNames(table) \subseteq {l.name : l \in {lst[k] : k \in 1 .. Len(lst)}}

(* What waits behind the entry at hand.                                    *)
LEMMA TailWaits ==
  ASSUME NEW q \in Seq(Kinds), q # <<>>
  PROVE  /\ Later(q) => Later(Tail(q))
         /\ \A kind : Waits(q, kind) => Head(q) = kind \/ Waits(Tail(q), kind)
         /\ Later(q) /\ Head(q) = "dmesg" => Waits(Tail(q), "wlan")
<1> DEFINE r == Tail(q)
<1>1. /\ r \in Seq(Kinds) /\ Len(r) = Len(q) - 1
      /\ \A i \in 1 .. Len(r) : r[i] = q[i+1]
  BY HeadTailProperties, Zenon
<1>2. Head(q) = q[1] /\ Len(q) \in Nat
  OBVIOUS
<1>3. Len(q) > 0
  BY <1>2, EmptySeq
<1> HIDE DEF r
<1>4. ASSUME NEW i \in 1 .. Len(q), i # 1
      PROVE  i - 1 \in 1 .. Len(r) /\ r[i-1] = q[i]
  BY <1>1, <1>2, <1>4
<1>5. ASSUME Later(q) PROVE Later(r)
  <2>1. ASSUME NEW i \in 1 .. Len(r), r[i] = "dmesg"
        PROVE  \E k \in i+1 .. Len(r) : r[k] = "wlan"
    <3>1. i + 1 \in 1 .. Len(q) /\ q[i+1] = "dmesg"
      BY <1>1, <1>2, <2>1
    <3>2. PICK k \in i+2 .. Len(q) : q[k] = "wlan"
      <4>1. PICK k \in (i+1)+1 .. Len(q) : q[k] = "wlan"
        BY <1>5, <3>1 DEF Later
      <4> QED  BY <4>1
    <3>3. k - 1 \in i+1 .. Len(r) /\ r[k-1] = "wlan"
      BY <1>1, <1>2, <1>4, <3>2
    <3> QED  BY <3>3
  <2> QED  BY <2>1 DEF Later
<1>6. ASSUME NEW kind, Waits(q, kind), q[1] # kind PROVE Waits(r, kind)
  <2>1. PICK i \in 1 .. Len(q) : q[i] = kind
    BY <1>6 DEF Waits
  <2> QED  BY <1>4, <1>6, <2>1 DEF Waits
<1>7. ASSUME Later(q), q[1] = "dmesg" PROVE Waits(r, "wlan")
  <2>1. PICK k \in 2 .. Len(q) : q[k] = "wlan"
    <3>1. 1 \in 1 .. Len(q)
      BY <1>2, <1>3
    <3>2. PICK k \in 1+1 .. Len(q) : q[k] = "wlan"
      BY <1>7, <3>1 DEF Later
    <3> QED  BY <3>2
  <2>2. k \in 1 .. Len(q) /\ k # 1
    OBVIOUS
  <2> QED  BY <1>4, <2>1, <2>2 DEF Waits
<1> QED  BY <1>2, <1>5, <1>6, <1>7 DEF r

(* All segments wait at first, the modules behind the log.                 *)
LEMMA LaterMinis ==
  Later(Minis) /\ \A kind \in {"uname", "dmesg", "pt", "wlan"} : Waits(Minis, kind)
<1>1. /\ Minis \in Seq(Kinds) /\ Len(Minis) = 5
      /\ Minis[1] = "cpu" /\ Minis[2] = "uname" /\ Minis[3] = "dmesg"
      /\ Minis[4] = "pt" /\ Minis[5] = "wlan"
  BY DEF Minis, Kinds
<1>2. Later(Minis)
  <2>1. \A i \in 1 .. 5 : Minis[i] = "dmesg" => i = 3
    BY <1>1
  <2> QED  BY <1>1, <2>1 DEF Later
<1>3. 2 \in 1 .. 5 /\ 3 \in 1 .. 5 /\ 4 \in 1 .. 5 /\ 5 \in 1 .. 5
  OBVIOUS
<1> QED  BY <1>1, <1>2, <1>3 DEF Waits

(* ... and of all that is wanted.                                          *)
LEMMA LaterWanted ==
  /\ Later(Wanted)
  /\ level # "full" => \A kind \in {"uname", "dmesg", "pt", "wlan"} : Waits(Wanted, kind)
<1>1. /\ Fulls \in Seq(Kinds) /\ \A i \in 1 .. Len(Fulls) : Fulls[i] # "dmesg"
  <2>1. CASE board.banks = 1
    BY <2>1 DEF Fulls, Kinds
  <2>2. CASE board.banks # 1
    BY <2>2 DEF Fulls, Kinds
  <2> QED  BY <2>1, <2>2
<1>2. /\ Minis \in Seq(Kinds) /\ Len(Minis) = 5
      /\ Minis[1] = "cpu" /\ Minis[2] = "uname" /\ Minis[3] = "dmesg"
      /\ Minis[4] = "pt" /\ Minis[5] = "wlan"
  BY DEF Minis, Kinds
<1>3. Later(Fulls)
  BY <1>1 DEF Later
<1>4. Later(Minis) /\ \A kind \in {"uname", "dmesg", "pt", "wlan"} : Waits(Minis, kind)
  BY LaterMinis
<1> DEFINE w == Fulls \o Minis
<1>4a. w \in Seq(Kinds) /\ Joined(w, Fulls, Minis)
  <2>1. Fulls \in Seq(Kinds) /\ Minis \in Seq(Kinds)
    BY <1>1, <1>2
  <2> QED  BY <2>1, Behind
<1> HIDE DEF w
<1>5. /\ w \in Seq(Kinds) /\ Len(w) = Len(Fulls) + Len(Minis)
      /\ Len(Fulls) \in Nat /\ Len(Minis) \in Nat
      /\ \A i \in 1 .. Len(Fulls) : w[i] = Fulls[i]
      /\ \A i \in 1 .. Len(Minis) : w[Len(Fulls) + i] = Minis[i]
      /\ \A i \in 1 .. Len(w) : i \in 1 .. Len(Fulls)
            \/ (i - Len(Fulls) \in 1 .. Len(Minis) /\ w[i] = Minis[i - Len(Fulls)])
  BY <1>4a DEF Joined
<1>6. Later(w)
  <2>1. ASSUME NEW i \in 1 .. Len(w), w[i] = "dmesg"
        PROVE  \E k \in i+1 .. Len(w) : w[k] = "wlan"
    <3>1. i - Len(Fulls) \in 1 .. 5 /\ Minis[i - Len(Fulls)] = "dmesg"
      BY <1>1, <1>2, <1>5, <2>1
    <3>2. i - Len(Fulls) # 5
      BY <1>2, <3>1
    <3>3. Len(Fulls) + 5 \in i+1 .. Len(w) /\ w[Len(Fulls) + 5] = "wlan"
      BY <1>2, <1>5, <3>1, <3>2
    <3> QED  BY <3>3
  <2> QED  BY <2>1 DEF Later
<1>7. \A kind \in {"uname", "dmesg", "pt", "wlan"} : Waits(w, kind)
  <2> TAKE kind \in {"uname", "dmesg", "pt", "wlan"}
  <2>1. PICK i \in 1 .. Len(Minis) : Minis[i] = kind
    BY <1>4 DEF Waits
  <2>2. Len(Fulls) + i \in 1 .. Len(w) /\ w[Len(Fulls) + i] = kind
    BY <1>5, <2>1
  <2> QED  BY <2>2 DEF Waits
<1> QED  BY <1>3, <1>4, <1>6, <1>7 DEF Wanted, w

(* What is added is listed, and what was listed stays.                     *)
LEMMA Grown ==
  ASSUME NEW t \in Seq(Rows), NEW q \in Seq(Rows)
  PROVE  /\ TableNames(t) \subseteq TableNames(t \o q) /\ TableNames(q) \subseteq TableNames(t \o q)
         /\ \A u : Holds(t, u) \/ Holds(q, u) => Holds(t \o q, u)
<1> DEFINE w == t \o q
<1>0. w \in Seq(Rows) /\ Joined(w, t, q)
  BY Behind
<1> HIDE DEF w
<1>1. /\ w \in Seq(Rows) /\ Len(w) = Len(t) + Len(q)
      /\ Len(t) \in Nat /\ Len(q) \in Nat
      /\ \A i \in 1 .. Len(t) : w[i] = t[i]
      /\ \A i \in 1 .. Len(q) : w[Len(t) + i] = q[i]
      /\ \A i \in 1 .. Len(w) :
           i \in 1 .. Len(t) \/ (i - Len(t) \in 1 .. Len(q) /\ w[i] = q[i - Len(t)])
  BY <1>0 DEF Joined
<1>2. /\ \A i \in 1 .. Len(t) : i \in 1 .. Len(w)
      /\ \A i \in 1 .. Len(q) : Len(t) + i \in 1 .. Len(w)
  BY <1>1
<1>3. TableNames(t) \subseteq TableNames(w) /\ TableNames(q) \subseteq TableNames(w)
  <2>1. \A i \in 1 .. Len(t) : t[i].name \in TableNames(w)
    BY <1>1, <1>2 DEF TableNames
  <2>2. \A i \in 1 .. Len(q) : q[i].name \in TableNames(w)
    <3> TAKE i \in 1 .. Len(q)
    <3>1. PICK k \in 1 .. Len(w) : k = Len(t) + i
      BY <1>2
    <3>2. w[k].name = q[i].name
      BY <1>1, <3>1
    <3> QED  BY <3>2 DEF TableNames
  <2> QED  BY <2>1, <2>2, Zenon DEF TableNames
<1>4. ASSUME NEW u, Holds(t, u) \/ Holds(q, u) PROVE Holds(w, u)
  <2>1. CASE Holds(t, u)
    <3>1. PICK i \in 1 .. Len(t) : t[i].at # 0 /\ u \in Run(t[i])
      BY <2>1 DEF Holds
    <3> QED  BY <1>1, <1>2, <3>1 DEF Holds
  <2>2. CASE Holds(q, u)
    <3>1. PICK i \in 1 .. Len(q) : q[i].at # 0 /\ u \in Run(q[i])
      BY <2>2 DEF Holds
    <3> QED  BY <1>1, <1>2, <3>1 DEF Holds
  <2> QED  BY <1>4, <2>1, <2>2
<1> QED  BY <1>3, <1>4 DEF w

(* A bank's files cover it in the table.                                   *)
LEMMA CoversHolds ==
  ASSUME NEW a \in Nat \ {0}, NEW n \in Nat, NEW no, NEW r, Bank(r, a, n, no), Covers(r, a, n)
  PROVE  \A u \in a .. a + n - 1 : Holds(r, u)
<1>1. ASSUME NEW u \in a .. a + n - 1 PROVE Holds(r, u)
  <2>1. PICK i \in 1 .. Len(r) : r[i].at <= u /\ u < r[i].at + r[i].n
    BY DEF Covers
  <2>2. r[i] \in Rows /\ a <= r[i].at
    BY DEF Bank
  <2>3. r[i].at \in Nat /\ r[i].n \in Nat
    BY <2>2 DEF Rows
  <2>4. r[i].at # 0 /\ u \in Run(r[i])
    BY <2>1, <2>2, <2>3 DEF Run
  <2> QED  BY <2>4 DEF Holds
<1> QED  BY <1>1

(* The banks are covered as they are added.                                *)
LEMMA DramCovers ==
  ASSUME board \in Boards, comp \in BOOLEAN, NEW d, Tabled(d), Covered(d), AddDram
  PROVE  Covered(d - 1)'
<1>1. /\ todo # <<>> /\ Head(todo) = "dram" /\ todo' = Tail(todo)
      /\ board' = board /\ to' = to /\ level' = level
  BY DEF AddDram, TableStep, cfgVars
<1>2. d # 0 /\ d \in 0 .. 2
  <2>1. Drams(todo, d)
    BY DEF Tabled
  <2> QED  BY <1>1, <2>1, DramsTail DEF Drams
<1>3. /\ board.ram \in Nat /\ board.ram > 1
      /\ Size0 \in Nat /\ Size0 <= board.ram /\ Base = 3 /\ board.base1 \in Nat
      /\ board.banks \in {1, 2} /\ (board.banks = 1 => Size0 = board.ram)
      /\ board.ram > Size0 => board.base1 # 0
      /\ RamTop = 3 + Size0
  BY Banks
<1>4. RamTop' = RamTop /\ Memory' = Memory /\ Base' = Base
  BY <1>1, UnitsNext DEF Base
<1>5. ~short' => ~short
  <2>1. short' = short \/ short' = TRUE
    BY Zenon DEF AddDram
  <2> QED  BY <2>1
<1> SUFFICES ASSUME level # "mini", ~short', to # "flash"
             PROVE  /\ board.banks = 2 /\ d - 1 = 1 => \A u \in Base .. RamTop - 1 : Holds(table', u)
                    /\ d - 1 = 0 => \A u \in Memory : Holds(table', u)
  BY <1>1, <1>4, Zenon DEF Covered
<1>6. CASE d = board.banks /\ left = board.ram /\ lastNo = 0 /\ table = <<>>
  <2>1. DramSize = Size0 /\ DramAt = Base /\ DramNo = 0
    BY <1>3, <1>6 DEF DramSize, DramAt, DramNo
  <2>2. PICK r : /\ Bank(r, Base, Size0, 0) /\ Covers(r, Base, Size0)
                 /\ table' = table \o r
    BY <1>3, <1>6, <2>1, DramRows
  <2>3. table' = r
    BY <1>6, <2>2 DEF Bank
  <2>4. \A u \in Base .. RamTop - 1 : Holds(r, u)
    <3>1. Base .. RamTop - 1 = Base .. Base + Size0 - 1
      BY <1>3
    <3> QED  BY <1>3, <2>2, <3>1, CoversHolds
  <2>5. d - 1 = 0 => \A u \in Memory : u \in Base .. RamTop - 1
    BY <1>2, <1>3, <1>6, UnitsAre
  <2> QED  BY <2>3, <2>4, <2>5
<1>7. CASE /\ d = 1 /\ board.banks = 2 /\ left = board.ram - Size0 /\ Size0 > 0 /\ lastNo \in Nat
           /\ FirstDone
  <2>1. left # board.ram /\ left \in Nat
    BY <1>3, <1>7
  <2>2. DramSize = left /\ DramAt = board.base1 /\ DramNo = lastNo
    BY <1>7, <2>1 DEF DramSize, DramAt, DramNo
  <2>3. board.base1 # 0
    <3>1. DramSize > 0
      BY Zenon DEF AddDram, DramSize
    <3> QED  BY <1>3, <1>7, <2>2, <3>1
  <2>4. PICK r : /\ Bank(r, board.base1, left, lastNo) /\ Covers(r, board.base1, left)
                 /\ table' = table \o r
    BY <1>3, <1>7, <2>1, <2>2, <2>3, DramRows
  <2>5. table \in Seq(Rows) /\ r \in Seq(Rows)
    BY <1>7, <2>4 DEF FirstDone, Shape, Bank
  <2>6. \A u \in Base .. RamTop - 1 : Holds(table, u)
    BY <1>5, <1>7 DEF Covered
  <2>7. \A u \in board.base1 .. board.base1 + left - 1 : Holds(r, u)
    BY <1>3, <2>1, <2>3, <2>4, CoversHolds
  <2>8. \A u \in Memory : u \in Base .. RamTop - 1 \/ u \in board.base1 .. board.base1 + left - 1
    BY <1>3, <1>7, UnitsAre
  <2>9. \A u : Holds(table, u) \/ Holds(r, u) => Holds(table', u)
    BY <2>4, <2>5, Grown
  <2> QED  BY <1>7, <2>6, <2>7, <2>8, <2>9
<1> QED  BY <1>2, <1>6, <1>7 DEF Tabled

(* A bank that is empty needs no file.                                     *)
LEMMA NoDramCovers ==
  ASSUME board \in Boards, NEW d, Tabled(d), Covered(d), NoDram
  PROVE  Covered(0)'
<1>1. /\ todo # <<>> /\ Head(todo) = "dram" /\ left = 0 /\ table' = table /\ short' = short
      /\ board' = board /\ to' = to /\ level' = level
  BY DEF NoDram, TableStep, cfgVars
<1>2. d # 0
  <2>1. Drams(todo, d)
    BY DEF Tabled
  <2> QED  BY <1>1, <2>1, DramsTail
<1>3. board.ram # 0 /\ board.ram \in Nat /\ Size0 \in Nat
  BY Banks
<1>4. d = 1 /\ board.banks = 2 /\ board.ram = Size0
  BY <1>1, <1>2, <1>3 DEF Tabled
<1>5. \A u \in Memory : u \in Base .. RamTop - 1
  BY <1>4, UnitsAre, Banks
<1>6. RamTop' = RamTop /\ Memory' = Memory
  BY <1>1, UnitsNext
<1>7. level # "mini" /\ ~short /\ to # "flash" => \A u \in Memory : Holds(table, u)
  BY <1>4, <1>5 DEF Covered
<1>8. level' # "mini" /\ ~short' /\ to' # "flash" => \A u \in Memory' : Holds(table', u)
  BY <1>1, <1>6, <1>7, Zenon
<1> QED  BY <1>8 DEF Covered

(* What is no memory covers none.                                          *)
LEMMA OtherCovers ==
  ASSUME board \in Boards, NEW d, Tabled(d), Covered(d), NEW kind, TableStep(kind), kind # "dram",
         short' = short, NEW q, q \in Seq(Rows), to # "flash" => table' = table \o q
  PROVE  Covered(0)'
<1>1. /\ todo # <<>> /\ Head(todo) = kind
      /\ board' = board /\ to' = to /\ level' = level
  BY DEF TableStep, cfgVars
<1>2. d = 0
  <2>1. Drams(todo, d)
    BY DEF Tabled
  <2> QED  BY <1>1, <2>1, DramsTail
<1>3. to # "flash" => table \in Seq(Rows)
  <2>1. board.banks # 0
    BY Banks
  <2> QED  BY <1>2, <2>1 DEF Tabled, Shape
<1>4. to # "flash" => \A u : Holds(table, u) => Holds(table', u)
  BY <1>3, Grown
<1>5. Memory' = Memory
  BY <1>1, UnitsNext
<1>6. level # "mini" /\ ~short /\ to # "flash" => \A u \in Memory : Holds(table', u)
  BY <1>2, <1>4 DEF Covered
<1>7. level' # "mini" /\ ~short' /\ to' # "flash" => \A u \in Memory' : Holds(table', u)
  BY <1>1, <1>5, <1>6, Zenon
<1> QED  BY <1>7 DEF Covered

(* The segments are listed as they have their turn.                        *)
LEMMA ListedNext ==
  ASSUME NEW kind, TableStep(kind), todo \in Seq(Kinds), Later(todo), Listed,
         to # "flash" => TableNames(table) \subseteq TableNames(table'),
         seg' = seg \/ kind = "dmesg",
         to # "flash" /\ kind \in {"uname", "dmesg", "pt"} =>
           \A j \in 1 .. Len(tlvs) : First(kind, j) => <<"tlv", j>> \in TableNames(table'),
         to # "flash" /\ kind = "wlan" => \A j \in Modules : <<"tlv", j>> \in TableNames(table')
  PROVE  Later(todo)' /\ Listed'
<1>1. /\ todo # <<>> /\ Head(todo) = kind /\ todo' = Tail(todo)
      /\ tlvs' = tlvs /\ to' = to /\ level' = level
  BY DEF TableStep, cfgVars
<1>2. /\ Later(todo')
      /\ \A k : Waits(todo, k) => kind = k \/ Waits(todo', k)
      /\ kind = "dmesg" => Waits(todo', "wlan")
  BY <1>1, TailWaits
<1>3. \A k, j : First(k, j)' <=> First(k, j)
  BY <1>1 DEF First, Tlvs
<1>4. seg' = seg => Modules' = Modules
  BY <1>1 DEF Modules, Tlvs, OfCrash
<1>5. Listed'
  <2> SUFFICES ASSUME level # "full", to # "flash"
               PROVE  /\ \A k \in {"uname", "dmesg", "pt"} :
                           \/ Waits(todo', k)
                           \/ \A j \in 1 .. Len(tlvs') :
                                First(k, j)' => <<"tlv", j>> \in TableNames(table')
                      /\ Waits(todo', "wlan") \/ \A j \in Modules' : <<"tlv", j>> \in TableNames(table')
    BY <1>1, Zenon DEF Listed
  <2>1. /\ \A k \in {"uname", "dmesg", "pt"} :
             Waits(todo, k) \/ \A j \in 1 .. Len(tlvs) : First(k, j) => <<"tlv", j>> \in TableNames(table)
        /\ Waits(todo, "wlan") \/ \A j \in Modules : <<"tlv", j>> \in TableNames(table)
    BY DEF Listed
  <2>2. ASSUME NEW k \in {"uname", "dmesg", "pt"}
        PROVE  \/ Waits(todo', k)
               \/ \A j \in 1 .. Len(tlvs') : First(k, j)' => <<"tlv", j>> \in TableNames(table')
    <3>1. CASE kind = k
      BY <1>1, <1>3, <3>1, Zenon
    <3>2. CASE kind # k
      BY <1>1, <1>2, <1>3, <2>1, <3>2, Zenon
    <3> QED  BY <3>1, <3>2
  <2>3. Waits(todo', "wlan") \/ \A j \in Modules' : <<"tlv", j>> \in TableNames(table')
    <3>1. CASE kind = "dmesg"
      BY <1>2, <3>1
    <3>2. CASE kind = "wlan"
      BY <1>4, <3>2
    <3>3. CASE kind # "dmesg" /\ kind # "wlan"
      BY <1>2, <1>4, <2>1, <3>3
    <3> QED  BY <3>1, <3>2, <3>3
  <2> QED  BY <2>2, <2>3, Zenon
<1> QED  BY <1>1, <1>2, <1>5

(* The table is one of entries.                                            *)
LEMMA TableRows ==
  ASSUME board \in Boards, NEW d, Tabled(d)
  PROVE  todo \in Seq(Kinds) /\ (to # "flash" => table \in Seq(Rows)) /\ d \in 0 .. 2
<1>1. todo \in Seq(Kinds) /\ d \in 0 .. 2
  BY DEF Tabled, Drams
<1>2. table = <<>> => table \in Seq(Rows)
  OBVIOUS
<1>3. to # "flash" => table = <<>> \/ Shape(table)
  BY DEF Tabled, FirstDone
<1>4. Shape(table) => table \in Seq(Rows)
  BY DEF Shape
<1> QED  BY <1>1, <1>2, <1>3, <1>4

(* A bank is added behind the table.                                       *)
LEMMA DramGrows ==
  ASSUME board \in Boards, comp \in BOOLEAN, NEW d, Tabled(d), AddDram, to # "flash"
  PROVE  \E r \in Seq(Rows) : table' = table \o r
<1>1. /\ board.ram \in Nat /\ Size0 \in Nat /\ Size0 <= board.ram /\ Base = 3 /\ board.base1 \in Nat
      /\ board.banks \in {1, 2} /\ (board.banks = 1 => Size0 = board.ram)
      /\ board.ram > Size0 => board.base1 # 0
  BY Banks
<1>2. DramSize > 0
  BY Zenon DEF AddDram, DramSize
<1>3. d # 0
  <2>1. Drams(todo, d) /\ todo # <<>> /\ Head(todo) = "dram"
    BY DEF Tabled, AddDram, TableStep
  <2> QED  BY <2>1, DramsTail
<1>4. left \in Nat /\ lastNo \in Nat /\ DramSize \in Nat /\ DramAt \in Nat \ {0}
  <2>1. CASE left = board.ram /\ lastNo = 0
    BY <1>1, <2>1 DEF DramSize, DramAt
  <2>2. CASE board.banks = 2 /\ left = board.ram - Size0 /\ Size0 > 0 /\ lastNo \in Nat
    <3>1. left # board.ram /\ left \in Nat /\ DramSize = left /\ DramAt = board.base1
      BY <1>1, <2>2 DEF DramSize, DramAt
    <3> QED  BY <1>1, <1>2, <2>2, <3>1
  <2> QED  BY <1>3, <2>1, <2>2 DEF Tabled
<1>5. PICK r : Bank(r, DramAt, DramSize, DramNo) /\ table' = table \o r
  BY <1>4, DramRows
<1> QED  BY <1>5 DEF Bank

(* A bank's turn.                                                          *)
LEMMA DramMakes ==
  ASSUME board \in Boards, comp \in BOOLEAN, NEW d, Tabled(d), Covered(d), Later(todo), Listed,
         AddDram \/ NoDram
  PROVE  Later(todo)' /\ Listed' /\ \E k \in 0 .. 2 : Tabled(k)' /\ Covered(k)'
<1>1. TableStep("dram") /\ seg' = seg
  BY DEF AddDram, NoDram
<1>2. todo \in Seq(Kinds) /\ (to # "flash" => table \in Seq(Rows)) /\ d \in 0 .. 2
  BY TableRows
<1>3. CASE AddDram
  <2>1. d # 0 /\ Tabled(d - 1)'
    BY <1>3, DramTabled
  <2>2. Covered(d - 1)'
    BY <1>3, DramCovers
  <2>3. to # "flash" => TableNames(table) \subseteq TableNames(table')
    <3> SUFFICES ASSUME to # "flash" PROVE TableNames(table) \subseteq TableNames(table')
      OBVIOUS
    <3>1. PICK r : table' = table \o r /\ r \in Seq(Rows)
      BY <1>3, DramGrows
    <3> QED  BY <1>2, <3>1, Grown
  <2>4. Later(todo)' /\ Listed'
    BY <1>1, <1>2, <2>3, ListedNext
  <2>5. d - 1 \in 0 .. 2
    BY <1>2, <2>1
  <2> QED  BY <2>1, <2>2, <2>4, <2>5
<1>4. CASE NoDram
  <2>1. Tabled(0)' /\ Covered(0)'
    BY <1>4, NoDramTabled, NoDramCovers
  <2>2. table' = table
    BY <1>4 DEF NoDram
  <2>3. Later(todo)' /\ Listed'
    BY <1>1, <1>2, <2>2, ListedNext
  <2> QED  BY <2>1, <2>3
<1> QED  BY <1>3, <1>4

(* Another entry's turn.                                                   *)
LEMMA OtherMakes ==
  ASSUME board \in Boards, NEW d, Tabled(d), Covered(d), Later(todo), Listed,
         NEW kind, TableStep(kind), kind # "dram", short' = short,
         NEW q, q \in Seq(Rows), \A i \in 1 .. Len(q) : OtherRow(q[i]),
         to # "flash" => table' = table \o q,
         seg' = seg \/ kind = "dmesg",
         kind \in {"uname", "dmesg", "pt"} =>
           \A j \in 1 .. Len(tlvs) : First(kind, j) => <<"tlv", j>> \in TableNames(q),
         kind = "wlan" => \A j \in Modules : <<"tlv", j>> \in TableNames(q)
  PROVE  Later(todo)' /\ Listed' /\ \E k \in 0 .. 2 : Tabled(k)' /\ Covered(k)'
<1>1. todo \in Seq(Kinds) /\ (to # "flash" => table \in Seq(Rows))
  BY TableRows
<1>2. Tabled(0)'
  BY OtherTabled
<1>3. Covered(0)'
  BY OtherCovers
<1>4. to # "flash" => /\ TableNames(table) \subseteq TableNames(table')
                      /\ TableNames(q) \subseteq TableNames(table')
  BY <1>1, Grown
<1>5. Later(todo)' /\ Listed'
  <2>1. to # "flash" /\ kind \in {"uname", "dmesg", "pt"} =>
           \A j \in 1 .. Len(tlvs) : First(kind, j) => <<"tlv", j>> \in TableNames(table')
    BY <1>4, Zenon
  <2>2. to # "flash" /\ kind = "wlan" => \A j \in Modules : <<"tlv", j>> \in TableNames(table')
    BY <1>4, Zenon
  <2> QED  BY <1>1, <1>4, <2>1, <2>2, ListedNext
<1> QED  BY <1>2, <1>3, <1>5

(* That of an entry of the board.                                          *)
LEMMA PlainMakes ==
  ASSUME board \in Boards, NEW d, Tabled(d), Covered(d), Later(todo), Listed,
         NEW kind \in {"plain", "aligned", "cpu"}, AddPlain(kind)
  PROVE  Later(todo)' /\ Listed' /\ \E k \in 0 .. 2 : Tabled(k)' /\ Covered(k)'
<1> DEFINE e == DumpEntry(<<kind>>, 0, 1, FALSE)
           q == << e >>
<1>1. OtherRow(e) /\ e \in Rows
  BY DEF DumpEntry, OtherRow, Rows, EntryNames
<1> HIDE DEF e
<1>2. q \in Seq(Rows) /\ Len(q) = 1 /\ q[1] = e
  BY <1>1
<1>3. to # "flash" => table' = table \o q
  BY DEF AddPlain, Added, e
<1>4. TableStep(kind) /\ kind # "dram" /\ short' = short /\ seg' = seg
  BY DEF AddPlain
<1> HIDE DEF q
<1>5. \A i \in 1 .. Len(q) : OtherRow(q[i])
  BY <1>1, <1>2
<1>6. kind \notin {"uname", "dmesg", "pt", "wlan"}
  OBVIOUS
<1> QED  BY <1>2, <1>3, <1>4, <1>5, <1>6, OtherMakes

(* That of a segment: the first TLV of its type.                           *)
LEMMA SegmentMakes ==
  ASSUME board \in Boards, tlvs \in Lists, NEW d, Tabled(d), Covered(d), Later(todo), Listed,
         NEW kind \in {"uname", "dmesg", "pt"}, AddSegment(kind)
  PROVE  Later(todo)' /\ Listed' /\ \E k \in 0 .. 2 : Tabled(k)' /\ Covered(k)'
<1>1. /\ TableStep(kind) /\ kind # "dram" /\ kind # "wlan" /\ short' = short
      /\ seg' = seg \/ kind = "dmesg"
  BY DEF AddSegment
<1>2. CASE Tlvs({kind}) = {} /\ table' = table
  <2>1. to # "flash" => table' = table \o <<>>
    BY <1>2, TableRows, NothingAdded
  <2>2. <<>> \in Seq(Rows) /\ \A i \in 1 .. Len(<<>>) : OtherRow(<<>>[i])
    OBVIOUS
  <2>3. \A j \in 1 .. Len(tlvs) : ~First(kind, j)
    BY <1>2 DEF First
  <2> QED  BY <1>1, <2>1, <2>2, <2>3, OtherMakes
<1>3. ASSUME NEW j \in Tlvs({kind}), \A i \in Tlvs({kind}) : j <= i,
             table' = Added(kind, << TlvEntry(j) >>)
      PROVE  Later(todo)' /\ Listed' /\ \E k \in 0 .. 2 : Tabled(k)' /\ Covered(k)'
  <2>1. j \in 1 .. Len(tlvs)
    BY DEF Tlvs
  <2> DEFINE q == << TlvEntry(j) >>
  <2>2. OtherRow(TlvEntry(j)) /\ TlvEntry(j) \in Rows /\ TlvEntry(j).name = <<"tlv", j>>
    BY <2>1, TlvRow DEF TlvEntry, DumpEntry
  <2>3. q \in Seq(Rows) /\ Len(q) = 1 /\ q[1] = TlvEntry(j)
    BY <2>2
  <2>4. to # "flash" => table' = table \o q
    BY <1>3 DEF Added
  <2> HIDE DEF q
  <2>5. \A i \in 1 .. Len(q) : OtherRow(q[i])
    BY <2>2, <2>3
  <2>6. \A i \in 1 .. Len(tlvs) : First(kind, i) => <<"tlv", i>> \in TableNames(q)
    <3>1. <<"tlv", j>> \in TableNames(q)
      BY <2>2, <2>3 DEF TableNames
    <3>2. \A i \in 1 .. Len(tlvs) : First(kind, i) => i = j
      <4> SUFFICES ASSUME NEW i \in 1 .. Len(tlvs), First(kind, i) PROVE i = j
        OBVIOUS
      <4>1. i \in Tlvs({kind}) /\ i <= j /\ j <= i
        BY <1>3 DEF First
      <4>2. i \in Int /\ j \in Int
        BY <4>1 DEF Tlvs
      <4> QED  BY <4>1, <4>2
    <3> QED  BY <3>1, <3>2
  <2> QED  BY <1>1, <2>3, <2>4, <2>5, <2>6, OtherMakes
<1>4. \/ Tlvs({kind}) = {} /\ table' = table
      \/ \E j \in Tlvs({kind}) : /\ \A i \in Tlvs({kind}) : j <= i
                                /\ table' = Added(kind, << TlvEntry(j) >>)
  BY Zenon DEF AddSegment
<1> QED  BY <1>2, <1>3, <1>4, Zenon

(* That of the modules: all of the crash.                                  *)
LEMMA ModulesMakes ==
  ASSUME board \in Boards, tlvs \in Lists, NEW d, Tabled(d), Covered(d), Later(todo), Listed, AddModules
  PROVE  Later(todo)' /\ Listed' /\ \E k \in 0 .. 2 : Tabled(k)' /\ Covered(k)'
<1>1. TableStep("wlan") /\ seg' = seg /\ short' = short
  BY DEF AddModules
<1>2. PICK p \in InOrder(Modules) : table' = Added("wlan", [i \in DOMAIN p |-> TlvEntry(p[i])])
  BY DEF AddModules
<1>3. /\ \E n \in 0 .. Len(tlvs) : p \in [1 .. n -> Modules]
      /\ \A j \in Modules : \E i \in DOMAIN p : p[i] = j
  BY DEF InOrder
<1>4. PICK n \in 0 .. Len(tlvs) : p \in [1 .. n -> Modules]
  BY <1>3
<1>5. Modules \subseteq 1 .. Len(tlvs)
  BY DEF Modules, Tlvs
<1> DEFINE q == [i \in DOMAIN p |-> TlvEntry(p[i])]
<1>6. /\ q = [i \in 1 .. n |-> TlvEntry(p[i])] /\ n \in Nat /\ DOMAIN p = 1 .. n
      /\ \A i \in 1 .. n : OtherRow(TlvEntry(p[i])) /\ TlvEntry(p[i]) \in Rows
  <2>1. DOMAIN p = 1 .. n
    BY <1>4
  <2>2. \A i \in 1 .. n : p[i] \in 1 .. Len(tlvs)
    BY <1>4, <1>5
  <2>3. n \in Nat
    BY <1>4, DumpAssumption
  <2> QED  BY <2>1, <2>2, <2>3, TlvRow
<1>7. q \in Seq(Rows) /\ Len(q) = n /\ \A i \in 1 .. n : q[i] = TlvEntry(p[i])
  BY <1>6
<1>8. to # "flash" => table' = table \o q
  BY <1>2 DEF Added
<1> HIDE DEF q
<1>9. \A i \in 1 .. Len(q) : OtherRow(q[i])
  BY <1>6, <1>7
<1>10. \A j \in Modules : <<"tlv", j>> \in TableNames(q)
  <2> TAKE j \in Modules
  <2>1. PICK i \in 1 .. Len(q) : p[i] = j
    BY <1>3, <1>6, <1>7
  <2>2. q[i].name = <<"tlv", j>>
    BY <1>7, <2>1 DEF TlvEntry, DumpEntry
  <2> QED  BY <2>2 DEF TableNames
<1>11. "wlan" # "dram" /\ "wlan" \notin {"uname", "dmesg", "pt"}
  OBVIOUS
<1> QED  BY <1>1, <1>7, <1>8, <1>9, <1>10, <1>11, OtherMakes

(* Every turn leaves a table that lists what it should.                    *)
LEMMA TableMakes ==
  ASSUME Told, Sound, \/ AddDram \/ NoDram \/ \E k \in {"plain", "aligned", "cpu"} : AddPlain(k)
                      \/ \E k \in {"uname", "dmesg", "pt"} : AddSegment(k)
                      \/ AddModules
  PROVE  Later(todo)' /\ Listed' /\ \E k \in 0 .. 2 : Tabled(k)' /\ Covered(k)'
<1>1. ph = "table"
  BY DEF AddDram, NoDram, AddPlain, AddSegment, AddModules, TableStep
<1>2. board \in Boards /\ tlvs \in Lists /\ comp \in BOOLEAN
  BY DEF Told
<1>3. Later(todo) /\ Listed
  BY <1>1 DEF Sound
<1>4. PICK d \in 0 .. 2 : Tabled(d) /\ Covered(d)
  BY <1>1 DEF Sound
<1>5. CASE AddDram \/ NoDram
  BY <1>2, <1>3, <1>4, <1>5, DramMakes
<1>6. CASE \E k \in {"plain", "aligned", "cpu"} : AddPlain(k)
  BY <1>2, <1>3, <1>4, <1>6, PlainMakes
<1>7. CASE \E k \in {"uname", "dmesg", "pt"} : AddSegment(k)
  BY <1>2, <1>3, <1>4, <1>7, SegmentMakes
<1>8. CASE AddModules
  BY <1>2, <1>3, <1>4, <1>8, ModulesMakes
<1> QED  BY <1>5, <1>6, <1>7, <1>8

(* The reserved memory keeps its size, and what is not written stays.      *)
LEMMA RoomIs ==
  ASSUME NEW n \in Reserved, DOMAIN rsv = 0 .. n-1
  PROVE  DOMAIN rsv = 0 .. Room - 1 /\ Room \in Reserved
BY Zenon DEF Room

(* Its size does not change.                                               *)
LEMMA RoomNext ==
  ASSUME DOMAIN rsv = 0 .. Room - 1, Room \in Reserved, DOMAIN rsv' = DOMAIN rsv
  PROVE  (DOMAIN rsv = 0 .. Room - 1 /\ Room \in Reserved)' /\ Room' = Room
<1>1. Room' = Room
  BY Zenon DEF Room
<1>2. DOMAIN rsv' = 0 .. Room' - 1 /\ Room' \in Reserved
  BY <1>1, Zenon
<1> QED  BY <1>1, <1>2, Zenon

(* A header that is not written stays as good as it was.                   *)
LEMMA HeaderNext ==
  ASSUME Header, rsv' = rsv
  PROVE  Header'
BY DEF Header, Promises

(* What has nothing to do with the reserved memory.                        *)
LEMMA BackedStays ==
  ASSUME Backed, rsv' = rsv
  PROVE  Backed'
<1>1. (DOMAIN rsv = 0 .. Room - 1 /\ Room \in Reserved)'
  BY RoomNext DEF Backed
<1>2. Header'
  BY HeaderNext DEF Backed
<1> QED  BY <1>1, <1>2 DEF Backed

(* The second invariant holds when the command starts.                     *)
LEMMA SoundFirst == DumpInit => Sound
<1> SUFFICES ASSUME DumpInit PROVE Sound
  OBVIOUS
<1>1. ph = "crash" /\ lst = <<>>
  BY DEF DumpInit
<1>2. PICK n \in Reserved : n > 2 /\ rsv = OldDump(n)
  BY DEF DumpInit
<1>3. n \in Nat
  BY DumpAssumption
<1> DEFINE l == << [name |-> <<"old">>, off |-> 1, n |-> 1] >>
<1>4. /\ DOMAIN rsv = 0 .. n-1 /\ rsv[0] = <<"hdr", 2>> /\ rsv[2] = <<"list", l>>
      /\ rsv[1] = <<"data", <<"old">>, 1>>
  <2>1. 0 \in 0 .. n-1 /\ 1 \in 0 .. n-1 /\ 2 \in 0 .. n-1
    BY <1>2, <1>3
  <2> QED  BY <1>2, <2>1 DEF OldDump
<1>5. Promises(rsv, l)
  <2>1. Len(l) = 1 /\ l[1].name = <<"old">> /\ l[1].off = 1 /\ l[1].n = 1
    OBVIOUS
  <2> HIDE DEF l
  <2>2. 1 \in DOMAIN rsv
    BY <1>2, <1>3, <1>4
  <2>3. ASSUME NEW k \in 1 .. Len(l), NEW i \in 1 .. l[k].n
        PROVE  k = 1 /\ i = 1 /\ l[k].off + i - 1 = 1
    <3>1. k = 1
      BY <2>1
    <3> QED  BY <2>1, <3>1
  <2> QED  BY <1>4, <2>1, <2>2, <2>3 DEF Promises
<1> HIDE DEF l
<1>6. Header
  <2>1. rsv[0][2] = 2 /\ 2 \in DOMAIN rsv
    BY <1>2, <1>3, <1>4
  <2>2. rsv[2][1] = "list" /\ rsv[2][2] = l
    BY <1>4
  <2> QED  BY <1>5, <2>1, <2>2 DEF Header
<1>7. DOMAIN rsv = 0 .. Room - 1 /\ Room \in Reserved
  BY <1>4, RoomIs
<1> QED  BY <1>1, <1>6, <1>7 DEF Sound, Backed, FilesPhases

(* Steps before there is a table: the old header goes                      *)
(* (verify_crashdump_iface).                                               *)
LEMMA EarlySound ==
  ASSUME Told, Sound, \/ \E env \in SUBSET Names : ParseConfig(env)
                      \/ GiveUp \/ VerifyConfig \/ VerifyIface
  PROVE  Sound'
<1>1. CASE \/ \E env \in SUBSET Names : ParseConfig(env)
           \/ GiveUp
  <2>1. rsv' = rsv /\ lst' = lst /\ ph' \in {"parsed", "reset"} /\ (ph' = "parsed" => ph = "crash")
    BY <1>1 DEF ParseConfig, GiveUp, memVars
  <2>2. Backed'
    BY <2>1, BackedStays DEF Sound
  <2>3. ph' = "parsed" => lst' = <<>>
    BY <2>1 DEF Sound
  <2> QED  BY <2>1, <2>2, <2>3 DEF Sound, FilesPhases
<1>2. CASE VerifyConfig
  <2>1. /\ rsv' = rsv /\ lst' = lst /\ ph' = "verified" /\ ph = "parsed"
        /\ to' = to /\ level' = level /\ Allowed
    BY <1>2 DEF VerifyConfig, memVars, cfgVars
  <2>2. Backed'
    BY <2>1, BackedStays DEF Sound
  <2>3. lst' = <<>> /\ (to' = "mem" => level' = "mini")
    BY <2>1 DEF Sound, Allowed
  <2> QED  BY <2>1, <2>2, <2>3 DEF Sound, FilesPhases
<1>3. CASE VerifyIface
  <2>1. /\ ph = "verified" /\ ph' = "table" /\ lst' = lst
        /\ to = "mem" => rsv' = ClearHeader(rsv) /\ curr' = 1
        /\ to # "mem" => rsv' = rsv
        /\ board' = board /\ tlvs' = tlvs /\ comp' = comp /\ to' = to /\ level' = level
        /\ table' = table /\ left' = left /\ lastNo' = lastNo /\ todo' = Wanted
    BY <1>3 DEF VerifyIface, cfgVars
  <2>2. /\ board \in Boards /\ comp \in BOOLEAN /\ table = <<>> /\ left = board.ram /\ lastNo = 0
    BY <2>1 DEF Told
  <2>3. lst = <<>> /\ Backed /\ (to = "mem" => level = "mini")
    BY <2>1 DEF Sound
  <2>4. Backed' /\ (to' = "mem" => rsv'[0][1] # "hdr" /\ curr' = 1)
    <3>1. CASE to = "mem"
      <4>1. 0 \in DOMAIN rsv
        <5>1. Room \in Nat /\ Room > 1
          BY <2>3, DumpAssumption DEF Backed
        <5> QED  BY <2>3, <5>1 DEF Backed
      <4>2. DOMAIN rsv' = DOMAIN rsv /\ rsv'[0] = <<"none">>
        BY <2>1, <3>1, <4>1 DEF ClearHeader, None
      <4>3. (DOMAIN rsv = 0 .. Room - 1 /\ Room \in Reserved)'
        BY <2>3, <4>2, RoomNext DEF Backed
      <4>4. rsv'[0][1] # "hdr"
        BY <4>2
      <4> QED  BY <2>1, <3>1, <4>3, <4>4 DEF Backed, Header
    <3>2. CASE to # "mem"
      BY <2>1, <2>3, <3>2, BackedStays
    <3> QED  BY <3>1, <3>2
  <2>5. Later(todo')
    BY <2>1, LaterWanted
  <2>6. Listed'
    <3>1. level' # "full" => \A kind \in {"uname", "dmesg", "pt", "wlan"} : Waits(todo', kind)
      BY <2>1, LaterWanted
    <3> QED  BY <3>1 DEF Listed
  <2>7. board.banks \in {1, 2}
    BY <2>2, Banks
  <2>8. \E d \in 0 .. 2 : Tabled(d)' /\ Covered(d)'
    <3>1. CASE level = "mini"
      <4>1. Drams(todo, 0)'
        BY <2>1, <2>7, <3>1, DramsWanted DEF Drams
      <4>2. to' # "flash" => Shape(table)'
        BY <2>1, <2>2, EmptyShape, ShapeNext
      <4>3. Tabled(0)'
        BY <4>1, <4>2 DEF Tabled
      <4>4. Covered(0)'
        BY <2>1, <3>1 DEF Covered
      <4> QED  BY <4>3, <4>4
    <3>2. CASE level # "mini"
      <4>1. PICK d \in 0 .. 2 : d = board.banks
        BY <2>7
      <4>2. Drams(todo, d)'
        BY <2>1, <2>7, <3>2, <4>1, DramsWanted DEF Drams
      <4>3. Tabled(d)'
        BY <2>1, <2>2, <4>1, <4>2 DEF Tabled
      <4>4. Covered(d)'
        BY <2>1, <2>7, <4>1 DEF Covered
      <4> QED  BY <4>3, <4>4
    <3> QED  BY <3>1, <3>2
  <2>9. Later(todo)' /\ Listed'
    BY <2>5, <2>6 DEF Later
  <2> QED  BY <2>1, <2>3, <2>4, <2>8, <2>9 DEF Sound, FilesPhases
<1> QED  BY <1>1, <1>2, <1>3

(* Steps that make it.                                                     *)
LEMMA TableSound ==
  ASSUME Told, Sound, \/ AddDram \/ NoDram \/ \E k \in {"plain", "aligned", "cpu"} : AddPlain(k)
                      \/ \E k \in {"uname", "dmesg", "pt"} : AddSegment(k)
                      \/ AddModules
  PROVE  Sound'
<1>1. /\ ph = "table" /\ ph' = ph /\ rsv' = rsv /\ curr' = curr /\ lst' = lst
      /\ to' = to /\ level' = level
  BY DEF AddDram, NoDram, AddPlain, AddSegment, AddModules, TableStep, cfgVars, memVars
<1>2. /\ Backed /\ lst = <<>> /\ (to = "mem" => level = "mini")
      /\ to = "mem" => rsv[0][1] # "hdr" /\ curr = 1
  BY <1>1 DEF Sound
<1>3. Backed'
  BY <1>1, <1>2, BackedStays
<1>4. Later(todo)' /\ Listed' /\ \E k \in 0 .. 2 : Tabled(k)' /\ Covered(k)'
  BY TableMakes
<1> QED  BY <1>1, <1>2, <1>3, <1>4 DEF Sound, FilesPhases

(* The types of the TLVs.                                                  *)
LEMMA TlvTypes ==
  ASSUME tlvs \in Lists, NEW j \in 1 .. Len(tlvs)
  PROVE  tlvs[j].t \in {"uname", "dmesg", "pt", "mod", "info"}
<1> DEFINE R == [t : {"uname", "dmesg", "pt", "mod", "info"},
                 who : {"host", "nss", "live"}, n : Nat \ {0}]
<1>1. tlvs \in Seq(R)
  BY DumpAssumption, Zenon
<1> HIDE DEF R
<1>2. tlvs[j] \in R
  BY <1>1
<1> QED  BY <1>2 DEF R

(* When nothing waits any more, all is in the table.                       *)
LEMMA TableFull ==
  ASSUME Told, Sound, ph = "table", todo = <<>>, to # "flash"
  PROVE  Full /\ Shape(table)
<1>1. /\ board \in Boards /\ tlvs \in Lists
  BY DEF Told
<1>2. PICK d \in 0 .. 2 : Tabled(d) /\ Covered(d)
  BY DEF Sound
<1>3. d = 0 /\ Len(todo) = 0
  <2>1. Drams(todo, d)
    BY <1>2 DEF Tabled
  <2> QED  BY <2>1 DEF Drams
<1>4. Shape(table)
  <2>1. board.banks # 0
    BY <1>1, Banks
  <2> QED  BY <1>2, <1>3, <2>1 DEF Tabled
<1>5. level # "mini" /\ ~short => \A u \in Memory : Holds(table, u)
  BY <1>2, <1>3 DEF Covered
<1>6. ASSUME level # "full", NEW j \in 1 .. Len(tlvs), Due(tlvs[j], j)
      PROVE  <<"tlv", j>> \in TableNames(table)
  <2>1. \A kind : ~Waits(todo, kind)
    BY <1>3 DEF Waits
  <2>2. /\ \A kind \in {"uname", "dmesg", "pt"} :
             \A i \in 1 .. Len(tlvs) : First(kind, i) => <<"tlv", i>> \in TableNames(table)
        /\ \A i \in Modules : <<"tlv", i>> \in TableNames(table)
    <3>1. Listed
      BY DEF Sound
    <3> QED  BY <1>6, <2>1, <3>1, Zenon DEF Listed
  <2>3. CASE tlvs[j].t \in {"mod", "info"}
    <3>1. j \in Modules
      BY <1>6, <2>3 DEF Due, Modules, Tlvs
    <3> QED  BY <2>2, <3>1
  <2>4. CASE tlvs[j].t \notin {"mod", "info"}
    <3> DEFINE kind == tlvs[j].t
    <3>1. kind \in {"uname", "dmesg", "pt"}
      BY <1>1, <2>4, TlvTypes
    <3>2. First(kind, j)
      <4>1. \A i \in 1 .. j-1 : tlvs[i].t # kind
        BY <1>6, <2>4 DEF Due
      <4>2. j \in Tlvs({kind})
        BY DEF Tlvs
      <4>3. \A i \in Tlvs({kind}) : j <= i
        <5> TAKE i \in Tlvs({kind})
        <5>1. i \in 1 .. Len(tlvs) /\ tlvs[i].t = kind
          BY DEF Tlvs
        <5> HIDE DEF kind
        <5> QED  BY <4>1, <5>1
      <4> HIDE DEF kind
      <4> QED  BY <4>2, <4>3 DEF First
    <3> QED  BY <2>2, <3>1, <3>2
  <2> QED  BY <2>3, <2>4
<1>7. level # "full" => DueTlvs \subseteq TableNames(table)
  BY <1>6 DEF DueTlvs
<1> QED  BY <1>4, <1>5, <1>7, Zenon DEF Full, Shape

(* A table that is full stays so.                                          *)
LEMMA FullNext ==
  ASSUME Full, board' = board, tlvs' = tlvs, level' = level, seg' = seg, short' = short, table' = table
  PROVE  Full'
<1>1. Memory' = Memory
  BY UnitsNext
<1>2. DueTlvs' = DueTlvs
  BY DEF DueTlvs, Due, OfCrash
<1>3. TableNames(table)' = TableNames(table)
  BY DEF TableNames
<1>4. \A u : Holds(table, u)' <=> Holds(table, u)
  BY DEF Holds, Run
<1> QED  BY <1>1, <1>2, <1>3, <1>4 DEF Full

(* The end of the table.                                                   *)
LEMMA TableLeftSound ==
  ASSUME Told, Sound, TableFails \/ TableDone
  PROVE  Sound'
<1>1. ph = "table" /\ rsv' = rsv /\ curr' = curr /\ lst' = lst /\ to' = to /\ level' = level
      /\ dumped' = dumped
  BY DEF TableFails, TableDone, memVars, cfgVars
<1>2. /\ Backed' /\ lst = <<>> /\ (to = "mem" => level = "mini")
      /\ to = "mem" => rsv[0][1] # "hdr" /\ curr = 1
  <2>1. Backed
    BY DEF Sound
  <2> QED  BY <1>1, <2>1, BackedStays DEF Sound
<1>3. CASE TableFails
  <2>1. ph' = "reset" \/ Overlooked
    BY <1>1, <1>3 DEF TableFails, Overlooked
  <2>2. CASE ph' = "reset"
    BY <1>1, <1>2, <2>2 DEF Sound, FilesPhases
  <2>3. CASE Overlooked
    <3>1. ph' = "table" /\ todo' = Minis /\ short' = TRUE /\ level' = "both"
      BY <1>1, <2>3 DEF Overlooked
    <3>2. Later(Minis) /\ \A kind \in {"uname", "dmesg", "pt", "wlan"} : Waits(Minis, kind)
      BY LaterMinis
    <3>3. Later(todo)' /\ Listed'
      BY <3>1, <3>2 DEF Listed
    <3>4. Covered(0)'
      BY <3>1 DEF Covered
    <3>5. Tabled(0)'
      BY <1>3, <2>3, OverlookedTabled
    <3>6. \E d \in 0 .. 2 : Tabled(d)' /\ Covered(d)'
      BY <3>4, <3>5
    <3>7. to # "mem"
      BY <1>1, <1>2, <2>3 DEF Overlooked
    <3> QED  BY <1>1, <1>2, <3>1, <3>3, <3>6, <3>7 DEF Sound, FilesPhases
  <2> QED  BY <2>1, <2>2, <2>3
<1>4. CASE TableDone /\ to \in {"flash", "nvmem"}
  <2>1. ph' = "flash"
    BY <1>4 DEF TableDone
  <2> QED  BY <1>1, <1>2, <1>4, <2>1 DEF Sound, FilesPhases
<1>5. CASE TableDone /\ to \notin {"flash", "nvmem"}
  <2>1. /\ board' = board /\ tlvs' = tlvs /\ seg' = seg /\ short' = short /\ table' = table
        /\ comp' = comp /\ todo = <<>>
        /\ ph' = IF to = "mem" THEN "mem" ELSE "files"
    BY <1>5 DEF TableDone, tabVars, cfgVars
  <2>2. Full /\ Shape(table)
    BY <1>1, <1>5, <2>1, TableFull
  <2>3. Full' /\ Shape(table)'
    BY <1>1, <2>1, <2>2, FullNext, ShapeNext
  <2>4. dumped' = 0 /\ Len(table) \in Nat
    BY <1>1, <2>2 DEF Told, Untold, Shape
  <2>5. CASE to = "mem"
    <3>1. /\ rsv'[0][1] # "hdr" /\ curr' = 1 /\ lst' = <<>>
      BY <1>1, <1>2, <2>5
    <3>2. lst' \in Seq(Ranges) /\ Len(lst') = 0
      BY <3>1
    <3>3. Promises(rsv', lst')
      BY <3>2 DEF Promises
    <3>4. dumped' \in 0 .. Len(table')
      BY <2>1, <2>4
    <3>5. \A k \in 1 .. Len(lst') : lst'[k].name = table'[k].name /\ lst'[k].off + lst'[k].n <= curr'
      BY <3>2
    <3>6. Filling'
      BY <2>3, <2>4, <3>1, <3>2, <3>3, <3>4, <3>5 DEF Filling, Promises
    <3> QED  BY <1>1, <1>2, <2>1, <2>3, <2>5, <3>6 DEF Sound, FilesPhases
  <2>6. CASE to # "mem"
    <3>1. ph' = "files"
      BY <2>1, <2>6
    <3>2. Filed'
      BY <1>1, <2>4, <2>6, <3>1 DEF Filed
    <3> QED  BY <1>1, <1>2, <2>3, <2>6, <3>1, <3>2 DEF Sound, FilesPhases
  <2> QED  BY <2>5, <2>6
<1> QED  BY <1>3, <1>4, <1>5

(* What is stored is stored under its name.                                *)
LEMMA FilesSound ==
  ASSUME Told, Sound, \/ DumpPlain \/ Backup \/ NextPart \/ \E z \in 1 .. Limit : Compress(z)
                      \/ Put \/ Reload
  PROVE  Sound'
<1>1. /\ ph \in FilesPhases /\ ph' \in FilesPhases /\ dumped < Len(table)
      /\ board' = board /\ tlvs' = tlvs /\ comp' = comp /\ to' = to /\ level' = level
      /\ seg' = seg /\ short' = short /\ table' = table
      /\ rsv' = rsv /\ curr' = curr /\ lst' = lst
  <2>1. CASE DumpPlain \/ Backup
    BY <2>1 DEF DumpPlain, Backup, Begin, FileStep, Entries, cfgVars, tabVars, memVars, FilesPhases
  <2>2. CASE NextPart
    BY <2>2 DEF NextPart, Begin, FileStep, Entries, cfgVars, tabVars, memVars, FilesPhases
  <2>3. CASE \E z \in 1 .. Limit : Compress(z)
    BY <2>3 DEF Compress, FileStep, Entries, cfgVars, tabVars, memVars, FilesPhases
  <2>4. CASE Put \/ Reload
    BY <2>4 DEF Put, Reload, FileStep, Entries, cfgVars, tabVars, memVars, FilesPhases
  <2> QED  BY <2>1, <2>2, <2>3, <2>4
<1>2. Backed /\ Full /\ Filed /\ (to = "mem" => level = "mini")
  BY <1>1 DEF Sound, FilesPhases
<1>3. dumped \in Nat
  <2>1. Filing
    BY <1>1 DEF Told
  <2> QED  BY <1>1, <2>1, AtHand
<1>4. Backed' /\ Full'
  BY <1>1, <1>2, BackedStays, FullNext
<1>5. /\ to # "mem" /\ \A i \in 1 .. dumped : table[i].name \in DOMAIN files
      /\ ph = "back" => E.name \in DOMAIN files
  BY <1>2 DEF Filed
<1>6. ASSUME DOMAIN files \subseteq DOMAIN files', dumped' = dumped, ph' = "back" => E.name \in DOMAIN files'
      PROVE  Filed'
  <2>1. E' = E
    BY <1>1, <1>6 DEF E
  <2>2. \A i \in 1 .. dumped' : table'[i].name \in DOMAIN files'
    BY <1>1, <1>5, <1>6
  <2> QED  BY <1>1, <1>5, <1>6, <2>1, <2>2 DEF Filed
<1>7. ASSUME DOMAIN files \subseteq DOMAIN files', dumped' = dumped + 1, ph' = "files",
             E.name \in DOMAIN files'
      PROVE  Filed'
  <2>1. \A i \in 1 .. dumped + 1 : i \in 1 .. dumped \/ table[i] = E
    BY <1>3 DEF E
  <2>2. \A i \in 1 .. dumped' : table'[i].name \in DOMAIN files'
    BY <1>1, <1>5, <1>7, <2>1
  <2> QED  BY <1>1, <1>5, <1>7, <2>2 DEF Filed
<1>8. Filed'
  <2>1. CASE DumpPlain
    <3>1. PICK data : files' = Store(E.name, data)
      BY <2>1 DEF DumpPlain
    <3>2. DOMAIN files \subseteq DOMAIN files' /\ E.name \in DOMAIN files'
      BY <3>1, StoreIs
    <3> QED  BY <1>7, <2>1, <3>2 DEF DumpPlain
  <2>2. CASE Backup
    <3>1. files' = Store(TempName, << Read(E.at - 1) >>) /\ dumped' = dumped /\ ph' = "gzip"
      BY <2>2 DEF Backup, Begin
    <3>2. DOMAIN files \subseteq DOMAIN files'
      BY <3>1, StoreIs
    <3> QED  BY <1>6, <3>1, <3>2
  <2>3. CASE NextPart
    <3>1. files' = files /\ dumped' = dumped /\ ph' = "gzip"
      BY <2>3 DEF NextPart, Begin
    <3> QED  BY <1>6, <3>1
  <2>4. CASE \E z \in 1 .. Limit : Compress(z)
    <3>1. files' = files /\ dumped' = dumped /\ ph' = "put"
      BY <2>4 DEF Compress
    <3> QED  BY <1>6, <3>1
  <2>5. CASE Put
    <3>1. /\ files' = Store(E.name, cur.data)
          /\ \/ ph' = "files" /\ dumped' = dumped + 1
             \/ ph' = "back" /\ dumped' = dumped
      BY <2>5 DEF Put
    <3>2. DOMAIN files \subseteq DOMAIN files' /\ E.name \in DOMAIN files'
      BY <3>1, StoreIs
    <3> QED  BY <1>6, <1>7, <3>1, <3>2
  <2>6. CASE Reload
    <3>1. files' = files /\ dumped' = dumped + 1 /\ ph = "back" /\ ph' = "files"
      BY <2>6 DEF Reload
    <3> QED  BY <1>5, <1>7, <3>1
  <2> QED  BY <2>1, <2>2, <2>3, <2>4, <2>5, <2>6
<1> QED  BY <1>1, <1>2, <1>4, <1>8 DEF Sound, FilesPhases

(* The end of the dump.                                                    *)
LEMMA EndSound ==
  ASSUME Told, Sound, DumpFails \/ FilesDone \/ Reset
  PROVE  Sound'
<1>1. rsv' = rsv /\ lst' = lst /\ to' = to /\ level' = level
  BY DEF DumpFails, FilesDone, Reset, memVars, cfgVars
<1>2. Backed'
  BY <1>1, BackedStays DEF Sound
<1>3. CASE DumpFails \/ Reset
  <2>1. /\ ph' \in {"failed", "reset"}
        /\ ph \notin {"crash", "parsed", "reset"}
    BY <1>3 DEF DumpFails, Reset, FileStep
  <2> QED  BY <1>1, <1>2, <2>1 DEF Sound, FilesPhases
<1>4. CASE FilesDone
  <2>1. /\ ph = "files" /\ ph' = "success" /\ dumped = Len(table) /\ dumped' = dumped
        /\ board' = board /\ tlvs' = tlvs /\ seg' = seg /\ short' = short /\ table' = table
        /\ files' = files
    BY <1>4 DEF FilesDone, Entries, tabVars
  <2>2. Full /\ Filed /\ (to = "mem" => level = "mini")
    BY <2>1 DEF Sound, FilesPhases
  <2>3. Full'
    BY <1>1, <2>1, <2>2, FullNext
  <2>4. to # "mem" /\ TableNames(table') \subseteq DOMAIN files'
    BY <2>1, <2>2 DEF Filed, TableNames
  <2> QED  BY <1>1, <1>2, <2>1, <2>2, <2>3, <2>4 DEF Sound, FilesPhases
<1> QED  BY <1>3, <1>4

(* What a list promises is behind the header and below what comes next.    *)
LEMMA PromisesKept ==
  ASSUME lst \in Seq(Ranges), Promises(rsv, lst), curr \in Nat,
         \A k \in 1 .. Len(lst) : lst[k].off + lst[k].n <= curr,
         NEW r, DOMAIN r = DOMAIN rsv, \A i \in DOMAIN rsv : i # 0 /\ i < curr => r[i] = rsv[i]
  PROVE  Promises(r, lst)
<1>1. ASSUME NEW k \in 1 .. Len(lst), NEW i \in 1 .. lst[k].n
      PROVE  /\ lst[k].off + i - 1 \in DOMAIN r
             /\ r[lst[k].off + i - 1] = <<"data", lst[k].name, i>>
  <2>1. lst[k] \in Ranges
    OBVIOUS
  <2>2. PICK o \in Nat \ {0}, n \in Nat : o = lst[k].off /\ n = lst[k].n
    BY <2>1 DEF Ranges
  <2>3. lst[k].off + i - 1 \in DOMAIN rsv /\ rsv[lst[k].off + i - 1] = <<"data", lst[k].name, i>>
    BY DEF Promises
  <2>4. o + i - 1 # 0 /\ o + i - 1 < curr
    <3>1. o + n <= curr
      BY <2>2
    <3>2. i \in 1 .. n
      BY <2>2
    <3> QED  BY <3>1, <3>2
  <2> QED  BY <2>2, <2>3, <2>4
<1> QED  BY <1>1 DEF Promises

(* An entry goes behind those before it (dump_to_dst for memory).          *)
LEMMA DumpToMemFills ==
  ASSUME board \in Boards, Backed, Filling, DumpToMem
  PROVE  Backed' /\ Filling'
<1>1. /\ dumped < Len(table) /\ curr + E.n <= Room
      /\ rsv' = [i \in DOMAIN rsv |-> IF i \in curr .. curr + E.n - 1 THEN <<"data", E.name, i - curr + 1>>
                                      ELSE rsv[i]]
      /\ lst' = Append(lst, [name |-> E.name, off |-> curr, n |-> E.n])
      /\ curr' = curr + E.n /\ dumped' = dumped + 1
      /\ board' = board /\ comp' = comp /\ table' = table
  BY DEF DumpToMem, Entries, cfgVars, tabVars
<1>2. /\ rsv[0][1] # "hdr" /\ Shape(table)
      /\ curr \in Nat \ {0} /\ lst \in Seq(Ranges) /\ dumped = Len(lst) /\ dumped \in 0 .. Len(table)
      /\ \A k \in 1 .. Len(lst) : lst[k].name = table[k].name /\ lst[k].off + lst[k].n <= curr
      /\ Promises(rsv, lst)
  BY DEF Filling
<1>3. dumped \in Nat /\ Len(table) \in Nat /\ dumped + 1 \in 1 .. Len(table) /\ E \in Rows
  BY <1>1, <1>2 DEF Shape, E
<1>4. PICK n \in Nat \ {0}, m \in EntryNames : n = E.n /\ m = E.name
  BY <1>3 DEF Rows
<1>5. Room \in Nat /\ Room > 1 /\ DOMAIN rsv = 0 .. Room - 1 /\ Room \in Reserved
  BY DumpAssumption DEF Backed
<1>6. /\ DOMAIN rsv' = DOMAIN rsv /\ rsv'[0] = rsv[0]
      /\ \A i \in DOMAIN rsv : i < curr => rsv'[i] = rsv[i]
      /\ \A i \in 1 .. n : curr + i - 1 \in DOMAIN rsv /\ rsv'[curr + i - 1] = <<"data", m, i>>
  <2>1. DOMAIN rsv' = DOMAIN rsv
    BY <1>1
  <2>2. ASSUME NEW i \in DOMAIN rsv, i < curr PROVE rsv'[i] = rsv[i]
    <3>1. i \notin curr .. curr + E.n - 1
      BY <1>2, <1>5, <2>2
    <3> QED  BY <1>1, <3>1
  <2>3. ASSUME NEW i \in 1 .. n
        PROVE  curr + i - 1 \in DOMAIN rsv /\ rsv'[curr + i - 1] = <<"data", m, i>>
    <3>1. curr + i - 1 \in 0 .. Room - 1 /\ curr + i - 1 \in curr .. curr + n - 1
      BY <1>1, <1>2, <1>4, <1>5
    <3>2. (curr + i - 1) - curr + 1 = i
      BY <1>2
    <3> QED  BY <1>1, <1>4, <1>5, <3>1, <3>2
  <2>4. 0 \in DOMAIN rsv /\ 0 < curr
    BY <1>2, <1>5
  <2> QED  BY <2>1, <2>2, <2>3, <2>4
<1>7. Backed'
  <2>1. (DOMAIN rsv = 0 .. Room - 1 /\ Room \in Reserved)'
    BY <1>5, <1>6, RoomNext
  <2>2. rsv'[0][1] # "hdr"
    BY <1>2, <1>6
  <2> QED  BY <2>1, <2>2 DEF Backed, Header
<1> DEFINE e == [name |-> m, off |-> curr, n |-> n]
<1>8. e \in Ranges /\ e.name = m /\ e.off = curr /\ e.n = n
  BY <1>2 DEF Ranges
<1> HIDE DEF e
<1>9. /\ lst' \in Seq(Ranges) /\ Len(lst') = dumped + 1
      /\ \A k \in 1 .. dumped : lst'[k] = lst[k]
      /\ lst'[dumped + 1] = e
  <2>1. lst' = Append(lst, e)
    BY <1>1, <1>4 DEF e
  <2> QED  BY <1>2, <1>8, <2>1
<1>10. \A k \in 1 .. dumped + 1 : k \in 1 .. dumped \/ k = dumped + 1
  BY <1>3
<1>11. curr' = curr + n /\ curr' \in Nat \ {0}
  BY <1>1, <1>2, <1>4
<1>12. \A k \in 1 .. Len(lst') : lst'[k].name = table'[k].name /\ lst'[k].off + lst'[k].n <= curr'
  <2> TAKE k \in 1 .. Len(lst')
  <2>1. CASE k \in 1 .. dumped
    <3>1. /\ lst'[k] = lst[k] /\ lst[k].name = table[k].name
          /\ lst[k].off + lst[k].n <= curr /\ lst[k] \in Ranges
      BY <1>2, <1>9, <2>1
    <3>2. PICK o \in Nat, w \in Nat : o = lst[k].off /\ w = lst[k].n
      BY <3>1 DEF Ranges
    <3>3. o + w <= curr'
      BY <1>2, <1>11, <3>1, <3>2
    <3> QED  BY <1>1, <3>1, <3>2, <3>3
  <2>2. CASE k = dumped + 1
    <3>1. table[k].name = m
      BY <1>4, <2>2 DEF E
    <3> QED  BY <1>1, <1>2, <1>8, <1>9, <1>11, <2>2, <3>1
  <2> QED  BY <1>9, <1>10, <2>1, <2>2
<1>13. Promises(rsv', lst)
  BY <1>2, <1>6, PromisesKept
<1>14. Promises(rsv', lst')
  <2>1. ASSUME NEW k \in 1 .. Len(lst'), NEW i \in 1 .. lst'[k].n
        PROVE  /\ lst'[k].off + i - 1 \in DOMAIN rsv'
               /\ rsv'[lst'[k].off + i - 1] = <<"data", lst'[k].name, i>>
    <3>1. CASE k \in 1 .. dumped
      <4>1. lst'[k] = lst[k] /\ k \in 1 .. Len(lst)
        BY <1>2, <1>9, <3>1
      <4>2. i \in 1 .. lst[k].n
        BY <4>1
      <4>3. /\ lst[k].off + i - 1 \in DOMAIN rsv'
            /\ rsv'[lst[k].off + i - 1] = <<"data", lst[k].name, i>>
        BY <1>13, <4>1, <4>2 DEF Promises
      <4> QED  BY <4>1, <4>3
    <3>2. CASE k = dumped + 1
      BY <1>6, <1>8, <1>9, <3>2
    <3> QED  BY <1>9, <1>10, <3>1, <3>2
  <2> QED  BY <2>1 DEF Promises
<1>15. Shape(table)' /\ rsv'[0][1] # "hdr"
  BY <1>1, <1>2, <1>6, ShapeNext
<1>16. dumped' = Len(lst') /\ dumped' \in 0 .. Len(table')
  BY <1>1, <1>3, <1>9
<1>17. Filling'
  BY <1>9, <1>11, <1>12, <1>14, <1>15, <1>16, Zenon DEF Filling, Promises
<1> QED  BY <1>7, <1>17

(* Steps to reserved memory: the header comes last.                        *)
LEMMA MemSound ==
  ASSUME Told, Sound, DumpToMem \/ StoreList \/ StoreHeader
  PROVE  Sound'
<1>1. /\ ph \in {"mem", "header"} /\ to' = to /\ level' = level
      /\ board' = board /\ tlvs' = tlvs /\ seg' = seg /\ short' = short /\ table' = table /\ comp' = comp
  BY DEF DumpToMem, StoreList, StoreHeader, cfgVars, tabVars
<1>2. /\ board \in Boards /\ Backed /\ Full /\ Filling /\ to = "mem" /\ level = "mini"
  BY <1>1 DEF Told, Sound
<1>3. Full'
  BY <1>1, <1>2, FullNext
<1>4. Room \in Nat /\ Room > 1 /\ DOMAIN rsv = 0 .. Room - 1 /\ Room \in Reserved
  BY <1>2, DumpAssumption DEF Backed
<1>5. /\ rsv[0][1] # "hdr" /\ Shape(table)
      /\ curr \in Nat \ {0} /\ lst \in Seq(Ranges) /\ dumped = Len(lst) /\ dumped \in 0 .. Len(table)
      /\ \A k \in 1 .. Len(lst) : lst[k].name = table[k].name /\ lst[k].off + lst[k].n <= curr
      /\ Promises(rsv, lst)
  BY <1>2 DEF Filling
<1>6. CASE DumpToMem
  <2>1. Backed' /\ Filling'
    BY <1>2, <1>6, DumpToMemFills
  <2>2. ph' = "mem"
    BY <1>6 DEF DumpToMem
  <2> QED  BY <1>1, <1>2, <1>3, <2>1, <2>2 DEF Sound, FilesPhases
<1>7. CASE StoreList
  <2>1. /\ dumped = Len(table) /\ 2*curr + 1 <= Room
        /\ rsv' = [i \in DOMAIN rsv |-> IF i = curr THEN <<"list", lst>> ELSE rsv[i]]
        /\ ph' = "header" /\ curr' = curr /\ lst' = lst /\ dumped' = dumped
    BY <1>7 DEF StoreList, ListFits, Entries
  <2>2. curr \in DOMAIN rsv /\ 0 \in DOMAIN rsv
    BY <1>4, <1>5, <2>1
  <2>3. /\ DOMAIN rsv' = DOMAIN rsv /\ rsv'[0] = rsv[0] /\ rsv'[curr] = <<"list", lst>>
        /\ \A i \in DOMAIN rsv : i # 0 /\ i < curr => rsv'[i] = rsv[i]
    BY <1>5, <2>1, <2>2
  <2>4. (DOMAIN rsv = 0 .. Room - 1 /\ Room \in Reserved)'
    BY <1>4, <2>3, RoomNext
  <2>5. rsv'[0][1] # "hdr"
    BY <1>5, <2>3
  <2>6. Backed'
    BY <2>4, <2>5 DEF Backed, Header
  <2>7. Promises(rsv', lst)
    BY <1>5, <2>3, PromisesKept
  <2>8. Shape(table)'
    BY <1>1, <1>5, ShapeNext
  <2>9. /\ curr' \in Nat \ {0} /\ lst' \in Seq(Ranges) /\ dumped' = Len(lst') /\ dumped' \in 0 .. Len(table')
        /\ \A k \in 1 .. Len(lst') : lst'[k].name = table'[k].name /\ lst'[k].off + lst'[k].n <= curr'
        /\ Promises(rsv', lst')
    BY <1>1, <1>5, <2>1, <2>7
  <2>10. Filling'
    BY <2>5, <2>8, <2>9, Zenon DEF Filling, Promises
  <2>11. dumped' = Len(table') /\ curr' \in DOMAIN rsv' /\ rsv'[curr'] = <<"list", lst'>>
    BY <1>1, <2>1, <2>2, <2>3
  <2> QED  BY <1>1, <1>2, <1>3, <2>1, <2>6, <2>10, <2>11 DEF Sound, FilesPhases
<1>8. CASE StoreHeader
  <2>1. /\ ph = "header" /\ rsv' = [rsv EXCEPT ![0] = <<"hdr", curr>>]
        /\ ph' = "success" /\ curr' = curr /\ lst' = lst
    BY <1>8 DEF StoreHeader
  <2>2. /\ dumped = Len(table) /\ curr \in DOMAIN rsv /\ rsv[curr] = <<"list", lst>>
    BY <2>1 DEF Sound
  <2>3. /\ DOMAIN rsv' = DOMAIN rsv /\ rsv'[0] = <<"hdr", curr>> /\ rsv'[curr] = <<"list", lst>>
        /\ \A i \in DOMAIN rsv : i # 0 /\ i < curr => rsv'[i] = rsv[i]
    <3>1. 0 \in DOMAIN rsv
      BY <1>4
    <3> QED  BY <1>5, <2>1, <2>2, <3>1
  <2>4. (DOMAIN rsv = 0 .. Room - 1 /\ Room \in Reserved)'
    BY <1>4, <2>3, RoomNext
  <2>5. Promises(rsv', lst)
    BY <1>5, <2>3, PromisesKept
  <2>6. Header'
    <3>1. rsv'[0][2] = curr /\ curr \in DOMAIN rsv' /\ rsv'[curr][1] = "list" /\ rsv'[curr][2] = lst
      BY <2>2, <2>3
    <3>2. Promises(rsv', rsv'[curr][2])
      BY <2>5, <3>1
    <3> QED  BY <3>1, <3>2, Zenon DEF Header, Promises
  <2>7. Backed'
    BY <2>4, <2>6 DEF Backed
  <2>8. TableNames(table') \subseteq {l.name : l \in {lst'[k] : k \in 1 .. Len(lst')}}
    <3>1. \A i \in 1 .. Len(table) : i \in 1 .. Len(lst) /\ table[i].name = lst[i].name
      BY <1>5, <2>2
    <3> QED  BY <1>1, <2>1, <3>1 DEF TableNames
  <2> QED  BY <1>1, <1>2, <1>3, <2>1, <2>7, <2>8 DEF Sound, FilesPhases
<1> QED  BY <1>6, <1>7, <1>8

(* Steps of nothing.                                                       *)
LEMMA SoundStays == Told /\ Sound /\ UNCHANGED dumpVars => Sound'
<1> SUFFICES ASSUME Told, Sound, UNCHANGED dumpVars PROVE Sound'
  OBVIOUS
<1>1. /\ board' = board /\ tlvs' = tlvs /\ comp' = comp /\ to' = to /\ level' = level /\ ph' = ph
      /\ seg' = seg /\ todo' = todo /\ left' = left /\ lastNo' = lastNo /\ short' = short
      /\ table' = table /\ dumped' = dumped /\ files' = files
      /\ rsv' = rsv /\ curr' = curr /\ lst' = lst
  BY DEF dumpVars, cfgVars, tabVars, memVars
<1>2. Memory' = Memory /\ RamTop' = RamTop /\ Size0' = Size0 /\ Room' = Room
  BY <1>1, UnitsNext DEF Size0, Room
<1>3. Backed <=> Backed'
  BY <1>1, <1>2 DEF Backed, Header, Promises
<1>4. Later(todo) <=> Later(todo)'
  BY <1>1 DEF Later
<1>5. Listed <=> Listed'
  BY <1>1 DEF Listed, First, Modules, Tlvs, OfCrash, Waits, TableNames
<1>6. \A d : Covered(d) <=> Covered(d)'
  BY <1>1, <1>2 DEF Covered, Holds, Run, Base
<1>7. \A t : Shape(t) <=> Shape(t)'
  BY <1>1 DEF Shape, DramRow, OtherRow, Apart, InBank0, InBank1, RamTop, Size0
<1>8. FirstDone <=> FirstDone'
  BY <1>1, <1>2, <1>7 DEF FirstDone, Below, InBank0
<1>9. \A d : Tabled(d) <=> Tabled(d)'
  BY <1>1, <1>2, <1>7, <1>8 DEF Tabled, Drams
<1>10. Full => Full'
  BY <1>1, FullNext
<1>11. Filed <=> Filed'
  BY <1>1 DEF Filed, E
<1>12. Filling <=> Filling'
  BY <1>1, <1>7 DEF Filling, Promises
<1>13. TableNames(table)' = TableNames(table)
  BY <1>1 DEF TableNames
<1> QED  BY <1>1, <1>3, <1>4, <1>5, <1>6, <1>9, <1>10, <1>11, <1>12, <1>13 DEF Sound

(* Both invariants together are strong enough.                             *)
LEMMA SoundMeans == Told /\ Sound => DumpIsWhole
<1> SUFFICES ASSUME Told, Sound PROVE DumpIsWhole
  OBVIOUS
<1>1. ASSUME ph = "success", to # "mem" PROVE Whole(DOMAIN files)
  <2>1. Full /\ TableNames(table) \subseteq DOMAIN files /\ dumped = Len(table)
    BY <1>1 DEF Sound
  <2>2. level # "full" => DueTlvs \subseteq DOMAIN files
    BY <2>1 DEF Full
  <2>3. ASSUME level # "mini", ~short, ~over, NEW u \in Memory
        PROVE  \E f \in DOMAIN files : \E i \in 1 .. Len(files[f]) : files[f][i] = u
    <3>1. Stored(table, files, dumped)
      BY <1>1, <2>3 DEF Told
    <3>2. PICK i \in 1 .. Len(table) : table[i].at # 0 /\ u \in Run(table[i])
      BY <2>1, <2>3 DEF Full, Holds
    <3>3. table[i].name \in DOMAIN files /\ files[table[i].name] = Truth(table[i])
      BY <2>1, <3>1, <3>2 DEF Stored, Has
    <3>4. PICK a \in Nat, n \in Nat : a = table[i].at /\ n = table[i].n
      <4>1. table[i] \in Rows
        BY <2>1 DEF Full
      <4> QED  BY <4>1 DEF Rows
    <3>5. Truth(table[i]) = [k \in 1 .. n |-> a + k - 1]
      BY <3>4 DEF Truth
    <3>6. Len(Truth(table[i])) = n
      BY <3>5
    <3>7. u \in a .. a + n - 1
      BY <3>2, <3>4 DEF Run
    <3>8. u - a + 1 \in 1 .. n /\ a + (u - a + 1) - 1 = u
      BY <3>7
    <3>9. Truth(table[i])[u - a + 1] = u
      BY <3>5, <3>8
    <3> QED  BY <3>3, <3>6, <3>8, <3>9
  <2> QED  BY <2>2, <2>3 DEF Whole
<1>2. ASSUME ph = "success", to = "mem" PROVE Whole({l.name : l \in {lst[k] : k \in 1 .. Len(lst)}})
  <2>1. Full /\ TableNames(table) \subseteq {l.name : l \in {lst[k] : k \in 1 .. Len(lst)}} /\ level = "mini"
    BY <1>2 DEF Sound
  <2>2. DueTlvs \subseteq {l.name : l \in {lst[k] : k \in 1 .. Len(lst)}}
    BY <2>1 DEF Full
  <2> QED  BY <2>1, <2>2 DEF Whole
<1>3. rsv[0][1] = "hdr" =>
        rsv[0][2] \in DOMAIN rsv /\ rsv[rsv[0][2]][1] = "list" /\ Promised(rsv[rsv[0][2]][2])
  <2>1. \A l : Promises(rsv, l) => Promised(l)
    BY DEF Promises, Promised
  <2>2. Header
    BY DEF Sound, Backed
  <2> QED  BY <2>1, <2>2 DEF Header
<1> QED  BY <1>1, <1>2, <1>3, Zenon DEF DumpIsWhole

(* A dump that reports success has stored every segment, and every bank    *)
(* unless a part left the memory or an allocation of the full dump failed  *)
(* unnoticed (`over', `short'); a header in the reserved memory stands for *)
(* a list and all it names, at any moment                                  *)
(* (prepare_crashdump_table, ipq_do_dump_data, dump_to_dst).               *)
THEOREM DumpIsComplete == DumpSpec => []DumpIsWhole
<1>1. Told /\ [DumpNext]_dumpVars => Told'
  BY EarlyTold, TableTold, TableLeft, FilesTold, EndTold, ToldStays DEF DumpNext
<1>2. Told /\ Sound /\ [DumpNext]_dumpVars => Sound'
  BY EarlySound, TableSound, TableLeftSound, FilesSound, EndSound, MemSound, SoundStays DEF DumpNext
<1> QED  BY ToldFirst, SoundFirst, <1>1, <1>2, SoundMeans, PTL DEF DumpSpec
=============================================================================
