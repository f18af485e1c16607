------------------------- MODULE CrashdumpNandProofs -------------------------
(***************************************************************************)
(* Proofs about CrashdumpNand, for every size of a page, of a block and of *)
(* the partition, every set of bad blocks and every list of entries.       *)
(***************************************************************************)
EXTENDS CrashdumpNand, TLAPS, SequenceTheorems, FiniteSetTheorems, WellFoundedInduction

\* Which stages there are, and the partition the context is in: the one of
\* the dump, unless a dump in the last good block leaves no room for data.
NoRoom ==
  /\ mode = "nvmem" /\ stage \in {"data", "failed"} /\ Good = {B-1}
  /\ part = <<PartEnd, PartEnd + P>> /\ fed = 0 /\ calls = <<>>

Placed ==
  /\ stage = "setup" => /\ fed = 0 /\ home = 0 /\ calls = <<>> /\ firstErase
                        /\ ~crossed /\ flash = [p \in Pages |-> Old]
                        /\ temp = <<>>
  /\ stage # "setup" =>
       /\ \E b \in 0 .. B-1 : home = b*P /\ (mode = "nvmem" => b \in Good)
       /\ part = <<0, PartEnd>> \/ NoRoom
  /\ stage \in {"setup", "data"} => fed <= MaxUnits
  /\ stage \in {"list", "list_closing", "header"} => mode = "nvmem"
  /\ stage \in {"aborted", "aborting"} => mode = "flash"
  /\ calls # <<>> => stage \in {"data", "list", "list_closing", "closing", "aborting"}
  /\ calls = <<>> => rest = <<>>

\* The data of the dump is being written.
Writing ==
  /\ ~crossed
  /\ \/ stage \in {"data", "list", "list_closing"}
     \/ stage = "closing" /\ mode = "flash"

Start == IF mode = "flash" THEN home ELSE home + P

\* Before the offset the pages are written; in the block of the offset those
\* behind it are erased; and no block behind it was touched.
Fresh ==
  Writing =>
    /\ off \in Start .. PartEnd
    /\ firstErase => off % P = 0
    /\ off % P # 0 => Block(off) \notin bad
    /\ \A p \in off .. PartEnd - 1 :
         Block(p) \notin bad =>
           flash[p] = IF mode = "nvmem" \/ (Block(p) = Block(off) /\ off % P # 0)
                      THEN Blank ELSE Old

\* Pages written, pages in the calls still to be made, and what is kept.
Written == Rank(Start, off)
Due == IF calls = <<>> THEN 0
       ELSE IF Len(calls) = 1 THEN Len(calls[1]) ELSE Len(calls[1]) + Len(calls[2])
Ahead(i) == IF i = 1 THEN 0 ELSE Len(calls[1])
Kept == IF calls = <<>> THEN temp ELSE rest

Stream ==
  Writing =>
    /\ \A p \in GoodPages(Start, off) : flash[p] = Page(Rank(Start, p), fed)
    /\ \A i \in 1 .. Len(calls) : \A j \in 1 .. Len(calls[i]) :
         calls[i][j] = Page(Written + Ahead(i) + (j - 1), fed)
    /\ stage \in {"data", "list"} =>
         /\ fed = (Written + Due) * W + Len(Kept)
         /\ \A i \in 1 .. Len(Kept) : Kept[i] = (Written + Due) * W + i
    /\ stage \in {"list_closing", "closing"} => fed <= (Written + Due) * W

\* The header is written last, when the dump is in the flash.
Headed ==
  mode = "nvmem" /\ ~crossed =>
    /\ stage \notin {"header", "closing", "failed"} => flash[home] \in {Old, Blank}
    /\ stage \in {"header", "closing"} => Stored(home + P)
    /\ stage = "failed" => flash[home] \in {Old, Blank} \/ Stored(home + P)
    /\ stage = "header" => off = home /\ temp = <<Header>> /\ calls = <<>>
    /\ stage = "closing" /\ calls # <<>> =>
         off = home /\ Len(calls) = 1 /\ Len(calls[1]) = 1

IInv == TypeOK /\ Placed /\ StaysInPartition /\ ErasedBeforeWritten /\ Fresh /\ Stream /\ Headed
-----------------------------------------------------------------------------
(* Blocks are where multiples of P begin.                                  *)
LEMMA Products ==
  ASSUME NEW a \in Nat, NEW b \in Nat, NEW d \in Nat
  PROVE  /\ a * d \in Nat
         /\ (a + 1) * d = (a * d) + d
         /\ (a + b) * d = (a * d) + (b * d)
         /\ a <= b => a * d <= b * d
         /\ a < b => (a * d) + d <= b * d
<1>1. a * d \in Nat /\ b * d \in Nat
  OBVIOUS
<1>2. (a + 1) * d = (a * d) + d /\ (a + b) * d = (a * d) + (b * d)
  OBVIOUS
<1>3. ASSUME a <= b PROVE a * d <= b * d
  <2>1. PICK k \in Nat : b = a + k
    BY <1>3
  <2>2. b * d = (a * d) + (k * d) /\ k * d \in Nat
    BY <2>1
  <2> QED BY <1>1, <2>2
<1>4. ASSUME a < b PROVE (a * d) + d <= b * d
  <2>1. PICK k \in Nat : b = (a + 1) + k
    BY <1>4
  <2>2. b * d = ((a + 1) * d) + (k * d) /\ k * d \in Nat
    BY <2>1
  <2> QED BY <1>1, <1>2, <2>2
<1> QED BY <1>1, <1>2, <1>3, <1>4

LEMMA Blocks ==
  ASSUME NEW p \in Nat, NEW b \in Nat
  PROVE  /\ Block(p) \in Nat
         /\ b <= Block(p) <=> b * P <= p
         /\ p < (Block(p) * P) + P /\ Block(p) * P <= p
         /\ p % P = p - (Block(p) * P)
         /\ p % P = 0 <=> p = Block(p) * P
<1>1. P \in Nat /\ P > 0
  BY NandAssumption
<1>2. /\ p = (P * (p \div P)) + (p % P) /\ p \div P \in Nat
      /\ p % P \in 0 .. P-1
  BY <1>1
<1> DEFINE q == Block(p)
<1>3. q \in Nat /\ P * q = q * P /\ p = (q * P) + (p % P)
  BY <1>1, <1>2 DEF Block
<1>4. q * P \in Nat /\ q * P <= p /\ p < (q * P) + P /\ p % P = p - (q * P)
  BY <1>1, <1>2, <1>3
<1>5. b <= q => b * P <= q * P
  BY <1>1, <1>3, Products
<1>6. q < b => (q * P) + P <= b * P
  BY <1>1, <1>3, Products
<1>7. b <= q <=> b * P <= p
  BY <1>1, <1>3, <1>4, <1>5, <1>6
<1> HIDE DEF q
<1>8. q \in Nat /\ p % P = p - (q * P) /\ (p % P = 0 <=> p = q * P)
  BY <1>1, <1>2, <1>3, <1>4
<1> QED BY <1>4, <1>7, <1>8 DEF q

(* The least number of a set.                                              *)
LEMMA LeastOf ==
  ASSUME NEW S, S \subseteq Nat, S # {}
  PROVE  Min(S) \in S /\ \A x \in S : Min(S) <= x
<1>1. OpToRel(<, Nat) = {ss \in Nat \X Nat : ss[1] < ss[2]}
  BY Zenon DEF OpToRel
<1>2. IsWellFoundedOn({ss \in Nat \X Nat : ss[1] < ss[2]}, Nat)
  BY <1>1, NatLessThanWellFounded
<1>3. PICK m \in S : \A y \in S : ~(<<y, m>> \in {ss \in Nat \X Nat : ss[1] < ss[2]})
  BY ONLY <1>2, S \subseteq Nat, S # {}, WFMin
<1>4. ASSUME NEW y \in S PROVE m <= y
  <2>1. ~(<<y, m>> \in {ss \in Nat \X Nat : ss[1] < ss[2]})
    BY <1>3
  <2>2. y \in Nat /\ m \in Nat
    BY S \subseteq Nat
  <2>3. <<y, m>> \in Nat \X Nat /\ <<y, m>>[1] = y /\ <<y, m>>[2] = m
    BY <2>2
  <2>4. ~(y < m)
    BY <2>1, <2>3, Zenon
  <2> QED BY <2>2, <2>4
<1> QED BY <1>4 DEF Min

(* Where a turn of the loop writes: in the first block from the offset on  *)
(* that is not bad, at the offset if that is its block, otherwise at its   *)
(* first page.                                                             *)
LEMMA TurnPlace ==
  ASSUME TypeOK, part = <<0, PartEnd>>
  PROVE  /\ Taken \in Nat /\ Taken <= B+1 /\ Taken \notin bad
         /\ At \in Nat /\ off <= At /\ At <= (B+1)*P
         /\ Block(At) = Taken
         /\ \A p \in off .. At-1 : Block(p) \in bad
         /\ At # off => At % P = 0
<1> DEFINE S == {b \in Block(off) .. B+1 : b \notin bad \/ b*P >= part[2]}
<1>1. /\ B \in Nat /\ P \in Nat /\ P > 0 /\ off \in Nat /\ off <= (B+1)*P
      /\ bad \subseteq 0 .. B-1 /\ part[2] = B*P
  BY NandAssumption DEF TypeOK, PartEnd
<1>2. Block(off) \in Nat /\ Block(off) * P <= off /\ off < (Block(off) * P) + P
  BY <1>1, Blocks
<1>3. Block(off) <= B+1
  <2>1. B+1 < Block(off) => ((B+1) * P) + P <= Block(off) * P
    BY <1>1, <1>2, Products
  <2> QED BY <1>1, <1>2, <2>1
<1>4. S \subseteq Nat /\ B+1 \in S
  BY <1>1, <1>2, <1>3
<1>5. Taken \in S /\ \A b \in S : Taken <= b
  BY <1>4, LeastOf DEF Taken
<1>6. Taken \in Nat /\ Block(off) <= Taken /\ Taken <= B+1
  BY <1>1, <1>2, <1>5
<1>7. Taken \notin bad
  <2> SUFFICES ASSUME Taken \in bad PROVE FALSE
    OBVIOUS
  <2>1. Taken < B /\ Taken * P >= B * P
    BY <1>1, <1>5
  <2>2. (Taken * P) + P <= B * P /\ Taken * P \in Nat /\ B * P \in Nat
    BY <1>1, <1>6, <2>1, Products
  <2> QED BY <1>1, <2>1, <2>2
<1>8. \A b \in Block(off) .. Taken-1 : b \in bad
  BY <1>1, <1>2, <1>5, <1>6
<1>9. CASE Taken = Block(off)
  <2>1. At = off
    BY <1>9 DEF At
  <2> QED BY <1>1, <1>6, <1>7, <1>9, <2>1
<1>10. CASE Taken # Block(off)
  <2>1. At = Taken * P /\ Block(off) < Taken
    BY <1>1, <1>2, <1>6, <1>10 DEF At
  <2>2. (Block(off) * P) + P <= Taken * P /\ Taken * P \in Nat /\ Taken * P <= (B+1) * P
    BY <1>1, <1>2, <1>6, <2>1, Products
  <2>3. off <= At /\ At <= (B+1) * P
    BY <1>1, <1>2, <2>1, <2>2
  <2>4. Block(At) = Taken /\ At % P = 0
    <3>1. Block(At) \in Nat /\ Taken <= Block(At) /\ (Taken+1 <= Block(At) <=> (Taken+1) * P <= At)
      BY <1>6, <2>1, <2>2, Blocks
    <3>2. (Taken+1) * P = (Taken * P) + P
      BY <1>1, <1>6, Products
    <3>3. Block(At) = Taken
      BY <1>1, <1>6, <2>1, <2>2, <3>1, <3>2
    <3> QED BY <2>1, <2>2, <3>3, Blocks
  <2>5. ASSUME NEW p \in off .. At-1 PROVE Block(p) \in bad
    <3>1. p \in Nat /\ off <= p /\ p < Taken * P
      BY <1>1, <2>1, <2>2
    <3>2. Block(p) \in Nat /\ (Block(off) <= Block(p) <=> Block(off) * P <= p)
      BY <1>2, <3>1, Blocks
    <3>3. Taken <= Block(p) <=> Taken * P <= p
      BY <1>6, <3>1, Blocks
    <3>4. Block(p) \in Block(off) .. Taken-1
      BY <1>1, <1>2, <1>6, <2>2, <3>1, <3>2, <3>3
    <3> QED BY <1>8, <3>4
  <2> QED BY <1>6, <1>7, <2>1, <2>2, <2>3, <2>4, <2>5
<1> QED BY <1>9, <1>10

(* How many pages it writes: some of those still to be written, no more    *)
(* than a block, and none behind the partition.                            *)
LEMMA TurnLength ==
  ASSUME TypeOK, part = <<0, PartEnd>>, calls # <<>>, ~LeavesPartition
  PROVE  /\ Todo \in Seq(FullPage) /\ Len(Todo) \in Nat \ {0}
         /\ Length \in 1 .. Len(Todo) /\ Length <= P
         /\ At + Len(Todo) < PartEnd /\ PartEnd \in Nat
         /\ Taken < B
<1>1. B \in Nat /\ P \in Nat /\ P > 0 /\ PartEnd \in Nat /\ PartEnd = B * P
  BY NandAssumption, Products DEF PartEnd
<1>2. Len(calls) \in Nat /\ 1 \in 1 .. Len(calls) /\ Todo = calls[1]
      /\ Todo \in Seq(FullPage)
  BY EmptySeq, HeadTailProperties DEF TypeOK, Todo
<1>3. Len(Todo) \in Nat \ {0}
  BY <1>2, EmptySeq DEF TypeOK
<1>4. /\ At \in Nat /\ Taken \in Nat /\ Block(At) = Taken
      /\ At + Len(Todo) < PartEnd
  BY <1>1, <1>3, TurnPlace DEF LeavesPartition
<1>5. At % P \in 0 .. P-1
  BY <1>1, <1>4
<1>6. Length \in 1 .. Len(Todo) /\ Length <= P
  BY <1>1, <1>3, <1>5 DEF Length
<1>7. Taken < B
  <2>1. B <= Block(At) <=> B * P <= At
    BY <1>1, <1>4, Blocks
  <2> QED BY <1>1, <1>3, <1>4, <2>1
<1> QED BY <1>1, <1>2, <1>3, <1>4, <1>6, <1>7

(* What a turn leaves in the flash, however many of its pages it programs: *)
(* nothing behind the partition changes.                                   *)
LEMMA TurnWrites ==
  ASSUME TypeOK, part = <<0, PartEnd>>, calls # <<>>, ~LeavesPartition,
         NEW k \in 0 .. Length
  PROVE  /\ Programmed(k) \in [Pages -> {Old, Blank, Garbled} \cup FullPage]
         /\ \A p \in Pages : p >= PartEnd => Programmed(k)[p] = flash[p]
<1>1. /\ Todo \in Seq(FullPage) /\ Len(Todo) \in Nat /\ Length \in 1 .. Len(Todo)
      /\ At + Len(Todo) < PartEnd /\ PartEnd \in Nat /\ Taken < B
  BY TurnLength
<1>2. At \in Nat /\ Taken \in Nat /\ Block(At) = Taken
  BY TurnPlace
<1>3. B \in Nat /\ P \in Nat /\ (B+1)*P \in Nat
  BY NandAssumption
<1>4. Erased \in [Pages -> {Old, Blank, Garbled} \cup FullPage]
  BY DEF Erased, TypeOK
<1>5. ASSUME NEW p \in Pages, p \in At .. At + k - 1 PROVE Todo[p - At + 1] \in FullPage
  <2>1. p - At + 1 \in 1 .. Len(Todo)
    BY <1>1, <1>2, <1>3, <1>5
  <2> QED BY <1>1, <2>1, ElementOfSeq
<1>6. Programmed(k) \in [Pages -> {Old, Blank, Garbled} \cup FullPage]
  BY <1>4, <1>5 DEF Programmed
<1>7. ASSUME NEW p \in Pages, p >= PartEnd PROVE Programmed(k)[p] = flash[p]
  <2>1. p \in Nat /\ p \notin At .. At + k - 1
    BY <1>1, <1>2, <1>3, <1>7 DEF Pages
  <2>2. Block(p) \in Nat /\ (B <= Block(p) <=> B * P <= p)
    BY <1>3, <2>1, Blocks
  <2>3. Block(p) # Block(At)
    BY <1>1, <1>2, <1>3, <1>7, <2>1, <2>2 DEF PartEnd
  <2> QED BY <2>1, <2>3 DEF Programmed, Erased
<1> QED BY <1>6, <1>7

(* A run of pages that does not stray while the data is written: all of it *)
(* is in good blocks and erased, and no page before it changes.            *)
LEMMA CleanRun ==
  ASSUME TypeOK, part = <<0, PartEnd>>, calls # <<>>, ~LeavesPartition,
         Fresh, Writing, NEW k \in 0 .. Length, ~Strays(k)
  PROVE  /\ \A p \in 0 .. At-1 : Programmed(k)[p] = flash[p]
         /\ \A p \in At .. At+k-1 : /\ Block(p) \notin bad
                                    /\ Programmed(k)[p] = Todo[p - At + 1]
                                    /\ Block(p) # Taken => flash[p] = Blank
         /\ \A p \in At+k .. PartEnd-1 :
              Programmed(k)[p] = IF Block(p) = Taken THEN Blank ELSE flash[p]
<1>1. /\ Length \in Nat /\ Length <= Len(Todo) /\ Len(Todo) \in Nat
      /\ At + Len(Todo) < PartEnd /\ PartEnd \in Nat /\ Taken < B
  BY TurnLength
<1>2. /\ At \in Nat /\ Taken \in Nat /\ Block(At) = Taken /\ Taken \notin bad
      /\ off <= At /\ (At # off => At % P = 0)
  BY TurnPlace
<1>3. /\ B \in Nat /\ P \in Nat /\ (B+1)*P \in Nat /\ PartEnd <= (B+1)*P
      /\ off \in Nat
  <2>1. (B+1)*P = (B*P) + P
    BY NandAssumption, Products
  <2> QED BY NandAssumption, <2>1, <1>1 DEF PartEnd, TypeOK
<1>4. 0 .. PartEnd-1 \subseteq Pages
  BY <1>1, <1>3 DEF Pages
<1>5. EraseNeeded => At = Taken * P
  <2>1. EraseNeeded => At % P = 0
    BY <1>2 DEF EraseNeeded, Fresh
  <2> QED BY <1>2, <2>1, Blocks
<1>6. ASSUME NEW p \in At .. PartEnd-1, Block(p) = Taken PROVE Erased[p] = Blank
  <2>1. p \in Pages
    BY <1>1, <1>2, <1>4
  <2>2. CASE EraseNeeded
    BY <1>2, <1>6, <2>1, <2>2 DEF Erased
  <2>3. CASE ~EraseNeeded
    <3>1. off = At /\ off % P # 0
      BY <1>2, <2>3 DEF EraseNeeded
    <3>2. flash[p] = Blank
      BY <1>2, <1>6, <3>1 DEF Fresh
    <3> QED BY <2>1, <2>3, <3>2 DEF Erased
  <2> QED BY <2>2, <2>3
<1>7. ASSUME NEW p \in 0 .. At-1 PROVE Programmed(k)[p] = flash[p]
  <2>1. p \in Pages /\ p \in Nat /\ p \notin At .. At + k - 1
    BY <1>1, <1>2, <1>4, <1>7
  <2>2. EraseNeeded => Block(p) # Taken
    BY <1>2, <1>5, <2>1, <1>7, Blocks
  <2> QED BY <1>2, <2>1, <2>2 DEF Programmed, Erased
<1>8. ASSUME NEW p \in At .. At+k-1
      PROVE  /\ Block(p) \notin bad
             /\ Programmed(k)[p] = Todo[p - At + 1]
             /\ Block(p) # Taken => flash[p] = Blank
  <2>1. p \in Pages /\ p \in At .. PartEnd-1
    BY <1>1, <1>2, <1>4, <1>8
  <2>2. Block(p) \notin bad /\ Erased[p] = Blank
    BY <1>2, <1>6, <2>1 DEF Strays
  <2>3. Block(p) # Taken => flash[p] = Blank
    BY <1>2, <2>1, <2>2 DEF Erased
  <2> QED BY <2>1, <2>2, <2>3 DEF Programmed
<1>9. ASSUME NEW p \in At+k .. PartEnd-1
      PROVE  Programmed(k)[p] = IF Block(p) = Taken THEN Blank ELSE flash[p]
  <2>1. p \in Pages /\ p \in At .. PartEnd-1 /\ p \notin At .. At+k-1
    BY <1>1, <1>2, <1>4, <1>9
  <2>2. Programmed(k)[p] = Erased[p]
    BY <2>1 DEF Programmed
  <2> QED BY <1>2, <1>6, <2>1, <2>2 DEF Erased
<1> QED BY <1>7, <1>8, <1>9

(* Counting the good pages up to a page.                                   *)
LEMMA RankType ==
  ASSUME NEW s \in Nat, NEW p \in Nat
  PROVE  /\ IsFiniteSet(GoodPages(s, p)) /\ Rank(s, p) \in Nat
         /\ p <= s => Rank(s, p) = 0
<1>1. GoodPages(s, p) \subseteq s .. p-1
  BY DEF GoodPages
<1>2. IsFiniteSet(s .. p-1)
  BY FS_Interval
<1>3. IsFiniteSet(GoodPages(s, p))
  BY <1>1, <1>2, FS_Subset
<1>4. Rank(s, p) \in Nat
  BY <1>3, FS_CardinalityType DEF Rank
<1>5. ASSUME p <= s PROVE Rank(s, p) = 0
  <2>1. GoodPages(s, p) = {}
    BY <1>1, <1>5
  <2> QED BY <2>1, FS_EmptySet DEF Rank
<1> QED BY <1>3, <1>4, <1>5

LEMMA RankGrows ==
  ASSUME NEW s \in Nat, NEW p \in Nat, NEW q \in Nat, p <= q
  PROVE  Rank(s, p) <= Rank(s, q)
<1>1. GoodPages(s, p) \subseteq GoodPages(s, q)
  BY DEF GoodPages
<1>2. IsFiniteSet(GoodPages(s, q))
  BY RankType
<1> QED BY <1>1, <1>2, FS_Subset DEF Rank

AllBad(p, q) == \A x \in p .. q-1 : Block(x) \in bad
AllGood(p, q) == \A x \in p .. q-1 : Block(x) \notin bad

LEMMA RankOfRun ==
  ASSUME NEW s \in Nat, NEW p \in Nat, NEW q \in Nat, NEW t \in Nat,
         s <= p, p <= q, q <= t, AllBad(p, q), AllGood(q, t)
  PROVE  Rank(s, t) = Rank(s, p) + (t - q)
<1>1. GoodPages(s, t) = GoodPages(s, p) \cup (q .. t-1)
  BY DEF GoodPages, AllBad, AllGood
<1>2. GoodPages(s, p) \cap (q .. t-1) = {}
  BY DEF GoodPages
<1>3. IsFiniteSet(GoodPages(s, p))
  BY RankType
<1>4. IsFiniteSet(q .. t-1) /\ Cardinality(q .. t-1) = t - q
  <2>1. Cardinality(q .. t-1) = IF q > t-1 THEN 0 ELSE (t-1) - q + 1
    BY FS_Interval
  <2>2. IsFiniteSet(q .. t-1)
    BY FS_Interval
  <2> QED BY <2>1, <2>2
<1>5. Cardinality(GoodPages(s, p) \cap (q .. t-1)) = 0
  BY <1>2, FS_EmptySet
<1>6. Cardinality(GoodPages(s, p)) \in Nat
  BY <1>3, FS_CardinalityType
<1>7. Cardinality(GoodPages(s, p) \cup (q .. t-1))
        = Cardinality(GoodPages(s, p)) + Cardinality(q .. t-1)
            - Cardinality(GoodPages(s, p) \cap (q .. t-1))
  BY <1>3, <1>4, FS_Union
<1>8. Cardinality(GoodPages(s, p) \cup (q .. t-1)) = Cardinality(GoodPages(s, p)) + (t - q)
  BY <1>4, <1>5, <1>6, <1>7
<1>9. Cardinality(GoodPages(s, t)) = Cardinality(GoodPages(s, p)) + (t - q)
  BY ONLY <1>1, <1>8
<1> QED BY ONLY <1>9 DEF Rank

(* What crashdump_nand_flash_write_data makes of whole pages: at most two  *)
(* calls, the first of one page, and less than a page that is kept.        *)
LEMMA BatchesOf ==
  ASSUME NEW s \in Seq(Unit), Len(s) >= W, NEW n, n = Len(s) \div W
  PROVE  /\ n \in Nat \ {0} /\ n * W \in Nat /\ n * W <= Len(s) /\ Len(s) < (n * W) + W
         /\ Batches(s, n) \in Seq(Seq(FullPage)) /\ Len(Batches(s, n)) \in 1 .. 2
         /\ Len(Batches(s, n)[1]) = 1 /\ Batches(s, n)[1] \in Seq(FullPage)
         /\ Len(Batches(s, n)) = 1 => n = 1
         /\ Len(Batches(s, n)) = 2 => /\ Len(Batches(s, n)[2]) = n-1 /\ n > 1
                                      /\ Batches(s, n)[2] \in Seq(FullPage)
         /\ Batches(s, n)[1] = Paged(s, 0, 1)
         /\ Len(Batches(s, n)) = 2 => Batches(s, n)[2] = Paged(s, 1, n-1)
<1>1. W \in Nat /\ W > 1 /\ Len(s) \in Nat
  BY NandAssumption, LenProperties
<1>2. /\ Len(s) = (W * (Len(s) \div W)) + (Len(s) % W)
      /\ Len(s) \div W \in Nat /\ Len(s) % W \in 0 .. W-1
  BY <1>1
<1>3. n \in Nat /\ W * n = n * W /\ n * W \in Nat
  BY <1>1, <1>2, n = Len(s) \div W, Products
<1>4. n * W <= Len(s) /\ Len(s) < (n * W) + W /\ n # 0
  BY <1>1, <1>2, <1>3, n = Len(s) \div W, Len(s) >= W
<1>5. ASSUME NEW k \in Nat, NEW c \in Nat, k + c <= n
      PROVE  /\ Paged(s, k, c) \in Seq(FullPage) /\ Len(Paged(s, k, c)) = c
             /\ \A j \in 1 .. c : \A m \in 1 .. W : Paged(s, k, c)[j][m] = s[(k + j - 1) * W + m]
  <2>1. ASSUME NEW j \in 1 .. c
        PROVE  [m \in 1 .. W |-> s[(k + j - 1) * W + m]] \in FullPage
    <3>1. ASSUME NEW m \in 1 .. W PROVE s[(k + j - 1) * W + m] \in Unit
      <4> DEFINE q == k + j - 1
      <4>1. q \in Nat /\ q < n
        BY <1>3, <1>5
      <4>2. q * W \in Nat /\ (q * W) + W <= n * W
        BY <1>1, <1>3, <4>1, Products
      <4> HIDE DEF q
      <4>3. (q * W) + m \in 1 .. Len(s)
        BY <1>1, <1>3, <1>4, <4>2
      <4> QED BY <4>3, ElementOfSeq DEF q
    <3> QED BY <3>1 DEF FullPage
  <2>2. Paged(s, k, c) \in [1 .. c -> FullPage]
    BY <2>1 DEF Paged
  <2>3. Paged(s, k, c) \in Seq(FullPage) /\ Len(Paged(s, k, c)) = c
    BY <2>2
  <2> QED BY <2>3 DEF Paged
<1> DEFINE one == Paged(s, 0, 1)
           more == Paged(s, 1, n-1)
<1>6. /\ one \in Seq(FullPage) /\ Len(one) = 1
      /\ \A m \in 1 .. W : one[1][m] = s[(0 + 1 - 1) * W + m]
  <2>1. 0 + 1 <= n
    BY <1>3, <1>4
  <2>2. 0 \in Nat /\ 1 \in Nat /\ 1 \in 1 .. 1
    OBVIOUS
  <2> QED BY <1>5, <2>1, <2>2
<1>7. n > 1 => /\ more \in Seq(FullPage) /\ Len(more) = n-1
               /\ \A j \in 1 .. n-1 : \A m \in 1 .. W :
                    more[j][m] = s[(1 + j - 1) * W + m]
  <2>1. n > 1 => 1 + (n-1) <= n /\ n-1 \in Nat
    BY <1>3
  <2> QED BY <1>5, <2>1
<1>8. Batches(s, n) = IF n = 1 THEN <<one>> ELSE <<one, more>>
  BY DEF Batches
<1> HIDE DEF one, more
<1> DEFINE made == Batches(s, n)
<1>9. /\ n = 1 => made \in Seq(Seq(FullPage)) /\ Len(made) = 1 /\ made[1] = one
      /\ n > 1 => /\ made \in Seq(Seq(FullPage)) /\ Len(made) = 2
                  /\ made[1] = one /\ made[2] = more
  <2>1. n = 1 => made = <<one>>
    BY <1>8
  <2>2. n > 1 => made = <<one, more>>
    BY <1>3, <1>8
  <2> HIDE DEF made
  <2>3. CASE n = 1
    <3>1. made = <<one>> /\ one \in Seq(FullPage)
      BY <1>6, <2>1, <2>3
    <3>2. made \in Seq(Seq(FullPage)) /\ Len(made) = 1 /\ made[1] = one
      BY ONLY <3>1
    <3> QED BY <2>3, <3>2
  <2>4. CASE n > 1
    <3>1. made = <<one, more>> /\ one \in Seq(FullPage) /\ more \in Seq(FullPage)
      BY <1>6, <1>7, <2>2, <2>4
    <3>2. made \in Seq(Seq(FullPage)) /\ Len(made) = 2 /\ made[1] = one /\ made[2] = more
      BY ONLY <3>1
    <3> QED BY <2>4, <3>2
  <2> QED BY <1>3, <1>4, <2>3, <2>4
<1> HIDE DEF made
<1>10. n = 1 \/ n > 1
  BY <1>3, <1>4
<1>11. made[1] = one /\ (Len(made) = 2 => made[2] = more)
  <2>1. ASSUME n = 1 PROVE Len(made) # 2
    <3>1. Len(made) = 1
      BY <1>9, <2>1
    <3> QED BY ONLY <3>1
  <2>2. CASE n = 1
    BY <1>9, <2>1, <2>2
  <2>3. CASE n > 1
    BY <1>9, <2>3
  <2> QED BY <1>10, <2>2, <2>3
<1>12. /\ made \in Seq(Seq(FullPage)) /\ Len(made) \in 1 .. 2
       /\ Len(made[1]) = 1 /\ made[1] \in Seq(FullPage)
       /\ Len(made) = 1 => n = 1
       /\ Len(made) = 2 => Len(made[2]) = n-1 /\ n > 1 /\ made[2] \in Seq(FullPage)
  <2>1. CASE n = 1
    <3>1. made \in Seq(Seq(FullPage)) /\ Len(made) = 1 /\ made[1] = one
      BY <1>9, <2>1
    <3> QED BY <1>6, <2>1, <3>1
  <2>2. CASE n > 1
    <3>1. made \in Seq(Seq(FullPage)) /\ Len(made) = 2 /\ made[1] = one /\ made[2] = more
      BY <1>9, <2>2
    <3> QED BY <1>6, <1>7, <2>2, <3>1
  <2> QED BY <1>10, <2>1, <2>2
<1> QED BY <1>3, <1>4, <1>11, <1>12 DEF made, one, more

(* The entries are packed without a gap: when what is kept starts where N  *)
(* pages end, so do the pages of the calls and what is kept after them.    *)
LEMMA Packed ==
  ASSUME TypeOK, calls = <<>>, rest = <<>>, NEW k \in Nat, NEW n \in Nat \ {0},
         k + n <= MaxUnits + ListSize, WriteData(Units(k, n))
  PROVE  /\ temp' \in Seq(Unit) /\ Len(temp') < W
         /\ rest' \in Seq(Unit) /\ Len(rest') < W
         /\ calls' \in Seq(Seq(FullPage)) /\ Len(calls') \in 0 .. 2
         /\ \A i \in 1 .. Len(calls') : calls'[i] # <<>>
         /\ calls' = <<>> => rest' = <<>>
         /\ \A N \in Nat :
              k = (N * W) + Len(temp) /\ (\A i \in 1 .. Len(temp) : temp[i] = (N * W) + i) =>
                /\ k + n = ((N + Due') * W) + Len(Kept')
                /\ \A i \in 1 .. Len(Kept') : Kept'[i] = ((N + Due') * W) + i
                /\ \A i \in 1 .. Len(calls') : \A j \in 1 .. Len(calls'[i]) :
                     calls'[i][j] = Page(N + Ahead(i)' + (j - 1), k + n)
<1> DEFINE data == Units(k, n)
           all == temp \o data
<1>1. /\ W \in Nat /\ W > 1 /\ temp \in Seq(Unit) /\ Len(temp) \in Nat /\ Len(temp) < W
      /\ MaxUnits + ListSize \in Nat
  BY NandAssumption, LenProperties DEF TypeOK
<1>2. data \in Seq(Unit) /\ Len(data) = n /\ \A i \in 1 .. n : data[i] = k + i
  <2>1. \A i \in 1 .. n : k + i \in 1 .. MaxUnits + ListSize
    BY <1>1
  <2>2. data \in [1 .. n -> Unit] /\ \A i \in 1 .. n : data[i] = k + i
    BY <2>1 DEF Units, Unit
  <2> HIDE DEF data
  <2> QED BY <2>2
<1> HIDE DEF data
<1>3. /\ all \in Seq(Unit) /\ Len(all) = Len(temp) + n
      /\ \A i \in 1 .. Len(all) :
           all[i] = IF i <= Len(temp) THEN temp[i] ELSE data[i - Len(temp)]
  <2>1. temp \in Seq(Unit) /\ data \in Seq(Unit) /\ Len(data) = n
    BY ONLY <1>1, <1>2
  <2>2. /\ all \in Seq(Unit) /\ Len(all) = Len(temp) + Len(data)
        /\ \A i \in 1 .. Len(temp) + Len(data) :
             all[i] = IF i <= Len(temp) THEN temp[i] ELSE data[i - Len(temp)]
    BY ONLY <2>1, ConcatProperties
  <2> QED BY ONLY <2>1, <2>2
<1> HIDE DEF all
<1>4. ASSUME NEW N \in Nat, k = (N * W) + Len(temp),
             \A i \in 1 .. Len(temp) : temp[i] = (N * W) + i
      PROVE  \A i \in 1 .. Len(all) : all[i] = (N * W) + i
  <2>1. N * W \in Nat
    BY <1>1
  <2>2. ASSUME NEW i \in 1 .. Len(all) PROVE all[i] = (N * W) + i
    <3>1. CASE i <= Len(temp)
      BY <1>3, <1>4, <3>1
    <3>2. CASE ~(i <= Len(temp))
      <4>1. i - Len(temp) \in 1 .. n /\ all[i] = data[i - Len(temp)]
        BY <1>1, <1>3, <3>2
      <4> QED BY <1>1, <1>2, <1>4, <2>1, <4>1
    <3> QED BY <3>1, <3>2
  <2> QED BY <2>2
<1>5. CASE BelowPage(Len(temp) + Len(data))
  <2>1. temp' = all /\ calls' = <<>> /\ rest' = <<>> /\ Len(all) < W
    BY <1>2, <1>3, <1>5 DEF WriteData, data, all, BelowPage
  <2>2. Due' = 0 /\ Kept' = all
    BY <2>1 DEF Due, Kept
  <2>3. ASSUME NEW N \in Nat, k = (N * W) + Len(temp),
               \A i \in 1 .. Len(temp) : temp[i] = (N * W) + i
        PROVE  /\ k + n = ((N + Due') * W) + Len(Kept')
               /\ \A i \in 1 .. Len(Kept') : Kept'[i] = ((N + Due') * W) + i
    <3>1. N * W \in Nat /\ N + Due' = N
      BY <1>1, <2>2
    <3>2. \A i \in 1 .. Len(all) : all[i] = (N * W) + i
      BY <1>4, <2>3
    <3>3. (N + Due') * W = N * W
      BY ONLY <3>1
    <3>4. k + n = ((N + Due') * W) + Len(Kept')
      BY ONLY <3>3, <2>2, <1>3, <1>1, <2>3, <3>1, n \in Nat
    <3>5. \A i \in 1 .. Len(Kept') : Kept'[i] = ((N + Due') * W) + i
      BY ONLY <2>2, <3>2, <3>3
    <3> QED BY <3>4, <3>5
  <2> QED BY <1>1, <1>3, <2>1, <2>3
<1>6. CASE ~BelowPage(Len(temp) + Len(data))
  <2> DEFINE g == Len(all) \div W
             made == Batches(all, g)
  <2>1. calls' = made /\ rest' = SubSeq(all, g*W + 1, Len(all)) /\ temp' = temp
        /\ Len(all) >= W
    <3>1. WriteData(data)
      BY DEF data
    <3>2. PutPages(data)
      BY <1>6, <3>1 DEF WriteData
    <3>3. calls' = made /\ rest' = SubSeq(all, g*W + 1, Len(all)) /\ temp' = temp
      BY <3>2 DEF PutPages, all
    <3>4. Len(all) \in Nat /\ Len(all) = Len(temp) + Len(data)
      BY <1>1, <1>2, <1>3
    <3>5. Len(all) >= W
      BY ONLY <1>1, <1>6, <3>4 DEF BelowPage
    <3> QED BY <3>3, <3>5
  <2>0. all \in Seq(Unit) /\ Len(all) >= W /\ g = Len(all) \div W
    BY <1>3, <2>1
  <2>2. g \in Nat \ {0} /\ g * W \in Nat /\ g * W <= Len(all) /\ Len(all) < (g * W) + W
    BY <1>3, <2>1, BatchesOf
  <2>3. /\ made \in Seq(Seq(FullPage)) /\ Len(made) \in 1 .. 2
        /\ Len(made[1]) = 1 /\ made[1] \in Seq(FullPage)
        /\ Len(made) = 1 => g = 1
        /\ Len(made) = 2 => Len(made[2]) = g-1 /\ g > 1 /\ made[2] \in Seq(FullPage)
    BY <1>3, <2>1, BatchesOf
  <2>4. made[1] = Paged(all, 0, 1) /\ (Len(made) = 2 => made[2] = Paged(all, 1, g-1))
    BY <1>3, <2>1, BatchesOf
  <2> HIDE DEF g, made
  <2>5. /\ rest' \in Seq(Unit) /\ Len(rest') = Len(all) - (g * W)
        /\ \A i \in 1 .. Len(rest') : rest'[i] = all[(g * W) + i]
    <3> DEFINE a == (g * W) + 1
               z == Len(all)
    <3>1. a \in Int /\ z \in Int /\ a >= 1 /\ a <= z + 1 /\ a = (g * W) + 1
      BY <1>1, <1>3, <2>2
    <3>2. rest' = SubSeq(all, a, z)
      BY <2>1
    <3>3. z = Len(all) /\ \A i \in 1 .. z : all[i] \in Unit
      BY <1>3, ElementOfSeq
    <3> HIDE DEF a, z
    <3>4. \A i \in a .. z : all[i] \in Unit
      BY <3>1, <3>3
    <3>5. /\ rest' \in Seq(Unit)
          /\ Len(rest') = IF a <= z THEN z - a + 1 ELSE 0
          /\ \A i \in 1 .. z - a + 1 : rest'[i] = all[a + i - 1]
      BY ONLY <3>1, <3>2, <3>4, SubSeqProperties
    <3>6. Len(rest') = z - a + 1
      BY ONLY <3>1, <3>5
    <3>7. z - a + 1 = Len(all) - (g * W)
      BY ONLY <3>1, <3>3, <2>2
    <3>8. \A i \in 1 .. Len(rest') : a + i - 1 = (g * W) + i
      BY ONLY <3>1, <2>2, <3>5, LenProperties
    <3> QED BY <3>5, <3>6, <3>7, <3>8
  <2>6. made # <<>> /\ \A i \in 1 .. Len(made) : made[i] # <<>>
    <3>1. Len(made) # 0 /\ Len(made[1]) # 0
      BY ONLY <2>3
    <3>2. Len(made) = 2 => Len(made[2]) # 0
      BY ONLY <2>2, <2>3
    <3>3. \A i \in 1 .. Len(made) : i = 1 \/ (i = 2 /\ Len(made) = 2)
      <4>1. PICK l \in 1 .. 2 : l = Len(made)
        BY ONLY <2>3
      <4>2. \A i \in 1 .. l : i = 1 \/ (i = 2 /\ l = 2)
        BY ONLY l \in 1 .. 2
      <4> QED BY ONLY <4>1, <4>2
    <3>4. \A i \in 1 .. Len(made) : Len(made[i]) # 0
      BY ONLY <3>1, <3>2, <3>3
    <3> QED BY ONLY <3>1, <3>4, EmptySeq
  <2>7. Due' = g /\ Kept' = rest'
    <3>1. Due' = IF Len(made) = 1 THEN Len(made[1]) ELSE Len(made[1]) + Len(made[2])
      BY <2>1, <2>6 DEF Due
    <3>2. Len(made) = 1 \/ Len(made) = 2
      BY ONLY <2>3
    <3>3. Due' = g
      BY ONLY <2>2, <2>3, <3>1, <3>2
    <3> QED BY <2>1, <2>6, <3>3 DEF Kept
  <2>8. ASSUME NEW i \in 1 .. Len(made), NEW j \in 1 .. Len(made[i])
        PROVE  /\ Ahead(i)' = i - 1 /\ made[i][j] \in FullPage
               /\ i \in 1 .. 2 /\ j \in Nat \ {0} /\ (i - 1) + (j - 1) < g
               /\ \A m \in 1 .. W : made[i][j][m] = all[((i - 1) + (j - 1)) * W + m]
    <3>1. CASE i = 1
      <4>1. Len(made[i]) = 1 /\ made[i] \in Seq(FullPage)
        BY ONLY <2>3, <3>1
      <4>2. j = 1
        BY ONLY <4>1, j \in 1 .. Len(made[i])
      <4>3. made[i][j] \in FullPage
        BY ONLY <4>1, <4>2, ElementOfSeq, j \in 1 .. Len(made[i])
      <4>4. Ahead(i)' = 0
        BY <3>1 DEF Ahead
      <4>5. \A m \in 1 .. W : made[i][j][m] = all[(0 + j - 1) * W + m]
        <5>1. made[i] = Paged(all, 0, 1) /\ j \in 1 .. 1
          BY ONLY <2>4, <3>1, <4>2
        <5> QED BY ONLY <5>1 DEF Paged
      <4>6. 0 + j - 1 = (i - 1) + (j - 1)
        BY ONLY <3>1, <4>2
      <4> QED BY ONLY <2>2, <3>1, <4>2, <4>3, <4>4, <4>5, <4>6
    <3>2. CASE i = 2
      <4>1. Len(made) = 2
        BY <2>3, <3>2
      <4>2. j \in 1 .. g-1 /\ made[i] \in Seq(FullPage) /\ Ahead(i)' = Len(calls'[1])
        BY <2>2, <2>3, <3>2, <4>1 DEF Ahead
      <4>3. made[i][j] \in FullPage
        BY <4>2, ElementOfSeq
      <4>4. \A m \in 1 .. W : made[i][j][m] = all[(1 + j - 1) * W + m]
        <5>1. made[i] = Paged(all, 1, g-1) /\ j \in 1 .. g-1
          BY ONLY <2>4, <3>2, <4>1, <4>2
        <5> QED BY ONLY <5>1 DEF Paged
      <4>5. 1 + j - 1 = (i - 1) + (j - 1)
        BY <3>2, <4>2
      <4>6. Ahead(i)' = 1
        BY <2>1, <2>3, <4>2
      <4> QED BY ONLY <2>2, <3>2, <4>2, <4>3, <4>4, <4>5, <4>6
    <3> QED BY <2>3, <3>1, <3>2
  <2>9. ASSUME NEW N \in Nat, k = (N * W) + Len(temp),
               \A i \in 1 .. Len(temp) : temp[i] = (N * W) + i
        PROVE  /\ k + n = ((N + Due') * W) + Len(Kept')
               /\ \A i \in 1 .. Len(Kept') : Kept'[i] = ((N + Due') * W) + i
               /\ \A i \in 1 .. Len(made) : \A j \in 1 .. Len(made[i]) :
                    made[i][j] = Page(N + Ahead(i)' + (j - 1), k + n)
    <3>1. N * W \in Nat /\ (N + g) * W = (N * W) + (g * W)
      BY <1>1, <2>2, Products
    <3>2. \A i \in 1 .. Len(all) : all[i] = (N * W) + i
      BY <1>4, <2>9
    <3>3. k + n = (N * W) + Len(all)
      BY <1>1, <1>3, <2>9, <3>1
    <3>4. k + n = ((N + Due') * W) + Len(Kept')
      <4>1. (N + Due') * W = (N * W) + (g * W)
        BY ONLY <2>7, <3>1
      <4>2. Len(Kept') = Len(all) - (g * W)
        BY ONLY <2>5, <2>7
      <4>3. Len(all) \in Nat
        BY ONLY <1>3, LenProperties
      <4> HIDE DEF all
      <4> QED BY ONLY <2>2, <3>1, <3>3, <4>1, <4>2, <4>3
    <3>5. ASSUME NEW i \in 1 .. Len(Kept') PROVE Kept'[i] = ((N + Due') * W) + i
      <4>1. (g * W) + i \in 1 .. Len(all) /\ Kept'[i] = all[(g * W) + i]
        <5>1. Kept'[i] = all[(g * W) + i]
          BY ONLY <2>5, <2>7, i \in 1 .. Len(Kept')
        <5>2. Len(all) \in Nat /\ i \in 1 .. Len(all) - (g * W)
          BY ONLY <1>3, <2>5, <2>7, LenProperties, i \in 1 .. Len(Kept')
        <5> QED BY ONLY <2>2, <5>1, <5>2
      <4> QED BY ONLY <2>2, <2>7, <3>1, <3>2, <4>1, <1>1, i \in 1 .. Len(Kept')
    <3>6. ASSUME NEW i \in 1 .. Len(made), NEW j \in 1 .. Len(made[i])
          PROVE  made[i][j] = Page(N + Ahead(i)' + (j - 1), k + n)
      <4> DEFINE r == (i - 1) + (j - 1)
      <4>1. r \in Nat /\ r < g /\ N + Ahead(i)' + (j - 1) = N + r
        BY <2>8
      <4> HIDE DEF r
      <4>2. /\ r * W \in Nat /\ (r * W) + W <= g * W
            /\ (N + r) * W = (N * W) + (r * W)
        BY <1>1, <2>2, <4>1, Products
      <4>3. ASSUME NEW m \in 1 .. W
            PROVE  made[i][j][m] = Page(N + r, k + n)[m]
        <5>1. (r * W) + m \in 1 .. Len(all)
          <6>1. Len(all) \in Nat
            BY ONLY <1>3, LenProperties
          <6>2. PICK x, y, z \in Nat : x = r * W /\ y = g * W /\ z = Len(all)
            BY ONLY <2>2, <4>2, <6>1
          <6>3. x + W <= y /\ y <= z /\ W \in Nat
            BY ONLY <1>1, <2>2, <4>2, <6>2
          <6>4. x + m \in 1 .. z
            BY ONLY <6>3, m \in 1 .. W
          <6> QED BY ONLY <6>2, <6>4
        <5>2. made[i][j][m] = all[(r * W) + m]
          BY <2>8 DEF r
        <5>3. made[i][j][m] = ((N + r) * W) + m /\ ((N + r) * W) + m <= k + n
          <6>1. made[i][j][m] = (N * W) + ((r * W) + m)
            BY ONLY <3>2, <5>1, <5>2
          <6>2. Len(all) \in Nat
            BY ONLY <1>3, LenProperties
          <6>3. N * W \in Nat /\ r * W \in Nat /\ (N + r) * W = (N * W) + (r * W)
            BY ONLY <3>1, <4>2
          <6>4. (N * W) + ((r * W) + m) = ((N + r) * W) + m
            BY ONLY <6>3, m \in 1 .. W
          <6>5. (N * W) + ((r * W) + m) <= k + n
            BY ONLY <3>3, <5>1, <6>2, <6>3, m \in 1 .. W
          <6> QED BY ONLY <6>1, <6>4, <6>5
        <5> QED BY <5>3 DEF Page
      <4>4. made[i][j] \in [1 .. W -> Unit]
        BY <2>8 DEF FullPage
      <4>5. made[i][j] = Page(N + r, k + n)
        BY <4>3, <4>4 DEF Page
      <4> QED BY <4>1, <4>5
    <3> QED BY <3>4, <3>5, <3>6
  <2>10. temp' \in Seq(Unit) /\ Len(temp') < W /\ Len(rest') < W
    BY <1>1, <1>3, <2>1, <2>2, <2>5
  <2>11. calls' \in Seq(Seq(FullPage)) /\ Len(calls') \in 0 .. 2 /\ calls' # <<>>
    <3>1. made \in Seq(Seq(FullPage))
      BY ONLY <2>3
    <3>2. Len(made) \in 0 .. 2
      <4>1. PICK l \in 1 .. 2 : l = Len(made)
        BY ONLY <2>3
      <4>2. \A i \in 1 .. l : i = 1 \/ (i = 2 /\ l = 2)
        BY ONLY l \in 1 .. 2
      <4> QED BY ONLY <4>1, <4>2
    <3> QED BY ONLY <2>1, <2>6, <3>1, <3>2
  <2> QED BY ONLY <2>1, <2>5, <2>6, <2>9, <2>10, <2>11
<1> QED BY <1>5, <1>6

(* What a turn leaves to be written: the same pages in the same order, but *)
(* for those it wrote.                                                     *)
LEMMA LeftToWrite ==
  ASSUME TypeOK, part = <<0, PartEnd>>, calls # <<>>, TurnDone
  PROVE  /\ calls' \in Seq(Seq(FullPage)) /\ Len(calls') \in 0 .. 2
         /\ \A i \in 1 .. Len(calls') : calls'[i] # <<>>
         /\ Kept' = Kept /\ Length + Due' = Due /\ Due' \in Nat
         /\ \A i \in 1 .. Len(calls') : \A j \in 1 .. Len(calls'[i]) :
              \E x \in 1 .. Len(calls) : \E y \in 1 .. Len(calls[x]) :
                /\ calls'[i][j] = calls[x][y]
                /\ Length + Ahead(i)' + (j - 1) = Ahead(x) + (y - 1)
                /\ Ahead(i)' \in Nat /\ Ahead(x) \in Nat
<1>1. /\ calls \in Seq(Seq(FullPage)) /\ Len(calls) \in 0 .. 2
      /\ \A i \in 1 .. Len(calls) : calls[i] # <<>>
  BY DEF TypeOK
<1>2. Len(calls) = 1 \/ Len(calls) = 2
  <2>1. Len(calls) # 0
    BY <1>1, EmptySeq
  <2> QED BY <1>1, <2>1
<1>3. /\ Todo = calls[1] /\ Todo \in Seq(FullPage)
      /\ Len(Todo) \in Nat \ {0} /\ Length \in 1 .. Len(Todo)
  <2>1. ~LeavesPartition
    BY DEF TurnDone
  <2> QED BY <2>1, TurnLength DEF Todo
<1>4. /\ calls' = IF Length = Len(Todo) THEN Tail(calls)
                 ELSE [calls EXCEPT ![1] = SubSeq(calls[1], Length + 1, Len(calls[1]))]
      /\ calls' = <<>> => temp' = rest /\ rest' = <<>>
      /\ calls' # <<>> => temp' = temp /\ rest' = rest
  BY DEF TurnDone
<1>5. Kept' = Kept
  BY <1>4 DEF Kept
<1>6. Due = IF Len(calls) = 1 THEN Len(calls[1]) ELSE Len(calls[1]) + Len(calls[2])
  BY DEF Due
<1>7. CASE Length = Len(Todo) /\ Len(calls) = 1
  <2>1. calls' = <<>>
    <3>1. calls' = Tail(calls)
      BY <1>4, <1>7
    <3>2. Len(Tail(calls)) = 0 /\ Tail(calls) \in Seq(Seq(FullPage))
      BY <1>1, <1>7, HeadTailProperties
    <3> QED BY <3>1, <3>2, EmptySeq
  <2>2. Due' = 0
    BY <2>1 DEF Due
  <2>3. Due = Len(Todo)
    BY <1>3, <1>6, <1>7
  <2>4. Len(calls') = 0 /\ calls' \in Seq(Seq(FullPage))
    BY <2>1, EmptySeq
  <2> QED BY <1>3, <1>5, <1>7, <2>2, <2>3, <2>4
<1>8. CASE Length = Len(Todo) /\ Len(calls) = 2
  <2>1. /\ calls' \in Seq(Seq(FullPage)) /\ Len(calls') = 1
        /\ calls'[1] = calls[2]
    <3>1. calls' = Tail(calls)
      BY <1>4, <1>8
    <3>2. /\ Tail(calls) \in Seq(Seq(FullPage)) /\ Len(Tail(calls)) = Len(calls) - 1
          /\ \A i \in 1 .. Len(Tail(calls)) : Tail(calls)[i] = calls[i+1]
      BY <1>1, HeadTailProperties
    <3>3. Len(calls') = 1
      BY ONLY <1>8, <3>1, <3>2
    <3>4. 1 \in 1 .. Len(calls')
      BY ONLY <3>3
    <3> QED BY <1>8, <3>1, <3>2, <3>3, <3>4
  <2>2. calls' # <<>> /\ calls[2] \in Seq(FullPage) /\ calls[2] # <<>>
    <3>1. 2 \in 1 .. Len(calls)
      BY <1>8
    <3>2. Len(calls') # 0
      BY <2>1
    <3> QED BY <1>1, <2>1, <3>1, <3>2, EmptySeq, ElementOfSeq
  <2>3. Due' = Len(calls[2]) /\ Due = Len(Todo) + Len(calls[2])
    BY <1>3, <1>6, <1>8, <2>1, <2>2 DEF Due
  <2>4. ASSUME NEW i \in 1 .. Len(calls'), NEW j \in 1 .. Len(calls'[i])
        PROVE  \E x \in 1 .. Len(calls) : \E y \in 1 .. Len(calls[x]) :
                 /\ calls'[i][j] = calls[x][y]
                 /\ Length + Ahead(i)' + (j - 1) = Ahead(x) + (y - 1)
                 /\ Ahead(i)' \in Nat /\ Ahead(x) \in Nat
    <3>1. i = 1 /\ calls'[i] = calls[2]
      BY <2>1
    <3>2. 2 \in 1 .. Len(calls) /\ j \in 1 .. Len(calls[2]) /\ calls'[i][j] = calls[2][j]
      BY <1>8, <3>1
    <3>3. Ahead(i)' = 0 /\ Ahead(2) = Len(Todo)
      BY <1>3, <3>1 DEF Ahead
    <3>4. Length + Ahead(i)' + (j - 1) = Ahead(2) + (j - 1)
      BY <1>3, <1>8, <3>2, <3>3
    <3>5. Ahead(i)' \in Nat /\ Ahead(2) \in Nat
      BY <1>3, <3>3
    <3> QED BY <3>2, <3>4, <3>5
  <2>5. Len(calls[2]) \in Nat
    BY <2>2, LenProperties
  <2>6. Length + Due' = Due
    BY <1>3, <1>8, <2>3, <2>5
  <2>7. Len(calls') \in 0 .. 2 /\ \A i \in 1 .. Len(calls') : calls'[i] # <<>>
    BY <2>1, <2>2
  <2> QED BY <1>5, <2>1, <2>3, <2>4, <2>5, <2>6, <2>7
<1>9. CASE Length # Len(Todo)
  <2> DEFINE left == SubSeq(calls[1], Length + 1, Len(calls[1]))
  <2>1. Length < Len(Todo) /\ Len(Todo) = Len(calls[1]) /\ Length \in Nat
    BY <1>3, <1>9
  <2>2. /\ left \in Seq(FullPage) /\ Len(left) = Len(Todo) - Length
        /\ \A j \in 1 .. Len(left) : left[j] = Todo[Length + j]
    <3> DEFINE a == Length + 1
               z == Len(Todo)
    <3>1. a \in Int /\ z \in Int /\ a <= z /\ a >= 1 /\ a = Length + 1
      BY <1>3, <2>1
    <3>2. left = SubSeq(Todo, a, z)
      BY <1>3
    <3>3. \A i \in 1 .. z : Todo[i] \in FullPage
      BY <1>3, ElementOfSeq
    <3> HIDE DEF a, left
    <3>4. \A i \in a .. z : Todo[i] \in FullPage
      BY <3>1, <3>3
    <3>5. /\ left \in Seq(FullPage) /\ Len(left) = IF a <= z THEN z - a + 1 ELSE 0
          /\ \A i \in 1 .. z - a + 1 : left[i] = Todo[a + i - 1]
      BY ONLY <3>1, <3>2, <3>4, SubSeqProperties
    <3>6. Len(left) = z - a + 1 /\ z - a + 1 = Len(Todo) - Length
      BY ONLY <3>1, <3>5, <2>1
    <3>7. \A j \in 1 .. Len(left) : a + j - 1 = Length + j
      BY ONLY <3>1, <3>6, <2>1
    <3> QED BY <3>5, <3>6, <3>7
  <2>3. calls' = [calls EXCEPT ![1] = left]
    BY <1>4, <1>9
  <2> HIDE DEF left
  <2>4. 1 \in 1 .. Len(calls)
    BY <1>2
  <2>5. /\ calls' \in Seq(Seq(FullPage)) /\ Len(calls') = Len(calls)
        /\ calls'[1] = left /\ (Len(calls) = 2 => calls'[2] = calls[2])
    <3>1. calls' \in Seq(Seq(FullPage)) /\ Len(calls') = Len(calls) /\ calls'[1] = left
      BY <1>1, <2>2, <2>3, <2>4, ExceptSeq
    <3>2. ASSUME Len(calls) = 2 PROVE calls'[2] = calls[2]
      <4>1. 2 \in 1 .. Len(calls) /\ 2 # 1
        BY <3>2
      <4> QED BY <1>1, <2>2, <2>3, <2>4, <4>1, ExceptSeq
    <3> QED BY <3>1, <3>2
  <2>6. Len(left) \in Nat \ {0} /\ left # <<>>
    <3>1. Len(left) \in Nat \ {0}
      BY <1>3, <2>1, <2>2
    <3> QED BY <2>2, <3>1, EmptySeq
  <2>7. calls' # <<>>
    BY <1>2, <2>5
  <2>8. Due' = IF Len(calls) = 1 THEN Len(left) ELSE Len(left) + Len(calls[2])
    BY <1>2, <2>5, <2>7 DEF Due
  <2>9. Len(calls) = 2 => calls[2] \in Seq(FullPage) /\ calls[2] # <<>> /\ Len(calls[2]) \in Nat
    <3>1. Len(calls) = 2 => 2 \in 1 .. Len(calls)
      OBVIOUS
    <3> QED BY <1>1, <3>1, ElementOfSeq, LenProperties
  <2>10. Length + Due' = Due /\ Due' \in Nat
    <3>1. Len(left) = Len(Todo) - Length /\ Len(Todo) \in Nat /\ Length \in Nat
      BY <1>3, <2>1, <2>2
    <3>2. CASE Len(calls) = 1
      BY <1>3, <1>6, <2>8, <3>1, <3>2
    <3>3. CASE Len(calls) = 2
      <4>1. Due = Len(Todo) + Len(calls[2]) /\ Due' = Len(left) + Len(calls[2])
        BY <1>3, <1>6, <2>8, <3>3
      <4>2. Len(calls[2]) \in Nat
        BY <2>9, <3>3
      <4> QED BY ONLY <3>1, <4>1, <4>2
    <3> QED BY <1>2, <3>2, <3>3
  <2>11. ASSUME NEW i \in 1 .. Len(calls'), NEW j \in 1 .. Len(calls'[i])
         PROVE  \E x \in 1 .. Len(calls) : \E y \in 1 .. Len(calls[x]) :
                  /\ calls'[i][j] = calls[x][y]
                  /\ Length + Ahead(i)' + (j - 1) = Ahead(x) + (y - 1)
                  /\ Ahead(i)' \in Nat /\ Ahead(x) \in Nat
    <3>1. CASE i = 1
      <4>1. calls'[i] = left /\ j \in 1 .. Len(left) /\ Ahead(i)' = 0 /\ Ahead(1) = 0
        BY <2>5, <3>1 DEF Ahead
      <4>2. calls'[i][j] = calls[1][Length + j]
        BY <1>3, <2>2, <4>1
      <4>3. Length + j \in 1 .. Len(calls[1]) /\ Length + 0 + (j - 1) = 0 + ((Length + j) - 1)
        BY <1>3, <2>1, <2>2, <4>1
      <4>4. Ahead(i)' \in Nat /\ Ahead(1) \in Nat
        BY <4>1
      <4> QED BY <2>4, <4>1, <4>2, <4>3, <4>4
    <3>2. CASE i = 2
      <4>1. Len(calls) = 2 /\ 2 \in 1 .. Len(calls)
        BY <1>2, <2>5, <3>2
      <4>2. calls'[i] = calls[2] /\ j \in 1 .. Len(calls[2])
        BY <2>5, <3>2, <4>1
      <4>3. Ahead(i)' = Len(left) /\ Ahead(2) = Len(Todo)
        BY <1>3, <2>5, <3>2 DEF Ahead
      <4>4. Length + Ahead(i)' + (j - 1) = Ahead(2) + (j - 1)
        BY <1>3, <2>1, <2>2, <4>2, <4>3
      <4>5. Ahead(i)' \in Nat /\ Ahead(2) \in Nat
        BY <1>3, <2>6, <4>3
      <4> QED BY <4>1, <4>2, <4>4, <4>5
    <3>3. Len(calls') = 1 \/ Len(calls') = 2
      BY <1>2, <2>5
    <3>4. i = 1 \/ i = 2
      BY ONLY <3>3, i \in 1 .. Len(calls')
    <3> QED BY ONLY <3>1, <3>2, <3>4
  <2>12. ASSUME NEW i \in 1 .. Len(calls') PROVE calls'[i] # <<>>
    <3>1. Len(calls') = 1 \/ Len(calls') = 2
      BY <1>2, <2>5
    <3>2. i = 1 \/ (i = 2 /\ Len(calls') = 2)
      BY ONLY <3>1, i \in 1 .. Len(calls')
    <3> QED BY ONLY <2>5, <2>6, <2>9, <3>2
  <2>13. Len(calls') \in 0 .. 2
    BY <1>2, <2>5
  <2> QED BY <1>5, <2>5, <2>10, <2>11, <2>12, <2>13
<1> QED BY <1>2, <1>7, <1>8, <1>9
-----------------------------------------------------------------------------
LEMMA InitIInv == Init => IInv
<1> SUFFICES ASSUME Init PROVE IInv
  OBVIOUS
<1> USE NandAssumption
<1>1. /\ stage = "setup" /\ calls = <<>> /\ temp = <<>> /\ rest = <<>> /\ home = 0
      /\ fed = 0 /\ firstErase = TRUE /\ crossed = FALSE /\ off = 0
      /\ flash = [p \in Pages |-> Old] /\ mode \in {"flash", "nvmem"} /\ bad \subseteq 0 .. B-1
  BY DEF Init
<1>2. (B+1)*P \in Nat /\ (B+1)*P >= 1
  <2>1. (B+1)*P = (B*P) + P /\ B*P \in Nat
    BY Products
  <2> QED BY <2>1
<1>3. 0 \in Pages /\ Len(<<>>) = 0 /\ <<>> \in Seq(Unit) /\ <<>> \in Seq(Seq(FullPage))
  BY <1>2, EmptySeq DEF Pages
<1>4. TypeOK
  <2>1. flash \in [Pages -> {Old, Blank, Garbled} \cup FullPage]
    BY <1>1
  <2>2. home \in Pages /\ off \in 0 .. (B+1)*P /\ fed \in 0 .. MaxUnits + ListSize
    BY <1>1, <1>2, <1>3
  <2>3. /\ temp \in Seq(Unit) /\ Len(temp) < W /\ rest \in Seq(Unit) /\ Len(rest) < W
        /\ calls \in Seq(Seq(FullPage)) /\ Len(calls) \in 0 .. 2
        /\ \A i \in 1 .. Len(calls) : calls[i] # <<>>
    BY <1>1, <1>3
  <2> QED BY <1>1, <2>1, <2>2, <2>3 DEF TypeOK
<1>5. Placed
  BY <1>1 DEF Placed
<1>6. StaysInPartition /\ ErasedBeforeWritten
  BY <1>1 DEF StaysInPartition, ErasedBeforeWritten
<1>7. Fresh /\ Stream
  BY <1>1 DEF Fresh, Stream, Writing
<1>8. Headed
  BY <1>1, <1>3 DEF Headed
<1> QED BY <1>4, <1>5, <1>6, <1>7, <1>8 DEF IInv

LEMMA TurnPart == ASSUME Placed, calls # <<>> PROVE part = <<0, PartEnd>>
BY DEF Placed, NoRoom

(* The last page of a stream.                                              *)
LEMMA LastPage ==
  ASSUME TypeOK
  PROVE  LET c == temp \o [i \in 1 .. W - Len(temp) |-> Pad]
         IN  c \in FullPage /\ \A m \in 1 .. W : c[m] = IF m <= Len(temp) THEN temp[m] ELSE Pad
<1> DEFINE pad == [i \in 1 .. W - Len(temp) |-> Pad]
           c == temp \o pad
<1>1. W \in Nat /\ temp \in Seq(Unit) /\ Len(temp) \in Nat /\ Len(temp) < W /\ Pad \in Unit
  BY NandAssumption, LenProperties DEF TypeOK, Unit
<1>2. pad \in Seq(Unit) /\ Len(pad) = W - Len(temp) /\ \A i \in 1 .. W - Len(temp) : pad[i] = Pad
  <2>1. pad \in [1 .. W - Len(temp) -> Unit] /\ W - Len(temp) \in Nat
    BY <1>1
  <2> QED BY <2>1
<1> HIDE DEF pad
<1>3. /\ c \in Seq(Unit) /\ Len(c) = W
      /\ \A i \in 1 .. W : c[i] = IF i <= Len(temp) THEN temp[i] ELSE pad[i - Len(temp)]
  <2>1. Len(temp) + Len(pad) = W
    BY <1>1, <1>2
  <2> QED BY <1>1, <1>2, <2>1, ConcatProperties
<1> HIDE DEF c
<1>4. c \in [1 .. W -> Unit]
  BY <1>3, LenProperties
<1>5. ASSUME NEW m \in 1 .. W PROVE c[m] = IF m <= Len(temp) THEN temp[m] ELSE Pad
  <2>1. CASE m <= Len(temp)
    BY <1>3, <2>1
  <2>2. CASE ~(m <= Len(temp))
    <3>1. m - Len(temp) \in 1 .. W - Len(temp)
      BY <1>1, <2>2
    <3> QED BY <1>2, <1>3, <2>2, <3>1
  <2> QED BY <2>1, <2>2
<1> QED BY <1>4, <1>5 DEF c, pad, FullPage

LEMMA TypeStart ==
  TypeOK /\ Placed /\ (\/ \E b \in 0 .. B-1 : SetupFlash(b)
                       \/ SetupNv
                       \/ \E n \in Sizes : Entry(n) \/ EntryRefused(n)
                       \/ WriteList \/ Deinit \/ PutHeader \/ HeaderRefused) => TypeOK'
<1> SUFFICES ASSUME TypeOK, Placed,
                    \/ \E b \in 0 .. B-1 : SetupFlash(b)
                    \/ SetupNv
                    \/ \E n \in Sizes : Entry(n) \/ EntryRefused(n)
                    \/ WriteList \/ Deinit \/ PutHeader \/ HeaderRefused
             PROVE  TypeOK'
  OBVIOUS
<1> USE NandAssumption
<1>1. /\ (B+1)*P = (B*P) + P /\ B*P \in Nat
      /\ \A b \in 0 .. B-1 : b*P \in Nat /\ (b*P) + P <= B*P
  BY Products
<1>2. <<>> \in Seq(Unit) /\ Len(<<>>) = 0 /\ 0 < W
  BY EmptySeq
<1>3. ASSUME NEW b \in 0 .. B-1
      PROVE  b*P \in Pages /\ b*P \in 0 .. (B+1)*P /\ (b*P) + P \in 0 .. (B+1)*P
  BY <1>1, <1>3 DEF Pages
<1>4. ASSUME NEW b \in 0 .. B-1, SetupFlash(b) PROVE TypeOK'
  <2>1. /\ home' \in Pages /\ off' \in 0 .. (B+1)*P /\ temp' = <<>> /\ stage' = "data"
        /\ UNCHANGED <<mode, bad, flash, calls, rest, fed, firstErase, crossed>>
    BY <1>3, <1>4 DEF SetupFlash, Open
  <2> QED BY <1>2, <2>1 DEF TypeOK
<1>5. ASSUME SetupNv PROVE TypeOK'
  <2>1. PICK b \in Good : home' = b*P /\ off' = (b*P) + P
    BY <1>5 DEF SetupNv, Open, InitDumpOff
  <2>2. /\ temp' = <<>> /\ stage' = "data" /\ home' \in Pages /\ off' \in 0 .. (B+1)*P
        /\ UNCHANGED <<mode, bad, calls, rest, fed, firstErase, crossed>>
    BY <1>3, <1>5, <2>1 DEF SetupNv, Open, Good
  <2>3. flash' \in [Pages -> {Old, Blank, Garbled} \cup FullPage]
    BY <1>5 DEF SetupNv, TypeOK
  <2> QED BY <1>2, <2>2, <2>3 DEF TypeOK
<1>6. ASSUME calls = <<>>, NEW n \in Nat \ {0}, fed + n <= MaxUnits + ListSize,
             WriteData(Units(fed, n)), fed' = fed + n, stage' \in {"data", "list"},
             UNCHANGED <<mode, bad, flash, home, off, firstErase, crossed>>
      PROVE  TypeOK'
  <2>1. rest = <<>> /\ fed \in Nat
    BY <1>6 DEF Placed, TypeOK
  <2>2. /\ temp' \in Seq(Unit) /\ Len(temp') < W
        /\ rest' \in Seq(Unit) /\ Len(rest') < W
        /\ calls' \in Seq(Seq(FullPage)) /\ Len(calls') \in 0 .. 2
        /\ \A i \in 1 .. Len(calls') : calls'[i] # <<>>
    BY <1>6, <2>1, Packed
  <2>3. fed' \in 0 .. MaxUnits + ListSize
    BY <1>6, <2>1
  <2> QED BY <1>6, <2>2, <2>3 DEF TypeOK
<1>7. ASSUME NEW n \in Sizes, Entry(n) PROVE TypeOK'
  <2>1. n \in Nat \ {0} /\ fed + n <= MaxUnits + ListSize
    BY <1>7 DEF Entry, TypeOK
  <2> QED BY <1>6, <1>7, <2>1 DEF Entry
<1>8. ASSUME WriteList PROVE TypeOK'
  <2>1. fed + ListSize <= MaxUnits + ListSize
    BY <1>8 DEF WriteList, Placed, TypeOK
  <2> QED BY <1>6, <1>8, <2>1 DEF WriteList
<1>9. ASSUME Deinit PROVE TypeOK'
  <2> DEFINE c == temp \o [i \in 1 .. W - Len(temp) |-> Pad]
  <2>1. c \in FullPage
    BY LastPage
  <2>2. /\ calls' = IF temp = <<>> THEN <<>> ELSE << <<c>> >>
        /\ rest' = <<>> /\ stage' \in {"closing", "aborting", "list_closing"}
        /\ UNCHANGED <<mode, bad, flash, home, off, temp, fed, firstErase, crossed>>
    BY <1>9 DEF Deinit
  <2> HIDE DEF c
  <2>3. <<c>> \in Seq(FullPage) /\ <<c>> # <<>>
    BY <2>1
  <2>4. << <<c>> >> \in Seq(Seq(FullPage)) /\ Len(<< <<c>> >>) = 1 /\ << <<c>> >>[1] = <<c>>
    BY <2>3
  <2>5. /\ calls' \in Seq(Seq(FullPage)) /\ Len(calls') \in 0 .. 2
        /\ \A i \in 1 .. Len(calls') : calls'[i] # <<>>
    <3>1. CASE temp = <<>>
      BY <2>2, <3>1, EmptySeq
    <3>2. CASE temp # <<>>
      <4>1. calls' = << <<c>> >>
        BY <2>2, <3>2
      <4>2. /\ calls' \in Seq(Seq(FullPage)) /\ Len(calls') = 1 /\ calls'[1] # <<>>
        BY ONLY <2>3, <2>4, <4>1
      <4> QED BY ONLY <4>2
    <3> QED BY <3>1, <3>2
  <2> QED BY <1>2, <2>2, <2>5 DEF TypeOK
<1>10. ASSUME PutHeader PROVE TypeOK'
  <2>1. /\ temp' = <<Header>> /\ off' = home /\ stage' = "header"
        /\ UNCHANGED <<mode, bad, flash, home, calls, rest, fed, firstErase, crossed>>
    BY <1>10 DEF PutHeader
  <2>2. off' \in 0 .. (B+1)*P
    BY <1>1, <2>1 DEF TypeOK, Pages
  <2>3. temp' \in Seq(Unit) /\ Len(temp') < W
    BY <2>1 DEF Unit
  <2> QED BY <2>1, <2>2, <2>3 DEF TypeOK
<1>11. ASSUME HeaderRefused \/ \E n \in Sizes : EntryRefused(n) PROVE TypeOK'
  <2>1. /\ stage' = "failed"
        /\ UNCHANGED <<mode, bad, flash, home, off, temp, calls, rest, fed,
                       firstErase, crossed>>
    BY <1>11 DEF HeaderRefused, EntryRefused
  <2> QED BY <2>1 DEF TypeOK
<1> QED BY <1>4, <1>5, <1>7, <1>8, <1>9, <1>10, <1>11

LEMMA TypeTurn == TypeOK /\ Placed /\ Turn => TypeOK'
<1> SUFFICES ASSUME TypeOK, Placed, Turn PROVE TypeOK'
  OBVIOUS
<1>1. calls # <<>> /\ part = <<0, PartEnd>>
  <2>1. calls # <<>>
    BY DEF Turn, TurnDone, TurnRefused, EraseFails, WriteFails
  <2> QED BY <2>1, TurnPart
<1>2. /\ At \in Nat /\ At <= (B+1)*P /\ (B+1)*P \in Nat /\ PartEnd <= (B+1)*P
      /\ PartEnd \in Nat
  <2>1. (B+1)*P = (B*P) + P /\ B*P \in Nat /\ P \in Nat
    BY NandAssumption, Products
  <2> QED BY <1>1, <2>1, TurnPlace DEF PartEnd
<1>3. <<>> \in Seq(Unit) /\ Len(<<>>) = 0 /\ 0 < W /\ <<>> \in Seq(Seq(FullPage))
  BY NandAssumption, EmptySeq
<1>4. ASSUME Abort, flash' \in [Pages -> {Old, Blank, Garbled} \cup FullPage],
             off' \in 0 .. (B+1)*P, firstErase' \in BOOLEAN, crossed' \in BOOLEAN
      PROVE  TypeOK'
  <2>1. /\ calls' = <<>> /\ rest' = <<>> /\ stage' \in {"aborted", "failed"}
        /\ UNCHANGED <<mode, bad, home, temp, fed>>
    BY <1>4 DEF Abort
  <2>2. /\ rest' \in Seq(Unit) /\ Len(rest') < W
        /\ calls' \in Seq(Seq(FullPage)) /\ Len(calls') \in 0 .. 2
        /\ \A i \in 1 .. Len(calls') : calls'[i] # <<>>
    BY <1>3, <2>1
  <2> QED BY <1>4, <2>1, <2>2 DEF TypeOK
<1>5. CASE TurnDone
  <2>1. /\ calls' \in Seq(Seq(FullPage)) /\ Len(calls') \in 0 .. 2
        /\ \A i \in 1 .. Len(calls') : calls'[i] # <<>>
    BY <1>1, <1>5, LeftToWrite
  <2>2. ~LeavesPartition /\ flash' = Programmed(Length) /\ off' = At + Length
    BY <1>5 DEF TurnDone
  <2>3. Length \in 1 .. Len(Todo) /\ At + Len(Todo) < PartEnd /\ Len(Todo) \in Nat
    BY <1>1, <2>2, TurnLength
  <2>4. flash' \in [Pages -> {Old, Blank, Garbled} \cup FullPage] /\ off' \in 0 .. (B+1)*P
    <3>1. Length \in 0 .. Length
      BY <2>3
    <3> QED BY <1>1, <1>2, <2>2, <2>3, <3>1, TurnWrites
  <2>5. /\ temp' \in Seq(Unit) /\ Len(temp') < W /\ rest' \in Seq(Unit) /\ Len(rest') < W
    BY <1>3, <1>5 DEF TurnDone, TypeOK
  <2>6. /\ (crossed \/ Strays(Length)) \in BOOLEAN
        /\ (firstErase /\ ~EraseNeeded) \in BOOLEAN
    OBVIOUS
  <2>7. /\ UNCHANGED <<mode, stage, bad, home, fed>>
        /\ firstErase' \in BOOLEAN /\ crossed' \in BOOLEAN
    BY <1>5, <2>6 DEF TurnDone
  <2> QED BY <2>1, <2>4, <2>5, <2>7 DEF TypeOK
<1>6. CASE TurnRefused \/ EraseFails
  <2>1. Abort /\ off' = At /\ UNCHANGED <<flash, firstErase, crossed>>
    BY <1>6 DEF TurnRefused, EraseFails
  <2> QED BY <1>2, <1>4, <2>1 DEF TypeOK
<1>7. ASSUME NEW k \in 0 .. P-1, WriteFails(k) PROVE TypeOK'
  <2>1. ~LeavesPartition /\ flash' = Programmed(k) /\ k < Length /\ Abort
        /\ off' = IF Len(Todo) > P THEN At ELSE At + k
    BY <1>7 DEF WriteFails
  <2>2. Length \in 1 .. Len(Todo) /\ At + Len(Todo) < PartEnd /\ Len(Todo) \in Nat
    BY <1>1, <2>1, TurnLength
  <2>3. k \in 0 .. Length
    BY <2>1, <2>2, NandAssumption
  <2>4. flash' \in [Pages -> {Old, Blank, Garbled} \cup FullPage]
    BY <1>1, <2>1, <2>3, TurnWrites
  <2>5. off' \in 0 .. (B+1)*P
    BY <1>2, <2>1, <2>2, <2>3
  <2>6. /\ (crossed \/ Strays(k)) \in BOOLEAN
        /\ (firstErase /\ ~EraseNeeded) \in BOOLEAN
    OBVIOUS
  <2>7. firstErase' \in BOOLEAN /\ crossed' \in BOOLEAN
    BY <1>7, <2>6 DEF WriteFails
  <2> QED BY <1>4, <2>1, <2>4, <2>5, <2>7
<1> QED BY <1>5, <1>6, <1>7 DEF Turn

LEMMA TypeStep == TypeOK /\ Placed /\ [Next]_vars => TypeOK'
<1>1. TypeOK /\ UNCHANGED vars => TypeOK'
  BY DEF TypeOK, vars
<1> QED BY <1>1, TypeStart, TypeTurn DEF Next

(* The partition: a context is only opened behind it when there is no room *)
(* for any data.                                                           *)
LEMMA PlacedStart ==
  TypeOK /\ Placed /\ (\/ \E b \in 0 .. B-1 : SetupFlash(b)
                       \/ SetupNv
                       \/ \E n \in Sizes : Entry(n) \/ EntryRefused(n)
                       \/ WriteList \/ Deinit \/ PutHeader \/ HeaderRefused) => Placed'
<1> SUFFICES ASSUME TypeOK, Placed,
                    \/ \E b \in 0 .. B-1 : SetupFlash(b)
                    \/ SetupNv
                    \/ \E n \in Sizes : Entry(n) \/ EntryRefused(n)
                    \/ WriteList \/ Deinit \/ PutHeader \/ HeaderRefused
             PROVE  Placed'
  OBVIOUS
<1> USE NandAssumption
<1>1. \A b \in 0 .. B-1 : b*P \in Nat /\ (b*P) + P <= B*P /\ B*P \in Nat
  BY Products
<1>2. ASSUME NEW b \in 0 .. B-1 PROVE PartOf(b*P) = <<0, PartEnd>>
  BY <1>1 DEF PartOf, PartEnd
<1>3. ASSUME NEW b \in 0 .. B-1, SetupFlash(b) PROVE Placed'
  <2>1. /\ mode = "flash" /\ stage = "setup" /\ stage' = "data" /\ home' = b*P
        /\ part' = <<0, PartEnd>> /\ UNCHANGED <<mode, bad, calls, rest, fed>>
    BY <1>2, <1>3 DEF SetupFlash, Open
  <2> QED BY <2>1 DEF Placed, TypeOK
<1>4. ASSUME SetupNv PROVE Placed'
  <2>1. PICK b \in Good : /\ \A g \in Good : b <= g
                          /\ home' = b*P /\ part' = PartOf((b*P) + P)
    BY <1>4 DEF SetupNv, Open, InitDumpOff
  <2>2. /\ mode = "nvmem" /\ stage = "setup" /\ stage' = "data" /\ Good' = Good
        /\ UNCHANGED <<mode, bad, calls, rest, fed>>
    BY <1>4 DEF SetupNv, Good
  <2>3. b \in 0 .. B-1 /\ calls = <<>> /\ fed = 0 /\ rest = <<>>
    BY <2>2 DEF Good, Placed
  <2>4. part' = <<0, PartEnd>> \/ NoRoom'
    <3>1. CASE b < B-1
      <4>1. b+1 \in 0 .. B-1 /\ (b+1)*P = (b*P) + P
        BY <2>3, <3>1, Products
      <4> QED BY <1>2, <2>1, <4>1
    <3>2. CASE ~(b < B-1)
      <4>1. b = B-1 /\ (b+1)*P = (b*P) + P /\ b+1 = B
        BY <2>3, <3>2, Products
      <4>2. (b*P) + P = PartEnd
        BY <4>1 DEF PartEnd
      <4>3. Good = {B-1}
        BY <2>1, <2>3, <4>1 DEF Good
      <4>4. part' = <<PartEnd, PartEnd + P>>
        BY <1>1, <2>1, <4>2 DEF PartOf, PartEnd
      <4> QED BY <2>2, <2>3, <4>3, <4>4 DEF NoRoom, PartEnd
    <3> QED BY <3>1, <3>2
  <2> QED BY <2>1, <2>2, <2>3, <2>4 DEF Placed, TypeOK
<1>5. ASSUME calls = <<>>, NEW n \in Nat \ {0}, fed + n <= MaxUnits + ListSize,
             WriteData(Units(fed, n)), stage = "data",
             ~NoRoom,
             \/ stage' = "data" /\ fed + n <= MaxUnits
             \/ stage' = "list" /\ mode = "nvmem",
             fed' = fed + n, UNCHANGED <<mode, bad, home, part>>
      PROVE  Placed'
  <2>1. rest = <<>> /\ fed \in Nat
    BY <1>5 DEF Placed, TypeOK
  <2>2. calls' = <<>> => rest' = <<>>
    BY <1>5, <2>1, Packed
  <2>3. part = <<0, PartEnd>>
    BY <1>5 DEF Placed, NoRoom
  <2>4. stage' \in {"data", "list"} /\ (stage' = "data" => fed' <= MaxUnits)
        /\ (stage' = "list" => mode' = "nvmem")
    BY <1>5
  <2>5. \E b \in 0 .. B-1 : home' = b*P /\ (mode' = "nvmem" => b \in Good')
    BY <1>5 DEF Placed, Good
  <2> QED BY <1>5, <2>2, <2>3, <2>4, <2>5 DEF Placed, PartEnd
<1>6. ASSUME NEW n \in Sizes, Entry(n) PROVE Placed'
  <2>1. n \in Nat \ {0} /\ fed + n <= MaxUnits /\ fed \in Nat
    BY <1>6 DEF Entry, TypeOK
  <2>2. ~NoRoom
    <3> SUFFICES ASSUME NoRoom PROVE FALSE
      OBVIOUS
    <3>1. Cardinality(Good) = 1
      BY FS_Singleton DEF NoRoom
    <3>2. (W*P) + fed + n <= W*P * 1
      BY <1>6, <3>1 DEF NoRoom, Entry, Fits
    <3>3. W*P \in Nat /\ W*P * 1 = W*P
      OBVIOUS
    <3> QED BY ONLY <2>1, <3>2, <3>3
  <2>3. fed + n <= MaxUnits + ListSize
    BY <2>1
  <2>4. /\ calls = <<>> /\ stage = "data" /\ stage' = "data" /\ fed' = fed + n
        /\ WriteData(Units(fed, n)) /\ UNCHANGED <<mode, bad, home, part>>
    BY <1>6 DEF Entry
  <2> QED BY <1>5, <2>1, <2>2, <2>3, <2>4
<1>7. ASSUME WriteList PROVE Placed'
  <2>1. fed + ListSize <= MaxUnits + ListSize /\ ~NoRoom
    BY <1>7 DEF WriteList, Placed, TypeOK, NoRoom
  <2> QED BY <1>5, <1>7, <2>1 DEF WriteList
<1>8. ASSUME Deinit PROVE Placed'
  <2>1. /\ rest' = <<>> /\ calls = <<>> /\ UNCHANGED <<mode, bad, home, part, fed>>
        /\ \/ stage = "data" /\ mode = "flash" /\ stage' = "closing"
           \/ stage = "aborted" /\ stage' = "aborting"
           \/ stage = "list" /\ stage' = "list_closing"
           \/ stage = "header" /\ stage' = "closing"
    BY <1>8 DEF Deinit
  <2>2. part = <<0, PartEnd>>
    BY <2>1 DEF Placed, NoRoom
  <2>3. \E b \in 0 .. B-1 : home' = b*P /\ (mode' = "nvmem" => b \in Good')
    BY <2>1 DEF Placed, Good
  <2>4. stage' \in {"list", "list_closing", "header"} => mode' = "nvmem"
    BY <2>1 DEF Placed
  <2>5. stage' \in {"aborted", "aborting"} => mode' = "flash"
    BY <2>1 DEF Placed
  <2>6. stage' \in {"closing", "aborting", "list_closing"}
    BY <2>1
  <2> QED BY <2>1, <2>2, <2>3, <2>4, <2>5, <2>6 DEF Placed, PartEnd
<1>9. ASSUME PutHeader PROVE Placed'
  <2>1. /\ stage = "list_closing" /\ stage' = "header" /\ part' = PartOf(home) /\ calls = <<>>
        /\ UNCHANGED <<mode, bad, home, calls, rest, fed>>
    BY <1>9 DEF PutHeader
  <2>2. PICK b \in 0 .. B-1 : home = b*P /\ (mode = "nvmem" => b \in Good)
    BY <2>1 DEF Placed
  <2>3. part' = <<0, PartEnd>>
    BY <1>2, <2>1, <2>2
  <2>4. \E x \in 0 .. B-1 : home' = x*P /\ (mode' = "nvmem" => x \in Good')
    BY <2>1, <2>2 DEF Good
  <2>5. mode' = "nvmem" /\ rest' = <<>> /\ calls' = <<>>
    BY <2>1 DEF Placed
  <2> QED BY <2>1, <2>3, <2>4, <2>5 DEF Placed, PartEnd
<1>10. ASSUME HeaderRefused \/ \E n \in Sizes : EntryRefused(n) PROVE Placed'
  <2>1. /\ stage \in {"data", "list_closing"} /\ stage' = "failed" /\ calls = <<>>
        /\ UNCHANGED <<mode, bad, home, part, calls, rest, fed>>
    BY <1>10 DEF HeaderRefused, EntryRefused
  <2>2. part' = <<0, PartEnd>> \/ NoRoom'
    BY <2>1 DEF Placed, NoRoom, PartEnd, Good
  <2>3. \E b \in 0 .. B-1 : home' = b*P /\ (mode' = "nvmem" => b \in Good')
    BY <2>1 DEF Placed, Good
  <2> QED BY <2>1, <2>2, <2>3 DEF Placed, PartEnd
<1> QED BY <1>3, <1>4, <1>6, <1>7, <1>8, <1>9, <1>10

LEMMA PlacedStep == TypeOK /\ Placed /\ [Next]_vars => Placed'
<1> SUFFICES ASSUME TypeOK, Placed, [Next]_vars PROVE Placed'
  OBVIOUS
<1>1. CASE UNCHANGED vars
  BY <1>1 DEF Placed, vars, NoRoom, PartEnd, Good
<1>2. CASE Turn
  <2>1. calls # <<>> /\ stage # "setup"
    BY <1>2 DEF Turn, TurnDone, TurnRefused, EraseFails, WriteFails, Placed
  <2>2. part = <<0, PartEnd>>
    BY <2>1, TurnPart
  <2>3. UNCHANGED <<mode, bad, home, part, fed>>
    BY <1>2 DEF Turn, TurnDone, TurnRefused, EraseFails, WriteFails, Abort
  <2>4. \E b \in 0 .. B-1 : home' = b*P /\ (mode' = "nvmem" => b \in Good')
    BY <2>1, <2>3 DEF Placed, Good
  <2>5. CASE stage' = stage /\ (calls' = <<>> => rest' = <<>>)
    BY <2>1, <2>2, <2>3, <2>4, <2>5 DEF Placed, PartEnd
  <2>6. CASE calls' = <<>> /\ rest' = <<>>
             /\ stage' = (IF stage = "data" /\ mode = "flash" THEN "aborted" ELSE "failed")
    BY <2>1, <2>2, <2>3, <2>4, <2>6 DEF Placed, PartEnd
  <2> QED BY <1>2, <2>5, <2>6 DEF Turn, TurnDone, TurnRefused, EraseFails, WriteFails, Abort
<1> QED BY <1>1, <1>2, PlacedStart DEF Next

(* Either a turn leaves the flash alone or it erases, if it is due, and    *)
(* programs some of the pages it should.                                   *)
LEMMA TurnFlash ==
  ASSUME TypeOK, Placed, Turn
  PROVE  /\ calls # <<>> /\ part = <<0, PartEnd>>
         /\ UNCHANGED <<mode, bad, home, part, fed>>
         /\ \/ UNCHANGED <<flash, crossed>>
            \/ /\ ~LeavesPartition
               /\ \E k \in 0 .. Length : /\ flash' = Programmed(k)
                                         /\ crossed' = (crossed \/ Strays(k))
<1>1. calls # <<>>
  BY DEF Turn, TurnDone, TurnRefused, EraseFails, WriteFails
<1>2. part = <<0, PartEnd>>
  BY <1>1, TurnPart
<1>3. UNCHANGED <<mode, bad, home, part, fed>>
  BY DEF Turn, TurnDone, TurnRefused, EraseFails, WriteFails, Abort
<1>4. ~LeavesPartition => Length \in Nat
  BY <1>1, <1>2, TurnLength
<1>5. CASE TurnDone
  <2>1. /\ ~LeavesPartition /\ flash' = Programmed(Length)
        /\ crossed' = (crossed \/ Strays(Length))
    BY <1>5 DEF TurnDone
  <2>2. Length \in 0 .. Length
    BY <1>4, <2>1
  <2> QED BY <1>1, <1>2, <1>3, <2>1, <2>2
<1>6. CASE TurnRefused \/ EraseFails
  BY <1>1, <1>2, <1>3, <1>6 DEF TurnRefused, EraseFails
<1>7. ASSUME NEW k \in 0 .. P-1, WriteFails(k)
      PROVE  /\ ~LeavesPartition
             /\ \E x \in 0 .. Length : /\ flash' = Programmed(x)
                                       /\ crossed' = (crossed \/ Strays(x))
  <2>1. /\ ~LeavesPartition /\ flash' = Programmed(k) /\ k < Length
        /\ crossed' = (crossed \/ Strays(k))
    BY <1>7 DEF WriteFails
  <2>2. k \in 0 .. Length
    BY <1>4, <2>1, NandAssumption
  <2> QED BY <2>1, <2>2
<1> QED BY <1>1, <1>2, <1>3, <1>5, <1>6, <1>7 DEF Turn

(* Nothing behind the partition is ever erased or written.                 *)
LEMMA StaysStep == TypeOK /\ Placed /\ StaysInPartition /\ [Next]_vars => StaysInPartition'
<1> SUFFICES ASSUME TypeOK, Placed, StaysInPartition, [Next]_vars,
                    NEW p \in Pages, p >= PartEnd
             PROVE  flash'[p] = Old
  BY DEF StaysInPartition, Pages, PartEnd
<1>1. flash[p] = Old
  BY DEF StaysInPartition
<1>2. CASE UNCHANGED flash
  BY <1>1, <1>2
<1>3. CASE Turn
  <2>1. CASE UNCHANGED flash
    BY <1>1, <2>1
  <2>2. CASE ~LeavesPartition /\ \E k \in 0 .. Length : flash' = Programmed(k)
    BY <1>1, <1>3, <2>2, TurnFlash, TurnWrites
  <2> QED BY <1>3, <2>1, <2>2, TurnFlash
<1>4. CASE SetupNv
  <2>1. B \in Nat /\ p \in Nat /\ (B <= Block(p) <=> B * P <= p) /\ Block(p) \in Nat
    <3>1. (B+1)*P \in Nat /\ B \in Nat
      BY NandAssumption
    <3>2. p \in Nat
      BY <3>1 DEF Pages
    <3> QED BY <3>1, <3>2, Blocks
  <2>2. Block(p) \notin Good
    BY <2>1 DEF Good, PartEnd
  <2> QED BY <1>1, <1>4, <2>2 DEF SetupNv
<1>5. CASE \/ \E b \in 0 .. B-1 : SetupFlash(b)
           \/ \E n \in Sizes : Entry(n) \/ EntryRefused(n)
           \/ WriteList \/ Deinit \/ PutHeader \/ HeaderRefused
  BY <1>2, <1>5 DEF SetupFlash, Entry, EntryRefused, WriteList, Deinit, PutHeader,
                    HeaderRefused
<1>6. CASE UNCHANGED vars
  BY <1>2, <1>6 DEF vars
<1> QED BY <1>3, <1>4, <1>5, <1>6 DEF Next

(* The turn that writes the header.                                        *)
LEMMA HeaderTurn ==
  ASSUME TypeOK, Placed, Headed, calls # <<>>, stage = "closing", mode = "nvmem",
         ~crossed, ~LeavesPartition
  PROVE  /\ At = home /\ Length = 1
         /\ \A k \in 0 .. 1 :
              /\ \A p \in At .. At + k - 1 : Programmed(k)[p] = Todo[p - At + 1]
              /\ \A p \in Pages : p >= home + P => Programmed(k)[p] = flash[p]
<1> USE NandAssumption
<1>1. off = home /\ Len(calls) = 1 /\ Len(calls[1]) = 1
  BY DEF Headed
<1>2. PICK b \in 0 .. B-1 : home = b*P /\ b \in Good
  BY DEF Placed
<1>3. part = <<0, PartEnd>>
  BY TurnPart
<1>4. b*P \in Nat /\ (b+1)*P = (b*P) + P /\ (B+1)*P \in Nat /\ b \in Nat
      /\ (b*P) + P <= B*P /\ (B+1)*P = (B*P) + P /\ B*P \in Nat
  BY <1>2, Products
<1>5. Block(home) = b /\ home % P = 0
  <2>1. /\ Block(home) \in Nat /\ (b <= Block(home) <=> b*P <= home)
        /\ (b+1 <= Block(home) <=> (b+1)*P <= home)
    <3>1. home \in Nat /\ b \in Nat /\ b+1 \in Nat
      BY <1>2, <1>4
    <3> QED BY ONLY <3>1, Blocks, NandAssumption
  <2>2. Block(home) = b
    BY <1>2, <1>4, <2>1
  <2> QED BY <1>2, <1>4, <2>2, Blocks
<1>6. b \notin bad
  BY <1>2 DEF Good
<1>7. At = home /\ Taken = b
  <2>1. /\ At \in Nat /\ off <= At /\ Block(At) = Taken
        /\ \A p \in off .. At-1 : Block(p) \in bad
    BY <1>3, TurnPlace
  <2>2. ~(off < At)
    <3> SUFFICES ASSUME off < At PROVE FALSE
      OBVIOUS
    <3>1. off \in off .. At-1
      BY <1>1, <1>2, <1>4, <2>1
    <3> QED BY <1>1, <1>5, <1>6, <2>1, <3>1
  <2> QED BY <1>1, <1>2, <1>4, <1>5, <2>1, <2>2
<1>8. Len(Todo) = 1 /\ Length = 1
  <2>1. Todo = calls[1]
    BY DEF Todo
  <2>2. Len(Todo) = 1 /\ ~(1 > P)
    BY <1>1, <2>1
  <2> QED BY <2>2 DEF Length
<1>9. EraseNeeded
  BY <1>5, <1>7 DEF EraseNeeded
<1>10. ASSUME NEW k \in 0 .. 1, NEW p \in At .. At + k - 1
       PROVE  Programmed(k)[p] = Todo[p - At + 1]
  <2>1. p = home /\ p \in Pages
    BY <1>2, <1>4, <1>7 DEF Pages
  <2>2. Erased[p] = Blank /\ Block(p) \notin bad
    BY <1>5, <1>6, <1>7, <1>9, <2>1 DEF Erased
  <2> QED BY <2>1, <2>2 DEF Programmed
<1>11. ASSUME NEW k \in 0 .. 1, NEW p \in Pages, p >= home + P
       PROVE  Programmed(k)[p] = flash[p]
  <2>1. p \in Nat /\ (b+1 <= Block(p) <=> (b+1)*P <= p) /\ Block(p) \in Nat
    <3>1. p \in Nat /\ b+1 \in Nat
      BY <1>4 DEF Pages
    <3> QED BY ONLY <3>1, Blocks, NandAssumption
  <2>2. Block(p) # Block(At) /\ p \notin At .. At + k - 1
    BY <1>2, <1>4, <1>5, <1>7, <1>11, <2>1
  <2> QED BY <2>2 DEF Programmed, Erased
<1> QED BY <1>7, <1>8, <1>10, <1>11

(* A turn garbles no page when it leaves in each page what it should.      *)
LEMMA NothingGarbled ==
  ASSUME TypeOK, part = <<0, PartEnd>>, calls # <<>>, ~LeavesPartition, NEW k \in 0 .. Length,
         \A p \in At .. At + k - 1 : Programmed(k)[p] = Todo[p - At + 1],
         \A p \in Pages : flash[p] # Garbled
  PROVE  \A p \in Pages : Programmed(k)[p] # Garbled
<1> SUFFICES ASSUME NEW p \in Pages PROVE Programmed(k)[p] # Garbled
  OBVIOUS
<1>1. /\ Todo \in Seq(FullPage) /\ Len(Todo) \in Nat /\ Length \in 1 .. Len(Todo)
      /\ At \in Nat /\ (B+1)*P \in Nat
  BY TurnLength, TurnPlace, NandAssumption
<1>2. CASE p \in At .. At + k - 1
  <2>1. p - At + 1 \in 1 .. Len(Todo)
    BY <1>1, <1>2 DEF Pages
  <2>2. Todo[p - At + 1] \in FullPage
    BY <1>1, <2>1, ElementOfSeq
  <2>3. \A c \in FullPage : c # Garbled
    <3>1. Unit \subseteq Nat \cup {Header, Pad}
      BY NandAssumption DEF Unit
    <3>2. FullPage \subseteq [1 .. W -> Nat \cup {Header, Pad}]
      BY <3>1 DEF FullPage
    <3> QED BY <3>2, NandAssumption
  <2> QED BY <1>2, <2>2, <2>3
<1>3. CASE p \notin At .. At + k - 1
  <2>1. Programmed(k)[p] = Erased[p]
    BY <1>3 DEF Programmed
  <2> QED BY <2>1, NandAssumption DEF Erased
<1> QED BY <1>2, <1>3

LEMMA CleanStep ==
  TypeOK /\ Placed /\ Fresh /\ Headed /\ ErasedBeforeWritten /\ [Next]_vars
    => ErasedBeforeWritten'
<1> SUFFICES ASSUME TypeOK, Placed, Fresh, Headed, ErasedBeforeWritten, [Next]_vars,
                    ~crossed', stage' \notin {"aborting", "failed"}
             PROVE  \A p \in Pages : flash'[p] # Garbled
  BY DEF ErasedBeforeWritten, Pages
<1>1. CASE UNCHANGED <<flash, stage, crossed>>
  BY <1>1 DEF ErasedBeforeWritten
<1>2. CASE Turn
  <2>1. /\ calls # <<>> /\ part = <<0, PartEnd>>
        /\ \/ UNCHANGED <<flash, crossed>>
           \/ /\ ~LeavesPartition
              /\ \E k \in 0 .. Length : /\ flash' = Programmed(k)
                                        /\ crossed' = (crossed \/ Strays(k))
    BY <1>2, TurnFlash
  <2>2. stage \in {"data", "list", "list_closing", "closing"} /\ ~crossed
    <3>1. stage \in {"data", "list", "list_closing", "closing", "aborting"}
      BY <2>1 DEF Placed
    <3>2. stage = "aborting" => stage' \in {"aborting", "failed"}
      BY <1>2 DEF Turn, TurnDone, TurnRefused, EraseFails, WriteFails, Abort
    <3>3. stage \in {"data", "list", "list_closing", "closing"}
      BY ONLY <3>1, <3>2, stage' \notin {"aborting", "failed"}
    <3>4. ~crossed
      <4>1. CASE UNCHANGED crossed
        BY <4>1
      <4>2. ASSUME NEW k, crossed' = (crossed \/ Strays(k)) PROVE ~crossed
        BY <4>2
      <4> QED BY <2>1, <4>1, <4>2
    <3> QED BY <3>3, <3>4
  <2>3. \A p \in Pages : flash[p] # Garbled
    BY <2>2 DEF ErasedBeforeWritten
  <2>4. ASSUME NEW k \in 0 .. Length, flash' = Programmed(k), ~Strays(k), ~LeavesPartition
        PROVE  \A p \in At .. At + k - 1 : Programmed(k)[p] = Todo[p - At + 1]
    <3>1. CASE Writing
      BY <2>1, <2>4, <3>1, CleanRun
    <3>2. CASE ~Writing
      <4>1. stage = "closing" /\ mode = "nvmem"
        BY <2>2, <3>2 DEF Writing, TypeOK
      <4>2. Length = 1
        BY <2>1, <2>2, <2>4, <4>1, HeaderTurn
      <4>3. k \in 0 .. 1
        BY <4>2
      <4> QED BY <2>1, <2>2, <2>4, <4>1, <4>3, HeaderTurn
    <3> QED BY <3>1, <3>2
  <2>5. CASE UNCHANGED flash
    BY <2>3, <2>5
  <2>6. ASSUME NEW k \in 0 .. Length, flash' = Programmed(k), ~Strays(k), ~LeavesPartition
        PROVE  \A p \in Pages : flash'[p] # Garbled
    BY <2>1, <2>3, <2>4, <2>6, NothingGarbled
  <2> QED BY <2>1, <2>5, <2>6
<1>3. CASE SetupNv
  <2>1. \A p \in Pages : flash[p] = Old
    BY <1>3 DEF SetupNv, Placed
  <2> QED BY <1>3, <2>1, NandAssumption DEF SetupNv
<1>4. CASE \/ \E b \in 0 .. B-1 : SetupFlash(b)
           \/ \E n \in Sizes : Entry(n) \/ EntryRefused(n)
           \/ WriteList \/ Deinit \/ PutHeader \/ HeaderRefused
  <2>1. /\ UNCHANGED <<flash, crossed>>
        /\ stage \notin {"aborting", "failed"}
    BY <1>4 DEF SetupFlash, Entry, EntryRefused, WriteList, Deinit, PutHeader, HeaderRefused
  <2> QED BY <2>1 DEF ErasedBeforeWritten
<1>5. CASE UNCHANGED vars
  BY <1>1, <1>5 DEF vars
<1> QED BY <1>2, <1>3, <1>4, <1>5 DEF Next

LEMMA Multiple ==
  ASSUME NEW b \in Nat
  PROVE  b*P \in Nat /\ Block(b*P) = b /\ (b*P) % P = 0 /\ (b+1)*P = (b*P) + P
<1>1. P \in Nat /\ P > 0 /\ b+1 \in Nat
  BY NandAssumption
<1>2. b*P \in Nat /\ (b+1)*P = (b*P) + P
  BY <1>1, Products
<1>3. Block(b*P) \in Nat /\ b <= Block(b*P)
  BY <1>2, Blocks
<1>4. b+1 <= Block(b*P) <=> (b+1)*P <= b*P
  BY ONLY <1>1, <1>2, Blocks
<1>5. Block(b*P) = b
  BY <1>1, <1>2, <1>3, <1>4
<1> QED BY <1>2, <1>5, Blocks

(* Pages in order are in blocks in order, and a page that does not begin a *)
(* block is in that of the page before.                                    *)
LEMMA BlockOrder ==
  ASSUME NEW p \in Nat, NEW q \in Nat, p <= q
  PROVE  /\ Block(p) \in Nat /\ Block(q) \in Nat /\ Block(p) <= Block(q)
         /\ q = p + 1 /\ q % P # 0 => Block(q) = Block(p)
<1>1. /\ Block(p) \in Nat /\ Block(q) \in Nat /\ Block(p)*P <= p /\ Block(q)*P <= q
      /\ Block(p)*P \in Nat /\ Block(q)*P \in Nat
      /\ q % P = 0 <=> q = Block(q)*P
  <2>1. Block(p) \in Nat /\ Block(q) \in Nat /\ P \in Nat
    BY Blocks, NandAssumption
  <2>2. Block(p)*P \in Nat /\ Block(q)*P \in Nat
    BY <2>1, Products
  <2>3. Block(p)*P <= p /\ Block(q)*P <= q
    BY Blocks
  <2>4. q % P = 0 <=> q = Block(q)*P
    BY Blocks
  <2> QED BY <2>1, <2>2, <2>3, <2>4
<1>2. Block(p) <= Block(q) <=> Block(p)*P <= q
  BY <1>1, Blocks
<1>3. Block(p) <= Block(q)
  BY <1>1, <1>2
<1>4. ASSUME q = p + 1, q % P # 0 PROVE Block(q) = Block(p)
  <2>1. Block(q)*P <= p
    BY <1>1, <1>4
  <2>2. Block(q) <= Block(p) <=> Block(q)*P <= p
    BY <1>1, Blocks
  <2> QED BY <1>1, <1>3, <2>1, <2>2
<1> QED BY <1>1, <1>3, <1>4

LEMMA FreshTurn ==
  ASSUME TypeOK, Placed, Fresh, TurnDone, Writing'
  PROVE  Fresh'
<1> USE NandAssumption
<1>1. /\ calls # <<>> /\ part = <<0, PartEnd>> /\ ~LeavesPartition
      /\ UNCHANGED <<mode, bad, home>> /\ off' = At + Length
      /\ flash' = Programmed(Length) /\ firstErase' = FALSE
      /\ Writing /\ ~Strays(Length)
  <2>1. calls # <<>> /\ part = <<0, PartEnd>> /\ UNCHANGED <<mode, bad, home, stage>>
    BY TurnPart DEF TurnDone
  <2>2. EraseNeeded \/ ~firstErase
    BY DEF EraseNeeded
  <2>3. firstErase' = FALSE
    BY <2>2 DEF TurnDone
  <2>4. Writing /\ ~Strays(Length)
    BY <2>1 DEF Writing, TurnDone
  <2> QED BY <2>1, <2>3, <2>4 DEF TurnDone
<1>2. /\ Length \in Nat /\ Length >= 1 /\ Len(Todo) \in Nat /\ Length <= Len(Todo)
      /\ At + Len(Todo) < PartEnd /\ PartEnd \in Nat
  BY <1>1, TurnLength
<1>3. /\ At \in Nat /\ off <= At /\ Block(At) = Taken /\ off \in Nat /\ Start \in Nat
      /\ At # off => At % P = 0
      /\ Start <= off /\ (off % P # 0 => Block(off) \notin bad)
      /\ Start' = Start /\ home \in Nat
  <2>1. off \in Nat /\ home \in Nat
    <3>1. (B+1)*P \in Nat
      OBVIOUS
    <3> QED BY <3>1 DEF TypeOK, Pages
  <2> QED BY <1>1, <2>1, TurnPlace DEF Fresh, Start
<1>4. /\ \A p \in At .. At+Length-1 : Block(p) \notin bad
                                      /\ (Block(p) # Taken => flash[p] = Blank)
      /\ \A p \in At+Length .. PartEnd-1 :
           flash'[p] = IF Block(p) = Taken THEN Blank ELSE flash[p]
  <2>1. PICK k \in 0 .. Length : k = Length
    BY <1>2
  <2>2. ~Strays(k) /\ flash' = Programmed(k)
    BY <1>1, <2>1
  <2>3. /\ \A p \in At .. At+k-1 : Block(p) \notin bad /\ (Block(p) # Taken => flash[p] = Blank)
        /\ \A p \in At+k .. PartEnd-1 :
             Programmed(k)[p] = IF Block(p) = Taken THEN Blank ELSE flash[p]
    BY <1>1, <2>2, CleanRun
  <2> QED BY <2>1, <2>2, <2>3
<1> DEFINE q == (At + Length) - 1
<1>5. /\ q \in At .. At+Length-1 /\ q \in Nat /\ off' = q + 1 /\ off' \in Nat
      /\ q \in off .. PartEnd-1
  BY <1>1, <1>2, <1>3
<1> HIDE DEF q
<1>6. off' % P # 0 => Block(off') = Block(q) /\ Block(off') \notin bad
  <2>1. off' % P # 0 => Block(off') = Block(q)
    <3>1. PICK o \in Nat : o = off' /\ o = q + 1
      BY <1>5
    <3>2. q \in Nat /\ q <= o
      BY ONLY <1>5, <3>1
    <3>3. o % P # 0 => Block(o) = Block(q)
      BY ONLY <3>1, <3>2, BlockOrder
    <3> QED BY ONLY <3>1, <3>3
  <2>2. Block(q) \notin bad
    BY ONLY <1>4, <1>5
  <2> QED BY ONLY <2>1, <2>2
<1>7. ASSUME NEW p \in At+Length .. PartEnd-1, Block(p) \notin bad
      PROVE  flash'[p] = IF mode = "nvmem" \/ (Block(p) = Block(off') /\ off' % P # 0)
                         THEN Blank ELSE Old
  <2>1. /\ p \in Nat /\ p \in off .. PartEnd-1 /\ off' <= p /\ At <= p
        /\ flash'[p] = IF Block(p) = Taken THEN Blank ELSE flash[p]
    BY <1>1, <1>2, <1>3, <1>4
  <2>2. flash[p] = IF mode = "nvmem" \/ (Block(p) = Block(off) /\ off % P # 0)
                   THEN Blank ELSE Old
    BY <1>1, <1>7, <2>1 DEF Fresh
  <2>3. CASE mode = "nvmem"
    BY <2>1, <2>2, <2>3
  <2>4. CASE mode # "nvmem" /\ Block(p) = Taken
    <3>1. Block(off') = Taken
      <4>1. At <= off'
        BY <1>1, <1>2, <1>3
      <4>2. Block(At) <= Block(off') /\ Block(off') <= Block(p) /\ Block(off') \in Nat
            /\ Block(At) \in Nat
        BY <1>3, <1>5, <2>1, <4>1, BlockOrder
      <4> QED BY <1>3, <2>4, <4>2
    <3>2. off' % P # 0
      <4>1. Block(At) * P <= At
        BY <1>3, Blocks
      <4>2. off' % P = 0 <=> off' = Block(off') * P
        BY <1>5, Blocks
      <4>3. Taken * P <= At /\ At < off'
        BY <1>1, <1>2, <1>3, <4>1
      <4>4. Taken \in Nat /\ Taken * P \in Nat
        BY <1>1, TurnPlace
      <4> QED BY <1>3, <1>5, <3>1, <4>2, <4>3, <4>4
    <3> QED BY <2>1, <2>4, <3>1, <3>2
  <2>5. CASE mode # "nvmem" /\ Block(p) # Taken
    <3>1. Block(off) <= Taken /\ Taken < Block(p) /\ Taken \in Nat /\ Block(off) \in Nat
      <4>1. Block(off) <= Block(At) /\ Block(At) <= Block(p) /\ Block(At) \in Nat
            /\ Block(p) \in Nat /\ Block(off) \in Nat
        BY <1>3, <2>1, BlockOrder
      <4> QED BY <1>3, <2>5, <4>1
    <3>2. flash'[p] = Old
      <4>1. Block(p) # Block(off)
        BY <3>1
      <4> QED BY <2>1, <2>2, <2>5, <4>1
    <3>3. ~(Block(p) = Block(off') /\ off' % P # 0)
      <4> SUFFICES ASSUME Block(p) = Block(off'), off' % P # 0 PROVE FALSE
        OBVIOUS
      <4>1. Block(q) = Block(p) /\ Block(q) \notin bad
        BY <1>6, <1>7
      <4>2. flash[q] = Blank
        BY <1>4, <1>5, <2>5, <4>1
      <4>3. Block(q) # Block(off)
        BY <3>1, <4>1
      <4>4. flash[q] = Old
        BY <1>1, <1>5, <2>5, <4>1, <4>3 DEF Fresh
      <4> QED BY <4>2, <4>4
    <3> QED BY <2>5, <3>2, <3>3
  <2> QED BY <2>3, <2>4, <2>5
<1>8. off' \in Start .. PartEnd /\ PartEnd' = PartEnd
  BY <1>1, <1>2, <1>3, <1>5 DEF PartEnd
<1>9. \A p \in off' .. PartEnd-1 : Block(p) \notin bad =>
        flash'[p] = IF mode = "nvmem" \/ (Block(p) = Block(off') /\ off' % P # 0)
                    THEN Blank ELSE Old
  BY <1>1, <1>7
<1> QED BY <1>1, <1>3, <1>6, <1>8, <1>9 DEF Fresh, Block

LEMMA FreshStep == TypeOK /\ Placed /\ Fresh /\ [Next]_vars => Fresh'
<1> SUFFICES ASSUME TypeOK, Placed, Fresh, [Next]_vars, Writing' PROVE Fresh'
  BY DEF Fresh
<1> USE NandAssumption
<1>1. CASE Writing /\ UNCHANGED <<mode, bad, flash, home, off, firstErase>>
  BY <1>1 DEF Fresh, Start, PartEnd, Block
<1>2. CASE Turn
  <2>1. CASE TurnDone
    BY <2>1, FreshTurn
  <2>2. CASE Abort
    BY <2>2 DEF Abort, Writing
  <2> QED BY <1>2, <2>1, <2>2 DEF Turn, TurnRefused, EraseFails, WriteFails
<1>3. ASSUME NEW b \in 0 .. B-1, SetupFlash(b) PROVE Fresh'
  <2>1. /\ mode' = "flash" /\ off' = b*P /\ home' = b*P /\ flash' = [p \in Pages |-> Old]
        /\ UNCHANGED bad
    BY <1>3 DEF SetupFlash, Open, Placed
  <2>2. b*P \in Nat /\ (b*P) % P = 0 /\ (b*P) + P <= B*P /\ B*P \in Nat
    <3>1. b \in Nat
      OBVIOUS
    <3>2. b*P \in Nat /\ (b*P) % P = 0
      BY <3>1, Multiple
    <3>3. (b*P) + P <= B*P /\ B*P \in Nat
      BY <3>1, Products
    <3> QED BY <3>2, <3>3
  <2>3. 0 .. (B*P)-1 \subseteq Pages
    BY <2>2, Products DEF Pages
  <2>4. \A p \in off' .. (B*P)-1 : flash'[p] = Old
    BY <2>1, <2>2, <2>3
  <2> QED BY <2>1, <2>2, <2>4 DEF Fresh, Start, PartEnd, Block
<1>4. CASE SetupNv
  <2>1. PICK b \in Good : off' = (b*P) + P /\ home' = b*P
    BY <1>4 DEF SetupNv, Open, InitDumpOff
  <2>2. /\ mode' = "nvmem" /\ UNCHANGED bad
        /\ flash' = [p \in Pages |-> IF Block(p) \in Good THEN Blank ELSE flash[p]]
    BY <1>4 DEF SetupNv
  <2>3. b \in 0 .. B-1 /\ b \in Nat /\ b+1 \in Nat
    BY <2>1 DEF Good
  <2>4. (b*P) + P = (b+1)*P /\ ((b+1)*P) % P = 0 /\ (b+1)*P \in Nat /\ b*P \in Nat
    BY <2>3, Multiple
  <2>5. (b*P) + P <= B*P /\ B*P \in Nat
    BY <2>3, Products
  <2>6. ASSUME NEW p \in off' .. (B*P)-1, Block(p) \notin bad PROVE flash'[p] = Blank
    <3>1. p \in Nat /\ p < B*P /\ p \in Pages
      BY <2>1, <2>4, <2>5, Products DEF Pages
    <3>2. Block(p) \in Nat /\ (B <= Block(p) <=> B*P <= p)
      BY <3>1, Blocks
    <3>3. Block(p) \in Good
      BY <2>5, <2>6, <3>1, <3>2 DEF Good
    <3> QED BY <2>2, <3>1, <3>3
  <2>7. off' % P = 0 /\ off' \in home' + P .. B*P
    BY <2>1, <2>4, <2>5
  <2> QED BY <2>1, <2>2, <2>6, <2>7 DEF Fresh, Start, PartEnd, Block
<1>5. CASE \/ \E n \in Sizes : Entry(n) \/ EntryRefused(n)
           \/ WriteList \/ Deinit \/ PutHeader \/ HeaderRefused
  <2>1. Writing
    BY <1>5 DEF Writing, Entry, EntryRefused, WriteList, Deinit, PutHeader, HeaderRefused,
                Placed
  <2>2. UNCHANGED <<mode, bad, flash, home, off, firstErase>>
    BY <1>5 DEF Writing, Entry, EntryRefused, WriteList, Deinit, PutHeader, HeaderRefused
  <2> QED BY <1>1, <2>1, <2>2
<1>6. CASE UNCHANGED vars
  BY <1>1, <1>6 DEF vars, Writing
<1> QED BY <1>2, <1>3, <1>4, <1>5, <1>6 DEF Next

(* The pages written are those before the next one; what is added to the   *)
(* dump changes none of them.                                              *)
LEMMA RankBelow ==
  ASSUME NEW s \in Nat, NEW t \in Nat, NEW p \in GoodPages(s, t)
  PROVE  Rank(s, p) \in Nat /\ Rank(s, t) \in Nat /\ Rank(s, p) < Rank(s, t)
<1>1. p \in Nat /\ s <= p /\ p + 1 <= t /\ Block(p) \notin bad
  BY DEF GoodPages
<1>2. Rank(s, p+1) = Rank(s, p) + 1
  <2>1. AllBad(p, p) /\ AllGood(p, p+1)
    BY <1>1 DEF AllBad, AllGood
  <2>2. Rank(s, p+1) = Rank(s, p) + ((p+1) - p)
    BY <1>1, <2>1, RankOfRun
  <2>3. Rank(s, p) \in Nat
    BY <1>1, RankType
  <2> QED BY <1>1, <2>2, <2>3
<1>3. Rank(s, p+1) <= Rank(s, t)
  BY <1>1, RankGrows
<1>4. Rank(s, p) \in Nat /\ Rank(s, t) \in Nat
  BY <1>1, RankType
<1> QED BY <1>2, <1>3, <1>4

LEMMA PageStable ==
  ASSUME NEW r \in Nat, NEW n \in Nat, NEW f \in Nat, NEW g \in Nat,
         r < n, n * W <= f, f <= g
  PROVE  Page(r, f) = Page(r, g)
<1>1. W \in Nat /\ r * W \in Nat /\ n * W \in Nat /\ (r * W) + W <= n * W
  BY NandAssumption, Products
<1>2. \A j \in 1 .. W : (r * W) + j <= f /\ (r * W) + j <= g
  BY <1>1
<1> QED BY <1>2 DEF Page

LEMMA StartType == ASSUME TypeOK PROVE Start \in Nat /\ off \in Nat /\ home \in Nat
                                        /\ (B+1)*P \in Nat /\ fed \in Nat
<1>1. (B+1)*P \in Nat /\ P \in Nat
  BY NandAssumption
<1> QED BY <1>1 DEF TypeOK, Pages, Start

LEMMA StreamTurn ==
  ASSUME TypeOK, Placed, Fresh, Stream, TurnDone, Writing'
  PROVE  Stream'
<1>1. /\ calls # <<>> /\ part = <<0, PartEnd>> /\ ~LeavesPartition
      /\ UNCHANGED <<mode, bad, home, stage, fed>> /\ off' = At + Length
      /\ flash' = Programmed(Length) /\ Writing /\ ~Strays(Length)
  <2>1. calls # <<>> /\ part = <<0, PartEnd>> /\ UNCHANGED <<mode, bad, home, stage, fed>>
    BY TurnPart DEF TurnDone
  <2>2. Writing /\ ~Strays(Length)
    BY <2>1 DEF Writing, TurnDone
  <2> QED BY <2>1, <2>2 DEF TurnDone
<1>2. /\ Length \in Nat /\ Length \in 1 .. Len(Todo) /\ Todo = calls[1]
      /\ At + Len(Todo) < PartEnd /\ PartEnd \in Nat
  BY <1>1, TurnLength DEF Todo
<1>3. /\ At \in Nat /\ off <= At /\ off \in Nat /\ Start \in Nat /\ Start <= off
      /\ \A p \in off .. At-1 : Block(p) \in bad
  BY <1>1, TurnPlace, StartType DEF Fresh
<1>4. /\ \A p \in 0 .. At-1 : flash'[p] = flash[p]
      /\ \A p \in At .. At+Length-1 : Block(p) \notin bad /\ flash'[p] = Todo[p - At + 1]
  <2>1. PICK k \in 0 .. Length : k = Length
    BY <1>2
  <2>2. ~Strays(k) /\ flash' = Programmed(k)
    BY <1>1, <2>1
  <2>3. /\ \A p \in 0 .. At-1 : Programmed(k)[p] = flash[p]
        /\ \A p \in At .. At+k-1 : /\ Block(p) \notin bad
                                   /\ Programmed(k)[p] = Todo[p - At + 1]
    BY <1>1, <2>2, CleanRun
  <2> QED BY <2>1, <2>2, <2>3
<1>5. \A k \in 0 .. Length : Rank(Start, At + k) = Written + k
  <2> SUFFICES ASSUME NEW k \in 0 .. Length PROVE Rank(Start, At + k) = Written + k
    OBVIOUS
  <2>1. k \in Nat /\ At + k \in Nat /\ At <= At + k /\ (At + k) - At = k
    BY <1>2, <1>3
  <2>2. AllBad(off, At)
    BY <1>3 DEF AllBad
  <2>4. AllGood(At, At + k)
    <3>1. \A x \in At .. (At+k)-1 : x \in At .. At+Length-1
      BY <1>2, <1>3, <2>1
    <3> QED BY <1>4, <3>1 DEF AllGood
  <2>3. Rank(Start, At + k) = Rank(Start, off) + ((At + k) - At)
    BY <1>3, <2>1, <2>2, <2>4, RankOfRun
  <2> QED BY <2>1, <2>3 DEF Written
<1>6. /\ Start' = Start /\ \A p : Rank(Start, p)' = Rank(Start, p)
      /\ GoodPages(Start, off)' = GoodPages(Start, At + Length)
      /\ Written' = Rank(Start, At + Length)
  BY <1>1 DEF Start, Rank, GoodPages, Block, Written
<1>7. Written \in Nat /\ Written' = Written + Length
  <2>1. Written \in Nat
    BY <1>3, RankType DEF Written
  <2> QED BY <1>2, <1>5, <1>6, <2>1
<1>8. ASSUME NEW p \in GoodPages(Start, At + Length)
      PROVE  flash'[p] = Page(Rank(Start, p), fed)
  <2>1. p \in Nat /\ Start <= p /\ p < At + Length /\ Block(p) \notin bad
    BY <1>2, <1>3 DEF GoodPages
  <2>2. CASE p < off
    <3>1. p \in GoodPages(Start, off)
      BY <1>3, <2>1, <2>2 DEF GoodPages
    <3>2. flash[p] = Page(Rank(Start, p), fed)
      BY <1>1, <3>1 DEF Stream
    <3> QED BY <1>3, <1>4, <2>1, <2>2, <3>2
  <2>3. CASE p >= off
    <3>1. p >= At
      BY <1>3, <2>1, <2>3
    <3> DEFINE k == p - At
    <3>2. k \in 0 .. Length /\ p = At + k /\ p \in At .. At+Length-1 /\ k + 1 \in 1 .. Len(calls[1])
      BY <1>2, <1>3, <2>1, <3>1
    <3>3. flash'[p] = calls[1][k + 1]
      BY <1>2, <1>4, <3>2
    <3>4. 1 \in 1 .. Len(calls) /\ Ahead(1) = 0
      BY <1>1, EmptySeq DEF Ahead, TypeOK
    <3>5. calls[1][k + 1] = Page(Written + 0 + ((k + 1) - 1), fed)
      BY <1>1, <3>2, <3>4 DEF Stream
    <3>6. Written + 0 + ((k + 1) - 1) = Rank(Start, p)
      BY <1>5, <1>7, <3>2
    <3> QED BY <3>3, <3>5, <3>6
  <2> QED BY <1>3, <2>1, <2>2, <2>3
<1>9. ASSUME NEW i \in 1 .. Len(calls'), NEW j \in 1 .. Len(calls'[i])
      PROVE  calls'[i][j] = Page(Written' + Ahead(i)' + (j - 1), fed)
  <2>a. PICK x \in 1 .. Len(calls) : \E y \in 1 .. Len(calls[x]) :
          /\ calls'[i][j] = calls[x][y]
          /\ Length + Ahead(i)' + (j - 1) = Ahead(x) + (y - 1)
          /\ Ahead(i)' \in Nat /\ Ahead(x) \in Nat
    BY <1>1, LeftToWrite
  <2>1. PICK y \in 1 .. Len(calls[x]) :
          /\ calls'[i][j] = calls[x][y]
          /\ Length + Ahead(i)' + (j - 1) = Ahead(x) + (y - 1)
          /\ Ahead(i)' \in Nat /\ Ahead(x) \in Nat
    BY <2>a
  <2>2. calls[x][y] = Page(Written + Ahead(x) + (y - 1), fed)
    BY <1>1 DEF Stream
  <2>3. Written' + Ahead(i)' + (j - 1) = Written + Ahead(x) + (y - 1)
    <3>1. PICK u \in Int : u = j - 1
      OBVIOUS
    <3>2. PICK v \in Int : v = y - 1
      OBVIOUS
    <3>3. PICK m, n \in Nat : m = Written /\ n = Written'
      BY <1>2, <1>7
    <3>4. PICK d, e \in Nat : d = Ahead(i)' /\ e = Ahead(x)
      BY <2>1
    <3>5. PICK l \in Nat : l = Length
      BY <1>2
    <3>6. n = m + l /\ l + d + u = e + v
      BY <1>7, <2>1, <3>1, <3>2, <3>3, <3>4, <3>5
    <3>7. n + d + u = m + e + v
      BY ONLY <3>6
    <3> QED BY <3>1, <3>2, <3>3, <3>4, <3>7
  <2> QED BY <2>1, <2>2, <2>3
<1>10. Kept' = Kept /\ Written' + Due' = Written + Due
  <2>1. Kept' = Kept /\ Length + Due' = Due /\ Due' \in Nat
    BY <1>1, LeftToWrite
  <2> QED BY <1>2, <1>7, <2>1
<1>11. /\ stage \in {"data", "list"} =>
            /\ fed = ((Written' + Due') * W) + Len(Kept')
            /\ \A i \in 1 .. Len(Kept') : Kept'[i] = ((Written' + Due') * W) + i
       /\ stage \in {"list_closing", "closing"} => fed <= (Written' + Due') * W
  BY <1>1, <1>10 DEF Stream
<1>12. \A p \in GoodPages(Start, off)' : flash'[p] = Page(Rank(Start, p)', fed')
  BY <1>1, <1>6, <1>8
<1>13. \A i \in 1 .. Len(calls') : \A j \in 1 .. Len(calls'[i]) :
         calls'[i][j] = Page(Written' + Ahead(i)' + (j - 1), fed')
  BY <1>1, <1>9
<1> QED BY <1>1, <1>11, <1>12, <1>13 DEF Stream, Page

(* What is handed over joins the stream.                                   *)
LEMMA StreamFed ==
  ASSUME TypeOK, Placed, Fresh, Stream, Writing', NEW n \in Nat \ {0}, stage = "data", calls = <<>>,
         fed + n <= MaxUnits + ListSize, WriteData(Units(fed, n)), fed' = fed + n,
         stage' \in {"data", "list"},
         UNCHANGED <<mode, bad, flash, home, off, crossed>>
  PROVE  Stream'
<1>1. Writing /\ Kept = temp /\ Due = 0 /\ rest = <<>>
  BY DEF Writing, Kept, Due, Placed
<1>2. /\ Start \in Nat /\ off \in Nat /\ fed \in Nat /\ W \in Nat /\ Written \in Nat
      /\ Written * W \in Nat /\ Len(temp) \in Nat
  <2>1. Start \in Nat /\ off \in Nat /\ fed \in Nat /\ W \in Nat
    BY StartType, NandAssumption
  <2>2. Written \in Nat
    BY <2>1, RankType DEF Written
  <2>3. Len(temp) \in Nat
    BY LenProperties DEF TypeOK
  <2> QED BY <2>1, <2>2, <2>3, Products
<1>3. fed = (Written * W) + Len(temp) /\ \A i \in 1 .. Len(temp) : temp[i] = (Written * W) + i
  <2>1. /\ fed = ((Written + Due) * W) + Len(Kept)
        /\ \A i \in 1 .. Len(Kept) : Kept[i] = ((Written + Due) * W) + i
    BY <1>1 DEF Stream
  <2>2. Written + Due = Written
    BY <1>1, <1>2
  <2> QED BY <1>1, <2>1, <2>2
<1>4. /\ fed + n = ((Written + Due') * W) + Len(Kept')
      /\ \A i \in 1 .. Len(Kept') : Kept'[i] = ((Written + Due') * W) + i
      /\ \A i \in 1 .. Len(calls') : \A j \in 1 .. Len(calls'[i]) :
           calls'[i][j] = Page(Written + Ahead(i)' + (j - 1), fed + n)
  <2>1. \A N \in Nat :
          fed = (N * W) + Len(temp) /\ (\A i \in 1 .. Len(temp) : temp[i] = (N * W) + i) =>
            /\ fed + n = ((N + Due') * W) + Len(Kept')
            /\ \A i \in 1 .. Len(Kept') : Kept'[i] = ((N + Due') * W) + i
            /\ \A i \in 1 .. Len(calls') : \A j \in 1 .. Len(calls'[i]) :
                 calls'[i][j] = Page(N + Ahead(i)' + (j - 1), fed + n)
    BY <1>1, <1>2, Packed
  <2> QED BY <1>2, <1>3, <2>1
<1>5. /\ Start' = Start /\ \A p : Rank(Start, p)' = Rank(Start, p)
      /\ GoodPages(Start, off)' = GoodPages(Start, off) /\ Written' = Written
  BY DEF Start, Rank, GoodPages, Block, Written
<1>6. ASSUME NEW p \in GoodPages(Start, off) PROVE flash'[p] = Page(Rank(Start, p), fed')
  <2>1. flash[p] = Page(Rank(Start, p), fed)
    BY <1>1 DEF Stream
  <2>2. Rank(Start, p) \in Nat /\ Rank(Start, p) < Written
    BY <1>2, RankBelow DEF Written
  <2>3. Written * W <= fed /\ fed <= fed' /\ fed' \in Nat
    BY <1>2, <1>3
  <2>4. fed \in Nat /\ Written \in Nat
    BY <1>2
  <2>5. Page(Rank(Start, p), fed) = Page(Rank(Start, p), fed')
    BY ONLY <2>2, <2>3, <2>4, PageStable
  <2> QED BY <2>1, <2>5
<1>7. /\ fed' = ((Written' + Due') * W) + Len(Kept')
      /\ \A i \in 1 .. Len(Kept') : Kept'[i] = ((Written' + Due') * W) + i
      /\ \A i \in 1 .. Len(calls') : \A j \in 1 .. Len(calls'[i]) :
           calls'[i][j] = Page(Written' + Ahead(i)' + (j - 1), fed')
  BY <1>4, <1>5
<1>8. \A p \in GoodPages(Start, off)' : flash'[p] = Page(Rank(Start, p)', fed')
  BY <1>5, <1>6
<1> QED BY <1>7, <1>8 DEF Stream, Page

(* What is kept becomes the last page.                                     *)
LEMMA StreamClosed ==
  ASSUME TypeOK, Placed, Fresh, Stream, Writing', Deinit
  PROVE  Stream'
<1>1. /\ Writing /\ stage \in {"data", "list"} /\ stage' \in {"list_closing", "closing"}
      /\ calls = <<>> /\ Kept = temp /\ Due = 0
      /\ UNCHANGED <<mode, bad, flash, home, off, fed>>
  BY DEF Deinit, Writing, Placed, Kept, Due
<1>2. /\ Start \in Nat /\ off \in Nat /\ fed \in Nat /\ W \in Nat /\ Written \in Nat
      /\ Written * W \in Nat /\ (Written + 1) * W = (Written * W) + W
      /\ Len(temp) \in Nat /\ Len(temp) < W
  <2>1. Start \in Nat /\ off \in Nat /\ fed \in Nat /\ W \in Nat
    BY StartType, NandAssumption
  <2>2. Written \in Nat
    BY <2>1, RankType DEF Written
  <2>3. Len(temp) \in Nat /\ Len(temp) < W
    BY LenProperties DEF TypeOK
  <2> QED BY <2>1, <2>2, <2>3, Products
<1>3. fed = (Written * W) + Len(temp) /\ \A i \in 1 .. Len(temp) : temp[i] = (Written * W) + i
  <2>1. /\ fed = ((Written + Due) * W) + Len(Kept)
        /\ \A i \in 1 .. Len(Kept) : Kept[i] = ((Written + Due) * W) + i
    BY <1>1 DEF Stream
  <2>2. Written + Due = Written
    BY <1>1, <1>2
  <2> QED BY <1>1, <2>1, <2>2
<1>4. /\ Start' = Start /\ \A p : Rank(Start, p)' = Rank(Start, p)
      /\ GoodPages(Start, off)' = GoodPages(Start, off) /\ Written' = Written
  BY <1>1 DEF Start, Rank, GoodPages, Block, Written
<1>5. \A p \in GoodPages(Start, off)' : flash'[p] = Page(Rank(Start, p)', fed')
  BY <1>1, <1>4 DEF Stream
<1>6. /\ \A i \in 1 .. Len(calls') : \A j \in 1 .. Len(calls'[i]) :
           calls'[i][j] = Page(Written' + Ahead(i)' + (j - 1), fed')
      /\ fed' <= (Written' + Due') * W
  <2>1. CASE temp = <<>>
    <3>1. calls' = <<>> /\ Due' = 0 /\ Len(temp) = 0
      BY <2>1, EmptySeq DEF Deinit, Due
    <3>2. Written' + Due' = Written
      BY <1>2, <1>4, <3>1
    <3>3. Len(calls') = 0
      BY <3>1
    <3> QED BY <1>1, <1>2, <1>3, <3>1, <3>2, <3>3
  <2>2. CASE temp # <<>>
    <3> DEFINE c == temp \o [i \in 1 .. W - Len(temp) |-> Pad]
    <3>1. /\ c \in FullPage
          /\ \A m \in 1 .. W : c[m] = IF m <= Len(temp) THEN temp[m] ELSE Pad
      BY LastPage
    <3>2. calls' = << <<c>> >>
      BY <2>2 DEF Deinit
    <3> HIDE DEF c
    <3>3. /\ Len(calls') = 1 /\ calls'[1] = <<c>> /\ Len(calls'[1]) = 1 /\ calls'[1][1] = c
          /\ calls' # <<>>
      BY <3>2
    <3>4. Due' = 1 /\ Ahead(1)' = 0
      BY <3>3 DEF Due, Ahead
    <3>5. Written' + Ahead(1)' + (1 - 1) = Written /\ Written' + Due' = Written + 1
      BY <1>2, <1>4, <3>4
    <3>6. ASSUME NEW m \in 1 .. W
          PROVE  c[m] = IF (Written * W) + m <= fed THEN (Written * W) + m ELSE Pad
      <4>1. (Written * W) + m <= fed <=> m <= Len(temp)
        BY <1>2, <1>3
      <4>2. m <= Len(temp) => temp[m] = (Written * W) + m
        BY <1>2, <1>3
      <4> QED BY <3>1, <4>1, <4>2
    <3>7. c = Page(Written, fed)
      BY <3>1, <3>6 DEF Page, FullPage
    <3>8. fed <= (Written + 1) * W
      BY <1>2, <1>3
    <3>9. ASSUME NEW i \in 1 .. Len(calls'), NEW j \in 1 .. Len(calls'[i])
          PROVE  i = 1 /\ j = 1
      BY <3>3
    <3> QED BY <1>1, <3>3, <3>5, <3>7, <3>8, <3>9
  <2> QED BY <2>1, <2>2
<1> QED BY <1>1, <1>5, <1>6 DEF Stream, Page

LEMMA StreamStep == TypeOK /\ Placed /\ Fresh /\ Stream /\ [Next]_vars => Stream'
<1> SUFFICES ASSUME TypeOK, Placed, Fresh, Stream, [Next]_vars, Writing' PROVE Stream'
  BY DEF Stream
<1>1. ASSUME stage = "setup", stage' = "data", off' = Start', off' \in Nat,
             UNCHANGED <<bad, calls, fed>>, temp' = <<>>
      PROVE  Stream'
  <2>1. fed' = 0 /\ calls' = <<>> /\ Len(calls') = 0 /\ Len(temp') = 0
    BY <1>1, EmptySeq DEF Placed
  <2>2. GoodPages(Start, off)' = {}
    BY <1>1 DEF GoodPages
  <2>3. Rank(off', off') = 0
    BY <1>1, RankType
  <2>4. Written' = 0
    BY <1>1, <2>3 DEF Written, Rank, GoodPages, Block
  <2>5. Due' = 0 /\ Kept' = <<>>
    BY <1>1, <2>1 DEF Due, Kept
  <2>6. Len(Kept') = 0 /\ (Written' + Due') * W = 0
    BY <2>4, <2>5, EmptySeq, NandAssumption
  <2> QED BY <1>1, <2>1, <2>2, <2>6 DEF Stream
<1>2. ASSUME NEW b \in 0 .. B-1, SetupFlash(b) PROVE Stream'
  <2>1. b*P \in Nat
    BY NandAssumption, Products
  <2> QED BY <1>1, <1>2, <2>1 DEF SetupFlash, Open, Start
<1>3. CASE SetupNv
  <2>1. PICK b \in Good : home' = b*P /\ off' = (b*P) + P
    BY <1>3 DEF SetupNv, Open, InitDumpOff
  <2>2. (b*P) + P \in Nat
    BY NandAssumption, Products DEF Good
  <2> QED BY <1>1, <1>3, <2>1, <2>2 DEF SetupNv, Open, Start
<1>4. ASSUME NEW n \in Sizes, Entry(n) PROVE Stream'
  <2>1. n \in Nat \ {0} /\ fed \in Nat /\ MaxUnits \in Nat /\ ListSize \in Nat
    BY NandAssumption, StartType
  <2>2. /\ stage = "data" /\ stage' = stage /\ calls = <<>> /\ WriteData(Units(fed, n))
        /\ fed + n <= MaxUnits /\ fed' = fed + n
        /\ UNCHANGED <<mode, bad, flash, home, off, crossed>>
    BY <1>4 DEF Entry
  <2>3. fed + n <= MaxUnits + ListSize
    BY <2>1, <2>2
  <2> QED BY <2>1, <2>2, <2>3, StreamFed
<1>5. CASE WriteList
  <2>1. ListSize \in Nat \ {0} /\ fed \in Nat /\ MaxUnits \in Nat
    BY NandAssumption, StartType
  <2>2. /\ stage = "data" /\ stage' = "list" /\ calls = <<>> /\ WriteData(Units(fed, ListSize))
        /\ fed' = fed + ListSize
        /\ UNCHANGED <<mode, bad, flash, home, off, crossed>>
    BY <1>5 DEF WriteList
  <2>3. fed + ListSize <= MaxUnits + ListSize
    BY <2>1, <2>2 DEF Placed
  <2> QED BY <2>1, <2>2, <2>3, StreamFed
<1>6. CASE Deinit
  BY <1>6, StreamClosed
<1>7. CASE stage' \in {"failed", "aborted", "header"}
  BY <1>7 DEF Writing
<1>8. CASE Turn
  <2>1. CASE TurnDone
    BY <2>1, StreamTurn
  <2>2. CASE Abort
    BY <1>7, <2>2 DEF Abort
  <2> QED BY <1>8, <2>1, <2>2 DEF Turn, TurnRefused, EraseFails, WriteFails
<1>9. CASE UNCHANGED vars
  <2>1. Writing
    BY <1>9 DEF vars, Writing
  <2>2. UNCHANGED <<mode, stage, bad, flash, home, off, temp, calls, rest, fed>>
    BY <1>9 DEF vars
  <2>3. /\ Start' = Start /\ \A p : Rank(Start, p)' = Rank(Start, p)
        /\ GoodPages(Start, off)' = GoodPages(Start, off) /\ Written' = Written
    BY <2>2 DEF Start, Rank, GoodPages, Block, Written
  <2>4. Due' = Due /\ Kept' = Kept /\ \A i : Ahead(i)' = Ahead(i)
    BY <2>2 DEF Due, Kept, Ahead
  <2>5. \A p \in GoodPages(Start, off)' : flash'[p] = Page(Rank(Start, p)', fed')
    BY <2>1, <2>2, <2>3 DEF Stream
  <2>6. \A i \in 1 .. Len(calls') : \A j \in 1 .. Len(calls'[i]) :
          calls'[i][j] = Page(Written' + Ahead(i)' + (j - 1), fed')
    BY <2>1, <2>2, <2>3, <2>4 DEF Stream
  <2>7. /\ stage' \in {"data", "list"} =>
             /\ fed' = ((Written' + Due') * W) + Len(Kept')
             /\ \A i \in 1 .. Len(Kept') : Kept'[i] = ((Written' + Due') * W) + i
        /\ stage' \in {"list_closing", "closing"} => fed' <= (Written' + Due') * W
    BY <2>1, <2>2, <2>3, <2>4 DEF Stream
  <2> QED BY <2>5, <2>6, <2>7 DEF Stream, Page
<1> QED BY <1>2, <1>3, <1>4, <1>5, <1>6, <1>7, <1>8, <1>9
        DEF Next, EntryRefused, PutHeader, HeaderRefused

(* A stream that has been closed and whose pages are all programmed is     *)
(* what a reader finds.                                                    *)
LEMMA AllWritten ==
  ASSUME TypeOK, Fresh, Stream, Writing, calls = <<>>, stage \in {"list_closing", "closing"}
  PROVE  Stored(Start)
<1>1. /\ Start \in Nat /\ off \in Nat /\ fed \in Nat /\ W \in Nat /\ PartEnd \in Nat
      /\ Start <= off /\ off <= PartEnd
  BY StartType, NandAssumption, Products DEF Fresh, PartEnd
<1>2. Written \in Nat /\ Written <= Rank(Start, PartEnd) /\ Rank(Start, PartEnd) \in Nat
  BY <1>1, RankType, RankGrows DEF Written
<1>3. fed <= Written * W /\ Written * W \in Nat
  <2>1. fed <= (Written + Due) * W /\ Due = 0
    BY DEF Stream, Due
  <2>2. Written + Due = Written
    BY <1>2, <2>1
  <2> QED BY <1>1, <1>2, <2>1, <2>2, Products
<1>4. fed <= W * Rank(Start, PartEnd)
  <2>1. PICK r \in Nat : r = Rank(Start, PartEnd)
    BY <1>2
  <2>2. Written * W <= r * W /\ r * W \in Nat /\ W * r = r * W
    BY <1>1, <1>2, <2>1, Products
  <2> QED BY <1>1, <1>3, <2>1, <2>2
<1>5. ASSUME NEW p \in GoodPages(Start, PartEnd), Rank(Start, p) * W < fed
      PROVE  flash[p] = Page(Rank(Start, p), fed)
  <2>1. p \in Nat /\ Start <= p /\ p < PartEnd /\ Block(p) \notin bad
    BY <1>1 DEF GoodPages
  <2>2. p < off
    <3> SUFFICES ASSUME off <= p PROVE FALSE
      BY <1>1, <2>1
    <3>1. PICK r \in Nat : r = Rank(Start, p)
      BY <1>1, <2>1, RankType
    <3>2. Written <= r
      BY <1>1, <2>1, <3>1, RankGrows DEF Written
    <3>3. Written * W <= r * W /\ r * W \in Nat
      BY <1>1, <1>2, <3>1, <3>2, Products
    <3> QED BY <1>1, <1>3, <1>5, <3>1, <3>3
  <2>3. p \in GoodPages(Start, off)
    BY <1>1, <2>1, <2>2 DEF GoodPages
  <2> QED BY <2>3 DEF Stream
<1> QED BY <1>4, <1>5 DEF Stored

(* What is behind the first block of the dump stays readable as long as    *)
(* nothing writes there.                                                   *)
LEMMA StoredStable ==
  ASSUME TypeOK, Stored(home + P), UNCHANGED <<bad, home, fed>>,
         \A p \in Pages : p >= home + P => flash'[p] = flash[p]
  PROVE  Stored(home + P)'
<1>1. home + P \in Nat /\ PartEnd \in Nat /\ (B+1)*P \in Nat /\ PartEnd <= (B+1)*P
  <2>1. B \in Nat /\ P \in Nat /\ B*P \in Nat /\ (B+1)*P = (B*P) + P
    BY NandAssumption, Products
  <2> QED BY <2>1, StartType DEF PartEnd
<1>2. /\ \A p : Rank(home + P, p)' = Rank(home + P, p)
      /\ GoodPages(home + P, PartEnd)' = GoodPages(home + P, PartEnd)
  BY DEF Rank, GoodPages, Block, PartEnd
<1>3. \A p \in GoodPages(home + P, PartEnd) : p \in Pages /\ p >= home + P
  BY <1>1 DEF GoodPages, Pages
<1>4. \A p \in GoodPages(home + P, PartEnd) :
        Rank(home + P, p) * W < fed => flash'[p] = Page(Rank(home + P, p), fed)
  BY <1>3 DEF Stored
<1>5. \A p \in GoodPages(home + P, PartEnd)' :
        Rank(home + P, p)' * W < fed' => flash'[p] = Page(Rank(home + P, p)', fed')
  BY <1>2, <1>4
<1>6. fed' <= W * Rank(home + P, PartEnd)'
  BY <1>2 DEF Stored
<1> QED BY <1>5, <1>6 DEF Stored, PartEnd, Page

(* While the data is written the first block of the dump is left alone.    *)
LEMMA HomeKept ==
  ASSUME TypeOK, Placed, Fresh, Writing, mode = "nvmem", Turn, ~crossed'
  PROVE  flash'[home'] = flash[home]
<1>1. /\ calls # <<>> /\ part = <<0, PartEnd>> /\ home' = home
      /\ \/ UNCHANGED <<flash, crossed>>
         \/ /\ ~LeavesPartition
            /\ \E k \in 0 .. Length : /\ flash' = Programmed(k)
                                      /\ crossed' = (crossed \/ Strays(k))
  BY TurnFlash
<1>2. CASE UNCHANGED flash
  BY <1>1, <1>2
<1>3. ASSUME NEW k \in 0 .. Length, ~LeavesPartition, flash' = Programmed(k), ~Strays(k)
      PROVE  flash'[home'] = flash[home]
  <2>1. \A p \in 0 .. At-1 : Programmed(k)[p] = flash[p]
    BY <1>1, <1>3, CleanRun
  <2>2. home \in 0 .. At-1
    <3>1. /\ home \in Nat /\ P \in Nat \ {0} /\ off \in Nat /\ At \in Nat /\ off <= At
      BY <1>1, TurnPlace, StartType, NandAssumption
    <3>2. home + P <= off
      BY DEF Fresh, Start
    <3> QED BY <3>1, <3>2
  <2> QED BY <1>1, <1>3, <2>1, <2>2
<1> QED BY <1>1, <1>2, <1>3

LEMMA HeadedTurn ==
  ASSUME TypeOK, Placed, Fresh, Headed, Turn, mode = "nvmem", ~crossed'
  PROVE  Headed'
<1>1. /\ calls # <<>> /\ part = <<0, PartEnd>> /\ UNCHANGED <<mode, bad, home, part, fed>>
      /\ \/ UNCHANGED <<flash, crossed>>
         \/ /\ ~LeavesPartition
            /\ \E k \in 0 .. Length : /\ flash' = Programmed(k)
                                      /\ crossed' = (crossed \/ Strays(k))
  BY TurnFlash
<1>2. ~crossed
  <2>1. CASE UNCHANGED crossed
    BY <2>1
  <2>2. ASSUME NEW k, crossed' = (crossed \/ Strays(k)) PROVE ~crossed
    BY <2>2
  <2> QED BY <1>1, <2>1, <2>2
<1>3. stage \in {"data", "list", "list_closing", "closing"}
  BY <1>1 DEF Placed
<1>4. stage' = "failed" \/ (TurnDone /\ stage' = stage)
  BY DEF Turn, TurnDone, TurnRefused, EraseFails, WriteFails, Abort
<1>5. CASE stage # "closing"
  <2>1. Writing
    BY <1>2, <1>3, <1>5 DEF Writing
  <2>2. flash'[home'] = flash[home]
    BY <2>1, HomeKept
  <2>3. flash[home] \in {Old, Blank}
    BY <1>2, <1>3, <1>5 DEF Headed
  <2> QED BY <1>3, <1>4, <1>5, <2>2, <2>3 DEF Headed
<1>6. CASE stage = "closing"
  <2>1. Stored(home + P) /\ off = home /\ Len(calls) = 1 /\ Len(calls[1]) = 1
    BY <1>1, <1>2, <1>6 DEF Headed
  <2>2. \A p \in Pages : p >= home + P => flash'[p] = flash[p]
    <3>1. CASE UNCHANGED flash
      BY <3>1
    <3>2. ASSUME NEW k \in 0 .. Length, ~LeavesPartition, flash' = Programmed(k)
          PROVE  \A p \in Pages : p >= home + P => flash'[p] = flash[p]
      <4>1. Length = 1
        BY <1>1, <1>2, <1>6, <3>2, HeaderTurn
      <4>2. k \in 0 .. 1
        BY <4>1
      <4> QED BY <1>1, <1>2, <1>6, <3>2, <4>2, HeaderTurn
    <3> QED BY <1>1, <3>1, <3>2
  <2>3. Stored(home + P)'
    BY <1>1, <2>1, <2>2, StoredStable
  <2>4. TurnDone => calls' = <<>>
    <3> SUFFICES ASSUME TurnDone PROVE calls' = <<>>
      OBVIOUS
    <3>1. ~LeavesPartition
      BY DEF TurnDone
    <3>2. Length = 1 /\ Length = Len(Todo)
      <4>1. Length = 1
        BY <1>1, <1>2, <1>6, <3>1, HeaderTurn
      <4> QED BY <2>1, <4>1 DEF Todo
    <3>3. calls' = Tail(calls)
      BY <3>2 DEF TurnDone
    <3>4. Tail(calls) \in Seq(Seq(FullPage)) /\ Len(Tail(calls)) = 0
      BY <1>1, <2>1, HeadTailProperties DEF TypeOK
    <3> QED BY <3>3, <3>4, EmptySeq
  <2> QED BY <1>4, <1>6, <2>3, <2>4 DEF Headed
<1> QED BY <1>5, <1>6

LEMMA HeadedStep == TypeOK /\ Placed /\ Fresh /\ Stream /\ Headed /\ [Next]_vars => Headed'
<1> SUFFICES ASSUME TypeOK, Placed, Fresh, Stream, Headed, [Next]_vars,
                    mode' = "nvmem", ~crossed'
             PROVE  Headed'
  BY DEF Headed
<1>1. ASSUME UNCHANGED <<mode, bad, flash, home, fed, crossed>>, stage \in {"header", "closing"},
             stage' = "closing",
             calls' # <<>> => off' = home' /\ Len(calls') = 1 /\ Len(calls'[1]) = 1
      PROVE  Headed'
  <2>1. Stored(home + P)'
    BY <1>1, StoredStable DEF Headed
  <2> QED BY <1>1, <2>1 DEF Headed
<1>2. CASE Turn
  <2>1. mode = "nvmem"
    BY <1>2, TurnFlash
  <2> QED BY <1>2, <2>1, HeadedTurn
<1>3. ASSUME NEW b \in 0 .. B-1, SetupFlash(b) PROVE FALSE
  BY <1>3 DEF SetupFlash
<1>4. CASE SetupNv
  <2>1. PICK b \in Good : home' = b*P
    BY <1>4 DEF SetupNv
  <2>2. home' \in Pages
    <3>1. b \in Nat /\ b < B /\ B \in Nat /\ P \in Nat /\ P > 0
      BY NandAssumption DEF Good
    <3>2. b*P \in Nat /\ (b*P) + P <= B*P /\ (B+1)*P = (B*P) + P /\ B*P \in Nat
      BY <3>1, Products
    <3> QED BY <2>1, <3>1, <3>2 DEF Pages
  <2>3. flash'[home'] \in {Old, Blank}
    BY <1>4, <2>2 DEF SetupNv, Placed
  <2> QED BY <1>4, <2>3 DEF SetupNv, Headed
<1>5. ASSUME stage \in {"data", "list", "list_closing"},
             stage' \in {"data", "list", "list_closing", "failed"},
             UNCHANGED <<mode, flash, home, crossed>>
      PROVE  Headed'
  BY <1>5 DEF Headed
<1>6. CASE (\E n \in Sizes : Entry(n) \/ EntryRefused(n)) \/ WriteList \/ HeaderRefused
  BY <1>5, <1>6 DEF Entry, EntryRefused, WriteList, HeaderRefused
<1>7. CASE Deinit
  <2>1. CASE stage = "list"
    BY <1>5, <1>7, <2>1 DEF Deinit
  <2>2. CASE stage = "header"
    <3>1. off = home
      BY <1>7, <2>2 DEF Deinit, Headed
    <3>2. calls' # <<>> => Len(calls') = 1 /\ Len(calls'[1]) = 1
      BY <1>7 DEF Deinit
    <3> QED BY <1>1, <1>7, <2>2, <3>1, <3>2 DEF Deinit
  <2> QED BY <1>7, <2>1, <2>2 DEF Deinit, Placed
<1>8. CASE PutHeader
  <2>1. /\ stage = "list_closing" /\ calls = <<>> /\ stage' = "header"
        /\ UNCHANGED <<mode, bad, flash, home, calls, fed, crossed>>
        /\ off' = home /\ temp' = <<Header>>
    BY <1>8 DEF PutHeader
  <2>2. Writing /\ Start = home + P
    BY <2>1 DEF Writing, Start
  <2>3. Stored(home + P)
    BY <2>1, <2>2, AllWritten
  <2>4. Stored(home + P)'
    BY <2>1, <2>3, StoredStable
  <2> QED BY <2>1, <2>4 DEF Headed
<1>9. CASE UNCHANGED vars
  <2>1. UNCHANGED <<mode, stage, bad, flash, home, off, temp, calls, fed, crossed>>
    BY <1>9 DEF vars
  <2>2. Stored(home + P) => Stored(home + P)'
    BY <2>1, StoredStable
  <2> QED BY <2>1, <2>2 DEF Headed
<1> QED BY <1>2, <1>3, <1>4, <1>6, <1>7, <1>8, <1>9 DEF Next
-----------------------------------------------------------------------------
LEMMA Invariance == Spec => []IInv
<1>1. Init => IInv
  BY InitIInv
<1>2. IInv /\ [Next]_vars => IInv'
  BY TypeStep, PlacedStep, StaysStep, CleanStep, FreshStep, StreamStep, HeadedStep DEF IInv
<1> QED BY <1>1, <1>2, PTL DEF Spec

(***************************************************************************)
(* The context of cmd_crashdump.c is what the code takes it for: less than *)
(* a page is kept, at most two calls are due, and offsets are in the       *)
(* partition or in the block behind it.                                    *)
(***************************************************************************)
THEOREM TypeCorrect == Spec => []TypeOK
<1>1. IInv => TypeOK
  BY DEF IInv
<1> QED BY <1>1, Invariance, PTL

(***************************************************************************)
(* A dump erases and writes no page behind its partition, although in the  *)
(* last good block its context is opened at the next one.                  *)
(***************************************************************************)
THEOREM NothingBehindThePartition == Spec => []StaysInPartition
<1>1. IInv => StaysInPartition
  BY DEF IInv
<1> QED BY <1>1, Invariance, PTL

(***************************************************************************)
(* Every page the dump programs was erased and is in a good block, unless  *)
(* a run of pages strayed or a write failed: first_erase and the erase at  *)
(* the beginning of a block are enough.                                    *)
(***************************************************************************)
THEOREM ErasedFirst == Spec => []ErasedBeforeWritten
<1>1. IInv => ErasedBeforeWritten
  BY DEF IInv
<1> QED BY <1>1, Invariance, PTL

(***************************************************************************)
(* A dump to flash that reports success can be read back, whatever the     *)
(* entries' sizes and the bad blocks, if no run of pages strayed.          *)
(***************************************************************************)
THEOREM DumpIsReadBack == Spec => []DumpReadsBack
<1>1. IInv => DumpReadsBack
  <2> SUFFICES ASSUME IInv, mode = "flash", stage = "closing", calls = <<>>, ~crossed
               PROVE  Stored(home)
    BY DEF DumpReadsBack
  <2>1. Writing /\ Start = home
    BY DEF Writing, Start
  <2> QED BY <2>1, AllWritten DEF IInv
<1> QED BY <1>1, Invariance, PTL

(***************************************************************************)
(* A header found in the first block vouches for the dump behind it,       *)
(* whichever write failed and whenever the power went, with the same       *)
(* proviso.                                                                *)
(***************************************************************************)
THEOREM HeaderVouches == Spec => []HeaderMeansDump
<1>1. IInv => HeaderMeansDump
  <2> SUFFICES ASSUME IInv, mode = "nvmem", ~crossed,
                      flash[home] = <<Header>> \o [i \in 1 .. W-1 |-> Pad]
               PROVE  Stored(home + P)
    BY DEF HeaderMeansDump
  <2> DEFINE h == <<Header>> \o [i \in 1 .. W-1 |-> Pad]
  <2>1. h \in Seq({Header, Pad}) /\ Len(h) = W
    <3>1. W-1 \in Nat /\ W \in Nat /\ 1 + (W-1) = W
      BY NandAssumption
    <3>2. [i \in 1 .. W-1 |-> Pad] \in Seq({Header, Pad}) /\ Len([i \in 1 .. W-1 |-> Pad]) = W-1
      BY <3>1
    <3>3. <<Header>> \in Seq({Header, Pad}) /\ Len(<<Header>>) = 1
      OBVIOUS
    <3> QED BY <3>1, <3>2, <3>3, ConcatProperties
  <2> HIDE DEF h
  <2>2. h \in [1 .. W -> Nat \cup {Header, Pad}]
    <3>1. h \in [1 .. W -> {Header, Pad}]
      BY <2>1, LenProperties
    <3> QED BY <3>1
  <2>3. flash[home] \notin {Old, Blank}
    BY <2>2, NandAssumption DEF h
  <2>4. stage \in {"header", "closing"} \/ stage = "failed"
    BY <2>3 DEF IInv, Headed
  <2> QED BY <2>3, <2>4 DEF IInv, Headed
<1> QED BY <1>1, Invariance, PTL
=============================================================================
