--------------------------- MODULE QpicNandProofs ---------------------------
(***************************************************************************)
(* Proofs about QpicNand, for every geometry of the flash, every length of *)
(* a batch and every condition its codewords may be in.                    *)
(* At the end, proofs about NandStart, for every number of frequencies and *)
(* of phases.                                                              *)
(***************************************************************************)
EXTENDS MCQpicNand, TLAPS, FiniteSetTheorems, WellFoundedInduction

Reads == {"read", "readoob"}
Reading == pc \in {"batch", "judge", "copy"}

\* Which call is under way, and what none leaves behind.
CallOK ==
  /\ Reading => op \in Reads /\ len > 0
  /\ pc = "erase" => op = "erase" /\ to + len <= Blocks /\ left <= len
  /\ pc = "write" => op = "write"
  /\ pc = "idle" => op = "none" /\ retlen = 0 /\ placed
  /\ op \notin Reads => ~owed

\* Of whole pages what is left and what was read is what was asked for; of a
\* part of one page nothing is read before all is.
WholePages == to % Unit = 0 /\ len % Unit = 0
OnePage == PageCount(to, len) = 1

Delivered ==
  /\ pc \in {"batch", "judge", "copy", "return"} /\ op \in Reads /\ (WholePages \/ OnePage)
       => placed
  /\ Reading /\ WholePages => retlen + left * Unit = len
  /\ Reading /\ OnePage => left = 1 /\ retlen = 0
  /\ pc = "return" /\ op \in Reads /\ (WholePages \/ OnePage) => retlen = len

Fine == {"data", "blank", "fixed"}

\* The statuses are those of the batch, but for those nobody waits for, and up
\* to the position of the loops every other codeword was fine or is in unc.  In
\* a batch the loop then stays at the status that was not.
Faithful ==
  /\ \A p \in DOMAIN truth, c \in Cws :
       \/ status[(p - 1) * CW + c] = Report(truth[p][c])
       \/ ~Awaited(c) /\ status[(p - 1) * CW + c] = "clean"
  /\ \A p \in 1 .. page-1, c \in Cws : truth[p][c] \in Fine \/ ~Awaited(c)
  /\ \A c \in 1 .. cw-1 : truth[page][c] \in Fine \/ c \in unc \/ ~Awaited(c)
  /\ ~Multi => \A c \in unc : truth[page][c] \in {"weak", "lost"}
  /\ unc \subseteq 1 .. cw-1
  /\ unc # {} => \E c \in unc : truth[page][c] \in {"weak", "lost"}
  /\ unc = {} \/ ~Multi => at = (page - 1) * CW + cw
  /\ unc # {} /\ Multi => status[at] = "EBADMSG"

\* An error that was read is counted, or kept as a number of bit flips, or
\* the loops have not come to it.
Caught == failed > 0 \/ worst = "EIO"

Accounted ==
  owed /\ ~gaveUp /\ ~stray =>
    /\ pc = "batch" => Caught
    /\ pc = "judge" => Caught \/ (Owing(truth) /\ Faithful)
    /\ pc = "copy" => Caught \/ got = "EIO"
    /\ pc = "return" => result \in {"EBADMSG", "EIO"}

IInv == TypeOK /\ CallOK /\ Delivered /\ Accounted

(* What a number is divided into is unique.                                *)
LEMMA DivUnique ==
  ASSUME NEW d \in Nat \ {0}, NEW a \in Nat, NEW r \in 0 .. d-1
  PROVE  ((d * a) + r) \div d = a /\ ((d * a) + r) % d = r
<1> DEFINE x == (d * a) + r
           k == x \div d
           s == x % d
<1>1. x \in Nat
  OBVIOUS
<1>2. x = (d * k) + s /\ k \in Nat /\ s \in 0 .. d-1
  <2> HIDE DEF x
  <2> QED BY <1>1
<1> HIDE DEF k, s
<1>3. (d * a) + r = (d * k) + s
  BY <1>2
<1>4. ~(k < a)
  <2> SUFFICES ASSUME k < a PROVE FALSE
    OBVIOUS
  <2>1. d * (k + 1) <= d * a /\ d * (k + 1) = (d * k) + d
    BY <1>2
  <2> QED BY <1>2, <1>3, <2>1
<1>5. ~(a < k)
  <2> SUFFICES ASSUME a < k PROVE FALSE
    OBVIOUS
  <2>1. d * (a + 1) <= d * k /\ d * (a + 1) = (d * a) + d
    BY <1>2
  <2> QED BY <1>2, <1>3, <2>1
<1>6. k = a /\ s = r
  BY <1>2, <1>3, <1>4, <1>5
<1> QED BY <1>6 DEF k, s

(* How many pages a request touches (PageCount): as many as it has when it *)
(* is of whole pages, and one when it ends in the page it starts in.       *)
LEMMA PagesOfRequest ==
  ASSUME NEW t \in Nat, NEW n \in Nat \ {0}
  PROVE  /\ PageCount(t, n) \in Nat \ {0}
         /\ t % Unit = 0 /\ n % Unit = 0 => PageCount(t, n) * Unit = n
         /\ PageCount(t, n) = 1 => (t % Unit) + n <= Unit
<1> DEFINE x == t + n - 1
           q == t \div Unit
           r == t % Unit
           k == x \div Unit
           s == x % Unit
<1>0. Unit \in Nat \ {0} /\ x \in Nat /\ x >= t
  BY QpicAssumption
<1>1. t = (Unit * q) + r /\ q \in Nat /\ r \in 0 .. Unit-1
  BY <1>0
<1>2. x = (Unit * k) + s /\ k \in Nat /\ s \in 0 .. Unit-1
  <2> HIDE DEF x
  <2> QED BY <1>0
<1>3. PageCount(t, n) = k - q + 1
  BY DEF PageCount
<1>4. ASSUME r = 0, n % Unit = 0 PROVE (k - q + 1) * Unit = n
  <2> DEFINE m == n \div Unit
  <2>1. n = Unit * m /\ m \in Nat
    BY <1>0, <1>4
  <2> HIDE DEF m, k, q, r
  <2>2. m # 0
    BY <2>1, <1>0
  <2>3. x = (Unit * (q + m - 1)) + (Unit - 1)
    BY <2>1, <2>2, <1>0, <1>1, <1>4
  <2>4. q + m - 1 \in Nat /\ Unit - 1 \in 0 .. Unit-1
    BY <1>0, <1>1, <2>1, <2>2
  <2>5. x \div Unit = q + m - 1
    BY <2>3, <2>4, <1>0, DivUnique
  <2>6. k - q + 1 = m
    BY <2>5, <2>1, <1>1 DEF k
  <2> QED BY <2>6, <2>1, <1>0
<1> HIDE DEF x, q, r, k, s
<1>5. ~(k < q)
  <2> SUFFICES ASSUME k < q PROVE FALSE
    OBVIOUS
  <2>1. Unit * (k + 1) <= Unit * q /\ Unit * (k + 1) = (Unit * k) + Unit
    BY <1>0, <1>1, <1>2
  <2> QED BY <1>0, <1>1, <1>2, <2>1
<1>6. ASSUME k = q PROVE r + n <= Unit
  <2>1. n = x - t + 1
    BY <1>0 DEF x
  <2> QED BY <2>1, <1>6, <1>0, <1>1, <1>2
<1> QED BY <1>1, <1>2, <1>3, <1>4, <1>5, <1>6 DEF r

(* Where the loop's position in the status buffer lies in the batch.       *)
LEMMA Position ==
  ASSUME NEW n \in Nat, NEW p \in 1 .. n, NEW c \in Cws
  PROVE  /\ ((p - 1) * CW) + c \in 1 .. n * CW
         /\ (((((p - 1) * CW) + c) - 1) \div CW) + 1 = p
         /\ (((((p - 1) * CW) + c) - 1) % CW) + 1 = c
<1>0. CW \in Nat \ {0} /\ c \in 1 .. CW /\ p \in Nat
  BY QpicAssumption DEF Cws
<1>1. (CW * (p - 1)) + (c - 1) = (((p - 1) * CW) + c) - 1
  BY <1>0
<1>2. p - 1 \in Nat /\ c - 1 \in 0 .. CW-1
  BY <1>0
<1>3. p * CW <= n * CW /\ p * CW = ((p - 1) * CW) + CW
  BY <1>0
<1>4. (p - 1) * CW \in Nat /\ n * CW \in Nat
  BY <1>0, <1>2
<1>5. ((p - 1) * CW) + c \in 1 .. n * CW
  BY <1>0, <1>3, <1>4
<1>6. ((CW * (p - 1)) + (c - 1)) \div CW = p - 1 /\ ((CW * (p - 1)) + (c - 1)) % CW = c - 1
  BY <1>0, <1>2, DivUnique
<1> QED BY <1>0, <1>1, <1>5, <1>6

(* A batch is some of the pages that are left, and what is read of it is   *)
(* no more than it holds.                                                  *)
LEMMA BatchBounds ==
  ASSUME TypeOK, left > 0
  PROVE  /\ Batch \in Nat \ {0} /\ Batch <= left /\ (~Multi => Batch = 1)
         /\ DataLen \in Nat
<1> USE QpicAssumption
<1>1. left \in Nat \ {0} /\ to \in Nat /\ len \in Nat /\ retlen \in Nat
  BY DEF TypeOK
<1>2. Batch \in Nat \ {0} /\ Batch <= left /\ (~Multi => Batch = 1)
  BY <1>1 DEF Batch, Multi, LessOf
<1>3. Column \in 0 .. Unit-1
  BY <1>1 DEF Column
<1>4. Batch * Unit \in Nat
  BY <1>2
<1>5. Remaining \in Nat
  BY <1>1, <1>4 DEF Remaining
<1> QED BY <1>2, <1>3, <1>4, <1>5 DEF DataLen, LessOf

(* The statuses a batch leaves are one for each of its codewords.          *)
LEMMA BufferType ==
  ASSUME NEW n \in Nat \ {0}, NEW t \in [1 .. n -> [Cws -> CwSeen]], NEW k
  PROVE  /\ t \in Seq([Cws -> Conditions]) /\ Len(t) = n
         /\ StatusBuffer(t, k) \in Seq({"clean", "flips", "EBADMSG", "EIO"})
         /\ Len(StatusBuffer(t, k)) = n * CW
         /\ DOMAIN StatusBuffer(t, k) = 1 .. n * CW
<1>0. CW \in Nat \ {0} /\ n * CW \in Nat /\ CwSeen \subseteq Conditions
  BY QpicAssumption
<1>1. t \in Seq([Cws -> Conditions]) /\ Len(t) = n
  BY <1>0
<1>2. ASSUME NEW e \in 1 .. n * CW
      PROVE  Report(t[((e - 1) \div CW) + 1][((e - 1) % CW) + 1])
               \in {"clean", "flips", "EBADMSG", "EIO"}
  <2>1. e - 1 \in Nat /\ e - 1 < n * CW
    BY <1>0
  <2>2. /\ e - 1 = (CW * ((e - 1) \div CW)) + ((e - 1) % CW)
        /\ (e - 1) \div CW \in Nat /\ (e - 1) % CW \in 0 .. CW-1
    BY <1>0, <2>1
  <2> DEFINE q == (e - 1) \div CW
             r == (e - 1) % CW
  <2>3. q + 1 \in 1 .. n
    <3> HIDE DEF q, r
    <3>1. q \in Nat /\ r \in 0 .. CW-1 /\ (CW * q) + r < n * CW
      BY <2>1, <2>2 DEF q, r
    <3>2. ~(n <= q)
      <4> SUFFICES ASSUME n <= q PROVE FALSE
        OBVIOUS
      <4>1. n * CW <= CW * q
        BY <1>0, <3>1
      <4> QED BY <1>0, <3>1, <4>1
    <3> QED BY <3>1, <3>2
  <2>4. r + 1 \in Cws
    BY <2>2, <1>0 DEF Cws
  <2>5. t[q + 1][r + 1] \in Conditions
    BY <2>3, <2>4, <1>0
  <2> HIDE DEF q, r
  <2>6. Report(t[q + 1][r + 1]) \in {"clean", "flips", "EBADMSG", "EIO"}
    BY <2>5 DEF Report, Conditions
  <2> QED BY <2>6 DEF q, r
<1> DEFINE s == StatusBuffer(t, k)
<1>3. s = [e \in 1 .. n * CW |->
             IF e <= k THEN Report(t[((e - 1) \div CW) + 1][((e - 1) % CW) + 1])
             ELSE "clean"]
  BY <1>1 DEF StatusBuffer
<1>4. \A e \in 1 .. n * CW : s[e] \in {"clean", "flips", "EBADMSG", "EIO"}
  BY <1>2, <1>3
<1> HIDE DEF s
<1>5. s \in [1 .. n * CW -> {"clean", "flips", "EBADMSG", "EIO"}]
  BY <1>3, <1>4
<1>6. s \in Seq({"clean", "flips", "EBADMSG", "EIO"}) /\ Len(s) = n * CW
  BY <1>0, <1>5
<1> QED BY <1>1, <1>5, <1>6 DEF s

(* Within the batch the loops look at a status there is.                   *)
LEMMA LoopBounds ==
  ASSUME TypeOK, pc = "judge"
  PROVE  /\ page \in 1 .. Len(truth) /\ Len(truth) = Batch /\ Len(truth) \in Nat \ {0}
         /\ cw <= CW =>
              /\ at \in 1 .. Len(status) /\ cw \in Cws
              /\ status[at] \in {"clean", "flips", "EBADMSG", "EIO"}
<1>1. /\ page \in 1 .. Len(truth) /\ Len(truth) = Batch /\ Len(truth) \in Nat \ {0}
      /\ Len(status) = Len(truth) * CW /\ at <= (page - 1) * CW + cw
      /\ at \in Nat \ {0} /\ cw \in 1 .. CW + 1
      /\ status \in Seq({"clean", "flips", "EBADMSG", "EIO"})
  BY QpicAssumption DEF TypeOK
<1>2. ASSUME cw <= CW PROVE cw \in Cws /\ at \in 1 .. Len(status)
  <2>1. cw \in Cws
    BY <1>1, <1>2 DEF Cws
  <2>2. (page - 1) * CW + cw \in 1 .. Len(truth) * CW
    BY <1>1, <2>1, Position
  <2>3. Len(truth) * CW \in Nat
    BY <1>1, QpicAssumption
  <2> QED BY <1>1, <2>1, <2>2, <2>3
<1> QED BY <1>1, <1>2

(* What is left when a page function has returned.                         *)
LEMMA NoLocals ==
  /\ <<NoPage>> \in Seq([Cws -> Conditions])
  /\ <<>> \in Seq({"clean", "flips", "EBADMSG", "EIO"}) /\ Len(<<>>) = 0
  /\ {} \subseteq Cws /\ 1 \in 1 .. CW + 1
BY QpicAssumption DEF NoPage, Conditions

(* Initially nothing is under way.                                         *)
LEMMA InitIInv == Init => IInv
<1> SUFFICES ASSUME Init PROVE IInv
  OBVIOUS
<1>1. TypeOK
  <2>1. /\ truth \in Seq([Cws -> Conditions])
        /\ status \in Seq({"clean", "flips", "EBADMSG", "EIO"})
        /\ at \in 1 .. Len(status) + 1 /\ cw \in 1 .. CW + 1 /\ unc \subseteq Cws
    BY NoLocals DEF Init
  <2>2. pc = "idle" /\ at = 1 /\ page = 1
    BY DEF Init
  <2>3. /\ op \in {"none", "read", "readoob", "erase", "write"} /\ to \in Nat /\ len \in Nat
        /\ left \in Nat /\ retlen \in Nat /\ page \in Nat \ {0}
    BY DEF Init
  <2> QED BY <2>1, <2>2, <2>3, QpicAssumption DEF Init, TypeOK
<1> QED BY <1>1 DEF Init, IInv, CallOK, Delivered, Accounted, Reading, Reads

(* A call starts with what is left to do, and of one that is none.         *)
LEMMA TypeCall ==
  ASSUME TypeOK, CallOK,
         \/ \E t \in 0 .. MaxTo, n \in 1 .. Size : ReadCall(t, n) \/ WriteCall(t, n)
         \/ \E b \in 0 .. Blocks, n \in 1 .. Blocks, s \in BOOLEAN : EraseCall(b, n, s)
         \/ Refuse
  PROVE  TypeOK'
<1> USE QpicAssumption
<1>1. ASSUME NEW t \in 0 .. MaxTo, NEW n \in 1 .. Size, ReadCall(t, n) PROVE TypeOK'
  <2>1. PageCount(t, n) \in Nat \ {0}
    BY PagesOfRequest
  <2> QED BY <1>1, <2>1 DEF ReadCall, readVars, eraseVars, lateVars, TypeOK
<1>2. ASSUME NEW t \in 0 .. MaxTo, NEW n \in 1 .. Size, WriteCall(t, n) PROVE TypeOK'
  <2>1. n \div Unit \in Nat \ {0}
    <3>1. n = Unit * (n \div Unit) + (n % Unit) /\ n \div Unit \in Nat /\ n % Unit = 0
      BY <1>2 DEF WriteCall
    <3> QED BY <3>1
  <2> QED BY <1>2, <2>1 DEF WriteCall, readVars, eraseVars, lateVars, TypeOK
<1>3. ASSUME NEW b \in 0 .. Blocks, NEW n \in 1 .. Blocks, NEW s \in BOOLEAN, EraseCall(b, n, s)
      PROVE  TypeOK'
  <2>1. Block' = b
    BY <1>3 DEF EraseCall, Block
  <2>2. b \in 0 .. Blocks-1
    BY <1>3 DEF EraseCall
  <2> QED BY <1>3, <2>1, <2>2 DEF EraseCall, readVars, lateVars, TypeOK
<1>4. CASE Refuse
  BY <1>4 DEF Refuse, readVars, eraseVars, lateVars, TypeOK
<1> QED BY <1>1, <1>2, <1>3, <1>4

(* The batch just read, and the loops over its statuses.                   *)
LEMMA TypeRead ==
  ASSUME TypeOK, CallOK,
         \/ ReadMulti \/ ReadPage \/ ReadPageOob
         \/ JudgeFine \/ JudgeUncorrectable \/ JudgeFault
  PROVE  TypeOK'
<1> USE QpicAssumption
<1>1. ASSUME NEW n \in Nat \ {0}, Queue(n), n = Batch PROVE TypeOK'
  <2>1. PICK t \in [1 .. n -> [Cws -> CwSeen]], k \in 0 .. n * CW :
          /\ truth' = t /\ status' = StatusBuffer(t, k)
          /\ owed' = (owed \/ Owing(t))
    BY <1>1 DEF Queue
  <2>2. /\ truth' \in Seq([Cws -> Conditions]) /\ Len(truth') = n
        /\ status' \in Seq({"clean", "flips", "EBADMSG", "EIO"})
        /\ Len(status') = n * CW
    BY <2>1, BufferType
  <2>3. /\ op' = op /\ to' = to /\ len' = len /\ left' = left /\ retlen' = retlen
        /\ worst' = worst /\ failed' = failed /\ placed' = placed /\ scrub' = scrub
        /\ bad' = bad /\ erased' = erased /\ unmarked' = unmarked /\ result' = result
        /\ at' = 1 /\ page' = 1 /\ cw' = 1 /\ unc' = {} /\ got' = "clean" /\ pc' = "judge"
        /\ pc = "batch" /\ gaveUp' \in {gaveUp, TRUE} /\ stray' = stray
    BY <1>1 DEF Queue, Waits, eraseVars
  <2>4. Batch' = n
    BY <2>3, <1>1 DEF Batch, Multi
  <2>5. owed' \in BOOLEAN /\ gaveUp' \in BOOLEAN /\ stray' \in BOOLEAN
    BY <2>1, <2>3 DEF TypeOK
  <2>6. page' <= Len(truth') /\ (page' - 1) * CW + cw' >= at' /\ Len(status') = Len(truth') * CW
        /\ at' \in 1 .. Len(status') + 1
    BY <2>2, <2>3
  <2> QED BY <2>2, <2>3, <2>4, <2>5, <2>6 DEF TypeOK
<1>2. CASE ReadMulti
  BY <1>1, <1>2, BatchBounds DEF ReadMulti, Queue, TypeOK
<1>3. CASE ReadPage \/ ReadPageOob
  <2>1. ~Multi /\ left > 0
    BY <1>3 DEF ReadPage, ReadPageOob, Queue, Multi, TypeOK
  <2>2. Batch = 1
    BY <2>1, BatchBounds
  <2> QED BY <1>1, <1>3, <2>2 DEF ReadPage, ReadPageOob
<1>4. CASE JudgeFine \/ JudgeUncorrectable
  <2>1. /\ pc = "judge" /\ cw \in Cws /\ at \in 1 .. Len(status)
        /\ cw' = cw + 1 /\ at' \in {at, at + 1}
    BY <1>4, LoopBounds DEF JudgeFine, JudgeUncorrectable
  <2>2. got' \in {"clean", "flips", "EIO"} /\ unc' \subseteq Cws
    BY <1>4, <2>1 DEF JudgeFine, JudgeUncorrectable, WorseOf, TypeOK
  <2>3. /\ op' = op /\ to' = to /\ len' = len /\ left' = left /\ retlen' = retlen
        /\ worst' = worst /\ failed' = failed /\ placed' = placed /\ scrub' = scrub
        /\ bad' = bad /\ erased' = erased /\ unmarked' = unmarked /\ result' = result
        /\ page' = page /\ pc' = pc /\ truth' = truth /\ status' = status
        /\ owed' = owed /\ gaveUp' = gaveUp /\ stray' = stray
    BY <1>4 DEF JudgeFine, JudgeUncorrectable, eraseVars, lateVars
  <2>4. Batch' = Batch
    BY <2>3 DEF Batch, Multi
  <2>5. /\ (page' - 1) * CW + cw' >= at' /\ cw' \in 1 .. CW + 1 /\ at' \in 1 .. Len(status') + 1
    <3>1. (page - 1) * CW + cw >= at /\ page \in Nat \ {0} /\ at \in Nat
      BY <2>1 DEF TypeOK
    <3>2. (page - 1) * CW \in Nat /\ cw \in 1 .. CW
      BY <3>1, <2>1 DEF Cws
    <3> QED BY <2>1, <2>3, <3>1, <3>2
  <2> QED BY <2>1, <2>2, <2>3, <2>4, <2>5 DEF TypeOK
<1>5. CASE JudgeFault
  BY <1>5 DEF JudgeFault, eraseVars, lateVars, TypeOK
<1> QED BY <1>2, <1>3, <1>4, <1>5

(* The end of a page, and what a page function returns.                    *)
LEMMA TypePage ==
  ASSUME TypeOK, CallOK, PageFine \/ CheckErased \/ CheckErasedFails \/ CopyBatch
  PROVE  TypeOK'
<1> USE QpicAssumption
<1>1. CASE PageFine \/ CheckErased
  <2>1. /\ pc = "judge" /\ page' = page + 1 /\ cw' = 1
        /\ pc' = IF page = Batch THEN "copy" ELSE "judge"
        /\ page \in 1 .. Len(truth) /\ Len(truth) = Batch
    BY <1>1, LoopBounds DEF PageFine, CheckErased, NextPage
  <2>2. /\ op' = op /\ to' = to /\ len' = len /\ left' = left /\ retlen' = retlen
        /\ worst' = worst /\ placed' = placed /\ scrub' = scrub /\ owed' = owed
        /\ bad' = bad /\ erased' = erased /\ unmarked' = unmarked /\ result' = result
        /\ truth' = truth /\ at' = at /\ unc' = unc /\ stray' = stray
        /\ gaveUp' \in {gaveUp, TRUE}
    BY <1>1 DEF PageFine, CheckErased, Waits, eraseVars, lateVars
  <2>3. Batch' = Batch
    BY <2>2 DEF Batch, Multi
  <2>4. /\ status' \in Seq({"clean", "flips", "EBADMSG", "EIO"})
        /\ Len(status') = Len(status)
    <3>1. status \in Seq({"clean", "flips", "EBADMSG", "EIO"})
      BY DEF TypeOK
    <3>2. /\ RawStatus \in Seq({"clean", "flips", "EBADMSG", "EIO"})
          /\ Len(RawStatus) = Len(status)
      BY <3>1 DEF RawStatus
    <3> QED BY <1>1, <3>1, <3>2 DEF PageFine, CheckErased
  <2>5. failed' \in Nat /\ got' \in {"clean", "flips", "EIO"}
    <3>1. NotErased \subseteq Cws /\ unc \subseteq Cws
      BY DEF NotErased, TypeOK
    <3>2. IsFiniteSet(Cws)
      BY FS_Interval DEF Cws
    <3>3. IsFiniteSet(unc) /\ \A X : IsFiniteSet(NotErased \ X)
      <4>1. \A X : NotErased \ X \subseteq Cws
        BY <3>1
      <4> QED BY <3>1, <3>2, <4>1, FS_Subset
    <3>4. Cardinality(unc) \in Nat /\ \A X : Cardinality(NotErased \ X) \in Nat
      BY <3>3, FS_CardinalityType
    <3>5. failed \in Nat /\ got \in {"clean", "flips", "EIO"}
      BY DEF TypeOK
    <3>6. CASE PageFine
      BY <3>6, <3>5 DEF PageFine
    <3>7. CASE CheckErased
      <4>1. got' = WorseOf(got, "flips")
        BY <3>7 DEF CheckErased
      <4>2. ASSUME \E X \in SUBSET {c \in NotErased : truth[page][c] = "fault"} :
                     failed' = failed + Cardinality(NotErased \ X)
            PROVE  failed' \in Nat
        <5>1. PICK X : failed' = failed + Cardinality(NotErased \ X)
          BY <4>2, Zenon
        <5> QED BY <5>1, <3>4, <3>5
      <4>3. ASSUME failed' \in failed .. failed + Cardinality(unc) PROVE failed' \in Nat
        BY <4>3, <3>4, <3>5
      <4>4. failed' \in Nat
        BY <3>7, <4>2, <4>3 DEF CheckErased
      <4> QED BY <4>1, <4>4, <3>5 DEF WorseOf
    <3> QED BY <1>1, <3>6, <3>7
  <2>6. /\ page' \in Nat \ {0} /\ cw' \in 1 .. CW + 1
        /\ pc' = "judge" => page' <= Len(truth') /\ (page' - 1) * CW + cw' >= at'
    <3>1. at <= (page - 1) * CW + cw /\ cw <= CW + 1 /\ at \in Nat
      BY <2>1 DEF TypeOK
    <3>2. (page' - 1) * CW = ((page - 1) * CW) + CW
      BY <2>1
    <3>3. (page - 1) * CW \in Nat /\ cw \in Nat
      BY <2>1 DEF TypeOK
    <3> QED BY <2>1, <2>2, <3>1, <3>2, <3>3
  <2>7. pc' \in {"copy", "judge"} /\ left > 0
    BY <2>1 DEF TypeOK
  <2>8. /\ Len(truth') = Batch' /\ Len(status') = Len(truth') * CW
        /\ at' \in 1 .. Len(status') + 1
    BY <2>1, <2>2, <2>3, <2>4 DEF TypeOK
  <2>9. /\ op' \in {"none", "read", "readoob", "erase", "write"}
        /\ truth' \in Seq([Cws -> Conditions]) /\ unc' \subseteq Cws
        /\ to' \in Nat /\ len' \in Nat /\ left' \in Nat /\ left' > 0 /\ retlen' \in Nat
        /\ worst' \in {"clean", "flips", "EIO"}
    BY <2>2, <2>7 DEF TypeOK
  <2>10. /\ scrub' \in BOOLEAN /\ placed' \in BOOLEAN /\ owed' \in BOOLEAN
         /\ gaveUp' \in BOOLEAN /\ stray' \in BOOLEAN
         /\ bad' \subseteq 0 .. Blocks-1 /\ erased' \subseteq 0 .. Blocks-1
         /\ unmarked' \subseteq 0 .. Blocks-1
         /\ result' \in {"none", "clean", "flips", "EBADMSG", "EIO", "EPERM", "EINVAL"}
    BY <2>2 DEF TypeOK
  <2> QED BY <2>4, <2>5, <2>6, <2>7, <2>8, <2>9, <2>10 DEF TypeOK
<1>2. CASE CheckErasedFails
  BY <1>2 DEF CheckErasedFails, eraseVars, lateVars, TypeOK
<1>3. CASE CopyBatch
  <2>1. left > 0 /\ Batch \in Nat \ {0} /\ Batch <= left /\ DataLen \in Nat
    BY <1>3, BatchBounds DEF CopyBatch, TypeOK
  <2>2. /\ retlen' \in Nat /\ left' \in Nat /\ pc' \in {"return", "batch"}
        /\ pc' = "batch" => left' > 0
    BY <1>3, <2>1 DEF CopyBatch, TypeOK
  <2>3. /\ worst' \in {"clean", "flips", "EIO"} /\ placed' \in BOOLEAN
        /\ result' \in {"clean", "flips", "EBADMSG", "EIO"}
    BY <1>3 DEF CopyBatch, WorseOf, TypeOK
  <2>4. /\ truth' = <<NoPage>> /\ status' = <<>> /\ at' = 1 /\ page' = 1 /\ cw' = 1
        /\ unc' = {} /\ got' = "clean"
    BY <1>3 DEF CopyBatch, DropLocals
  <2>5. /\ op' = op /\ to' = to /\ len' = len /\ failed' = failed /\ owed' = owed
        /\ scrub' = scrub /\ bad' = bad /\ erased' = erased /\ unmarked' = unmarked
        /\ gaveUp' = gaveUp /\ stray' = stray
    BY <1>3 DEF CopyBatch, eraseVars, lateVars
  <2> QED BY <2>2, <2>3, <2>4, <2>5, NoLocals DEF TypeOK
<1> QED BY <1>1, <1>2, <1>3

(* Erases and writes, and the end of a call.                               *)
LEMMA TypeRest ==
  ASSUME TypeOK, CallOK,
         \/ EraseRefused \/ EraseDone \/ EraseFailed
         \/ WritePage \/ WriteFails \/ Return
  PROVE  TypeOK'
<1> USE QpicAssumption
<1>1. CASE EraseDone \/ EraseFailed
  <2>1. /\ pc = "erase" /\ left > 0 /\ Block \in 0 .. Blocks-1
        /\ left' = left - 1 /\ pc' = IF left = 1 THEN "return" ELSE "erase"
        /\ to + len <= Blocks /\ left <= len
    BY <1>1 DEF EraseDone, EraseFailed, EraseAllowed, NextBlock, TypeOK, CallOK
  <2>2. /\ op' = op /\ to' = to /\ len' = len /\ retlen' = retlen
        /\ truth' = truth /\ status' = status /\ at' = at /\ page' = page /\ cw' = cw
        /\ unc' = unc /\ got' = got /\ worst' = worst /\ failed' = failed
        /\ placed' = placed /\ owed' = owed /\ scrub' = scrub
        /\ gaveUp' \in {gaveUp, TRUE} /\ stray' = stray
    BY <1>1 DEF EraseDone, EraseFailed, EraseAllowed, Waits, readVars
  <2>3. /\ bad' \subseteq 0 .. Blocks-1 /\ erased' \subseteq 0 .. Blocks-1
        /\ unmarked' \subseteq 0 .. Blocks-1 /\ result' \in {"clean", "EIO"}
    BY <1>1, <2>1 DEF EraseDone, EraseFailed, BadAfter, ErasedAfter, TypeOK
  <2>4. pc' = "erase" => Block' \in 0 .. Blocks-1
    BY <2>1, <2>2 DEF Block, TypeOK
  <2>5. gaveUp' \in BOOLEAN /\ stray' \in BOOLEAN
    BY <2>2 DEF TypeOK
  <2> QED BY <2>1, <2>2, <2>3, <2>4, <2>5 DEF TypeOK
<1>2. CASE EraseRefused
  <2>1. gaveUp' \in BOOLEAN /\ stray' \in BOOLEAN
    BY <1>2 DEF EraseRefused, Waits, TypeOK
  <2> QED BY <1>2, <2>1 DEF EraseRefused, readVars, eraseVars, TypeOK
<1>3. CASE WritePage
  <2>1. retlen' \in Nat /\ left' \in Nat /\ (pc' = "write" => left' > 0)
    BY <1>3 DEF WritePage, TypeOK
  <2>2. gaveUp' \in BOOLEAN
    BY <1>3 DEF WritePage, Waits, TypeOK
  <2> QED BY <1>3, <2>1, <2>2 DEF WritePage, readVars, eraseVars, TypeOK
<1>4. CASE WriteFails
  <2>1. gaveUp' \in BOOLEAN
    BY <1>4 DEF WriteFails, Waits, TypeOK
  <2> QED BY <1>4, <2>1 DEF WriteFails, readVars, eraseVars, TypeOK
<1>5. CASE Return
  <2>1. /\ truth' = <<NoPage>> /\ status' = <<>> /\ at' = 1 /\ page' = 1 /\ cw' = 1
        /\ unc' = {} /\ got' = "clean"
    BY <1>5 DEF Return, DropLocals
  <2>2. /\ truth' \in Seq([Cws -> Conditions])
        /\ status' \in Seq({"clean", "flips", "EBADMSG", "EIO"})
        /\ at' \in 1 .. Len(status') + 1 /\ cw' \in 1 .. CW + 1 /\ unc' \subseteq Cws
    BY <2>1, NoLocals
  <2>3. pc' = "idle" /\ bad' \subseteq 0 .. Blocks-1
    BY <1>5 DEF Return, TypeOK
  <2>4. /\ op' = "none" /\ to' = 0 /\ len' = 0 /\ left' = 0 /\ retlen' = 0
        /\ worst' = "clean" /\ failed' = 0 /\ placed' = TRUE /\ owed' = FALSE
        /\ scrub' = FALSE /\ erased' = {} /\ unmarked' = {}
        /\ result' = "none"
    BY <1>5 DEF Return
  <2>5. scrub' \in BOOLEAN /\ placed' \in BOOLEAN /\ owed' \in BOOLEAN
    BY <1>5, Zenon DEF Return
  <2>8. gaveUp' \in BOOLEAN /\ stray' \in BOOLEAN
    BY <1>5 DEF Return, lateVars, TypeOK
  <2>6. /\ page' \in Nat \ {0} /\ got' = "clean"
        /\ to' \in Nat /\ len' \in Nat /\ left' \in Nat /\ retlen' \in Nat /\ failed' \in Nat
        /\ erased' \subseteq 0 .. Blocks-1 /\ unmarked' \subseteq 0 .. Blocks-1
    BY <2>1, <2>4
  <2>7. op' = "none" /\ worst' = "clean" /\ result' = "none"
    BY <2>4
  <2> QED BY <2>2, <2>3, <2>5, <2>6, <2>7, <2>8 DEF TypeOK
<1> QED BY <1>1, <1>2, <1>3, <1>4, <1>5

(* Every step keeps the types.                                             *)
LEMMA TypeStep == TypeOK /\ CallOK /\ [Next]_vars => TypeOK'
<1> SUFFICES ASSUME TypeOK, CallOK, [Next]_vars PROVE TypeOK'
  OBVIOUS
<1>1. CASE UNCHANGED vars
  BY <1>1 DEF vars, readVars, eraseVars, lateVars, TypeOK, Batch, Multi, Block
<1> QED BY <1>1, TypeCall, TypeRead, TypePage, TypeRest DEF Next

(* Every step keeps the call it belongs to.                                *)
LEMMA CallStep == TypeOK /\ CallOK /\ [Next]_vars => CallOK'
<1> SUFFICES ASSUME TypeOK, CallOK, [Next]_vars PROVE CallOK'
  OBVIOUS
<1> USE DEF CallOK, Reading, Reads
<1>1. ASSUME NEW t \in 0 .. MaxTo, NEW n \in 1 .. Size, ReadCall(t, n) \/ WriteCall(t, n)
      PROVE  CallOK'
  BY <1>1, QpicAssumption DEF ReadCall, WriteCall, readVars
<1>2. ASSUME NEW b \in 0 .. Blocks, NEW n \in 1 .. Blocks, NEW s \in BOOLEAN, EraseCall(b, n, s)
      PROVE  CallOK'
  BY <1>2, QpicAssumption DEF EraseCall, readVars
<1>3. CASE ReadMulti \/ ReadPage \/ ReadPageOob
  BY <1>3 DEF ReadMulti, ReadPage, ReadPageOob, Queue
<1>4. CASE JudgeFine \/ JudgeUncorrectable \/ JudgeFault
  BY <1>4 DEF JudgeFine, JudgeUncorrectable, JudgeFault
<1>5. CASE PageFine \/ CheckErased \/ CheckErasedFails
  BY <1>5 DEF PageFine, CheckErased, CheckErasedFails, NextPage
<1>6. CASE CopyBatch
  BY <1>6 DEF CopyBatch
<1>7. CASE EraseRefused \/ EraseDone \/ EraseFailed
  BY <1>7 DEF EraseRefused, EraseDone, EraseFailed, EraseAllowed, NextBlock, readVars, TypeOK
<1>8. CASE WritePage \/ WriteFails \/ Refuse \/ Return
  BY <1>8 DEF WritePage, WriteFails, Refuse, Return, readVars
<1>9. CASE UNCHANGED vars
  BY <1>9 DEF vars, readVars
<1> QED BY <1>1, <1>2, <1>3, <1>4, <1>5, <1>6, <1>7, <1>8, <1>9 DEF Next

(* What a batch adds to the data read: its pages, when the request is of   *)
(* whole pages, and all there is, when it ends in the page it starts in.   *)
LEMMA CopyCounts ==
  ASSUME TypeOK, CallOK, Delivered, pc = "copy"
  PROVE  /\ WholePages => /\ DataLen = Batch * Unit /\ Column = 0
                          /\ Remaining >= Batch * Unit
         /\ OnePage => DataLen = len /\ Batch = 1 /\ ~Multi
<1> USE QpicAssumption
<1>1. /\ left \in Nat \ {0} /\ len \in Nat \ {0} /\ to \in Nat /\ retlen \in Nat
      /\ Unit \in Nat \ {0}
  BY DEF TypeOK, CallOK, Reading
<1>2. Batch \in Nat \ {0} /\ Batch <= left /\ (~Multi => Batch = 1)
  BY <1>1, BatchBounds
<1>3. ASSUME WholePages
      PROVE  DataLen = Batch * Unit /\ Column = 0 /\ Remaining >= Batch * Unit
  <2>1. retlen + left * Unit = len
    BY <1>3 DEF Delivered, Reading
  <2>2. Column = 0
    BY <1>3 DEF Column, WholePages
  <2>3. left * Unit \in Nat /\ Batch * Unit <= left * Unit /\ Unit <= Batch * Unit
    BY <1>1, <1>2
  <2>4. Remaining = left * Unit
    BY <1>1, <2>1, <2>3 DEF Remaining
  <2>5. CASE Multi
    BY <2>2, <2>3, <2>4, <2>5 DEF DataLen
  <2>6. CASE ~Multi
    <3>1. Batch * Unit = Unit /\ Remaining >= Unit
      BY <1>1, <1>2, <2>3, <2>4, <2>6
    <3> QED BY <2>2, <2>6, <3>1 DEF DataLen
  <2> QED BY <2>5, <2>6
<1>4. ASSUME OnePage PROVE DataLen = len /\ Batch = 1 /\ ~Multi
  <2>1. left = 1 /\ retlen = 0
    BY <1>4 DEF Delivered, Reading
  <2>2. ~Multi /\ Batch = 1
    BY <2>1, <1>2 DEF Multi
  <2>3. (to % Unit) + len <= Unit
    BY <1>1, <1>4, PagesOfRequest DEF OnePage
  <2>4. Column = to % Unit /\ Remaining = len /\ Column \in Nat
    BY <1>1, <2>1 DEF Column, Remaining
  <2> QED BY <1>1, <2>2, <2>3, <2>4 DEF DataLen, LessOf
<1> QED BY <1>3, <1>4

(* Every step keeps count of what was read.                                *)
LEMMA DeliveredStep == TypeOK /\ CallOK /\ Delivered /\ [Next]_vars => Delivered'
<1> SUFFICES ASSUME TypeOK, CallOK, Delivered, [Next]_vars PROVE Delivered'
  OBVIOUS
<1> USE DEF Reading, Reads
<1>1. ASSUME NEW t \in 0 .. MaxTo, NEW n \in 1 .. Size, ReadCall(t, n) PROVE Delivered'
  <2>1. /\ PageCount(t, n) \in Nat \ {0}
        /\ t % Unit = 0 /\ n % Unit = 0 => PageCount(t, n) * Unit = n
    BY PagesOfRequest, QpicAssumption
  <2>2. /\ to' = t /\ len' = n /\ left' = PageCount(t, n) /\ pc' = "batch"
        /\ retlen' = 0 /\ placed'
    BY <1>1 DEF ReadCall, readVars, CallOK
  <2>3. PageCount(t, n) * Unit \in Nat
    BY <2>1, QpicAssumption
  <2> QED BY <2>1, <2>2, <2>3 DEF Delivered, WholePages, OnePage
<1>2. ASSUME NEW t \in 0 .. MaxTo, NEW n \in 1 .. Size, WriteCall(t, n) PROVE Delivered'
  BY <1>2 DEF WriteCall, readVars, Delivered
<1>3. ASSUME NEW b \in 0 .. Blocks, NEW n \in 1 .. Blocks, NEW s \in BOOLEAN, EraseCall(b, n, s)
      PROVE  Delivered'
  BY <1>3 DEF EraseCall, readVars, Delivered
<1>4. ASSUME UNCHANGED <<op, to, len, left, retlen, placed>>, Reading, Reading'
      PROVE  Delivered'
  BY <1>4 DEF Delivered, WholePages, OnePage
<1>5. CASE ReadMulti \/ ReadPage \/ ReadPageOob
  BY <1>4, <1>5 DEF ReadMulti, ReadPage, ReadPageOob, Queue
<1>6. CASE JudgeFine \/ JudgeUncorrectable \/ JudgeFault
  BY <1>4, <1>6 DEF JudgeFine, JudgeUncorrectable, JudgeFault
<1>7. CASE PageFine \/ CheckErased \/ CheckErasedFails
  BY <1>4, <1>7 DEF PageFine, CheckErased, CheckErasedFails, NextPage
<1>8. CASE CopyBatch
  <2>1. /\ pc = "copy" /\ op' = op /\ to' = to /\ len' = len
        /\ retlen' = retlen + DataLen /\ left' = left - Batch
        /\ placed' = (placed /\ (Multi => Column = 0 /\ Remaining >= Batch * Unit))
        /\ pc' = IF left = Batch THEN "return" ELSE "batch"
    BY <1>8 DEF CopyBatch
  <2>2. left \in Nat /\ retlen \in Nat /\ len \in Nat /\ Batch \in Nat /\ Unit \in Nat /\ op \in Reads
    BY <2>1, BatchBounds, QpicAssumption DEF TypeOK, CallOK
  <2>3. WholePages' = WholePages /\ OnePage' = OnePage
    BY <2>1 DEF WholePages, OnePage
  <2>4. WholePages \/ OnePage => placed'
    BY <2>1, <2>2, CopyCounts DEF Delivered
  <2>5. ASSUME WholePages PROVE retlen' + left' * Unit = len' /\ (left = Batch => retlen' = len')
    <3>1. retlen + left * Unit = len /\ DataLen = Batch * Unit
      BY <2>1, <2>5, CopyCounts DEF Delivered
    <3>2. (left - Batch) * Unit = (left * Unit) - (Batch * Unit)
      BY <2>2
    <3>3. left * Unit \in Nat /\ Batch * Unit \in Nat
      BY <2>2
    <3> QED BY <2>1, <2>2, <3>1, <3>2, <3>3
  <2>6. ASSUME OnePage PROVE left = Batch /\ retlen' = len'
    <3>1. left = 1 /\ retlen = 0 /\ DataLen = len /\ Batch = 1
      BY <2>1, <2>6, CopyCounts DEF Delivered
    <3> QED BY <2>1, <2>2, <3>1
  <2> QED BY <2>1, <2>3, <2>4, <2>5, <2>6 DEF Delivered
<1>9. CASE EraseRefused \/ EraseDone \/ EraseFailed \/ WritePage \/ WriteFails \/ Refuse
  BY <1>9 DEF EraseRefused, EraseDone, EraseFailed, EraseAllowed, NextBlock, WritePage,
     WriteFails, Refuse, readVars, CallOK, Delivered
<1>10. CASE Return
  BY <1>10 DEF Return, Delivered
<1>11. CASE UNCHANGED vars
  BY <1>11 DEF vars, readVars, Delivered, WholePages, OnePage
<1> QED
  BY <1>1, <1>2, <1>3, <1>5, <1>6, <1>7, <1>8, <1>9, <1>10, <1>11 DEF Next

(* The worst of two results is an error when either is.                    *)
LEMMA WorstIsError ==
  ASSUME NEW a, NEW b, a = "EIO" \/ b = "EIO"
  PROVE  WorseOf(a, b) = "EIO"
BY DEF WorseOf

(* No wait gave up before when none has by now.                            *)
LEMMA NoneGaveUp ==
  ASSUME TypeOK, Waits, ~gaveUp'
  PROVE  ~gaveUp
<1> SUFFICES ASSUME gaveUp PROVE FALSE
  OBVIOUS
<1>1. gaveUp = TRUE
  BY DEF TypeOK
<1>2. gaveUp' = TRUE
  BY <1>1 DEF Waits
<1> QED BY <1>2

(* What the controller leaves is the report on every codeword it has       *)
(* finished.                                                               *)
LEMMA BufferFaithful ==
  ASSUME NEW n \in Nat \ {0}, NEW t \in [1 .. n -> [Cws -> CwSeen]],
         NEW p \in 1 .. n, NEW c \in Cws, NEW k \in Nat
  PROVE  StatusBuffer(t, k)[(p - 1) * CW + c] =
           IF (p - 1) * CW + c <= k THEN Report(t[p][c]) ELSE "clean"
<1>0. n \in Nat
  OBVIOUS
<1>1. /\ ((p - 1) * CW) + c \in 1 .. n * CW
      /\ (((((p - 1) * CW) + c) - 1) \div CW) + 1 = p
      /\ (((((p - 1) * CW) + c) - 1) % CW) + 1 = c
  <2>1. ((p - 1) * CW) + c \in 1 .. n * CW
    BY ONLY <1>0, p \in 1 .. n, c \in Cws, Position, ZenonT(30)
  <2>2. (((((p - 1) * CW) + c) - 1) \div CW) + 1 = p
    BY ONLY <1>0, p \in 1 .. n, c \in Cws, Position, ZenonT(30)
  <2>3. (((((p - 1) * CW) + c) - 1) % CW) + 1 = c
    BY ONLY <1>0, p \in 1 .. n, c \in Cws, Position, ZenonT(60)
  <2> QED BY <2>1, <2>2, <2>3, Zenon
<1>2. Len(t) = n
  BY BufferType
<1>3. n * CW \in Nat
  BY <1>0, QpicAssumption
<1>4. ASSUME NEW e \in 1 .. n * CW
      PROVE  StatusBuffer(t, k)[e] =
               IF e <= k THEN Report(t[((e - 1) \div CW) + 1][((e - 1) % CW) + 1]) ELSE "clean"
  BY <1>2 DEF StatusBuffer
<1> QED BY <1>1, <1>4

(* The loops pass over nothing but what was fine.                          *)
LEMMA FaithfulLoop ==
  ASSUME TypeOK, pc = "judge", Faithful, JudgeFine \/ JudgeUncorrectable
  PROVE  Faithful'
<1>1. /\ page \in 1 .. Len(truth) /\ DOMAIN truth = 1 .. Len(truth)
      /\ cw \in Cws /\ cw \in Nat \ {0} /\ CW \in Nat \ {0}
      /\ truth[page][cw] \in Conditions
  <2>1. page \in 1 .. Len(truth) /\ truth \in Seq([Cws -> Conditions])
    BY LoopBounds DEF TypeOK
  <2>2. cw \in Cws
    BY LoopBounds DEF JudgeFine, JudgeUncorrectable
  <2> QED BY <2>1, <2>2, QpicAssumption DEF Cws
<1>2. UNCHANGED <<truth, status, page, op, left>> /\ cw' = cw + 1 /\ Multi' = Multi
  BY DEF JudgeFine, JudgeUncorrectable, Multi
<1>7. \A c : Awaited(c)' = Awaited(c)
  BY <1>2 DEF Awaited
<1>3. \A c \in 1 .. cw'-1 : c \in 1 .. cw-1 \/ c = cw
  BY <1>1, <1>2
<1>4. (page - 1) * CW \in Nat
  BY <1>1
<1>5. CASE unc = {} \/ ~Multi
  <2>1. at = (page - 1) * CW + cw
    BY <1>5 DEF Faithful
  <2>2. \/ status[at] = Report(truth[page][cw])
        \/ ~Awaited(cw) /\ status[at] = "clean"
    BY <1>1, <2>1 DEF Faithful
  <2>3. CASE JudgeFine
    <3>1. unc' = unc /\ at' = at + 1 /\ status[at] \in {"clean", "flips"}
      BY <2>3 DEF JudgeFine
    <3>2. truth[page][cw] \in Fine \/ ~Awaited(cw)
      BY <2>2, <3>1, <1>1 DEF Report, Conditions, Fine
    <3>3. at' = (page' - 1) * CW + cw'
      BY <1>1, <1>2, <1>4, <2>1, <3>1
    <3> QED BY <1>1, <1>2, <1>3, <1>5, <1>7, <3>1, <3>2, <3>3 DEF Faithful
  <2>4. CASE JudgeUncorrectable
    <3>1. /\ unc' = unc \cup {cw} /\ at' = (IF Multi THEN at ELSE at + 1)
          /\ status[at] = "EBADMSG"
      BY <2>4 DEF JudgeUncorrectable
    <3>2. truth[page][cw] \in {"weak", "lost"}
      BY <2>2, <3>1, <1>1 DEF Report, Conditions
    <3>3. ~Multi => at' = (page' - 1) * CW + cw'
      BY <1>1, <1>2, <1>4, <2>1, <3>1
    <3>4. unc' \subseteq 1 .. cw'-1
      BY <1>1, <1>2, <3>1 DEF Faithful
    <3>5. Multi => status'[at'] = "EBADMSG"
      BY <1>2, <3>1
    <3> QED BY <1>1, <1>2, <1>3, <1>7, <3>1, <3>2, <3>3, <3>4, <3>5 DEF Faithful
  <2> QED BY <2>3, <2>4
<1>6. CASE unc # {} /\ Multi
  <2>1. status[at] = "EBADMSG"
    BY <1>6 DEF Faithful
  <2>2. unc' = unc \cup {cw} /\ at' = at
    BY <1>6, <2>1 DEF JudgeFine, JudgeUncorrectable
  <2>3. unc' \subseteq 1 .. cw'-1
    BY <1>1, <1>2, <2>2 DEF Faithful
  <2> QED BY <1>1, <1>2, <1>3, <1>6, <1>7, <2>1, <2>2, <2>3 DEF Faithful
<1> QED BY <1>5, <1>6

(* At the end of a page without an uncorrectable codeword all of it whose  *)
(* statuses are waited for was fine.                                       *)
LEMMA FaithfulPage ==
  ASSUME TypeOK, Faithful, PageFine
  PROVE  /\ pc' = "judge" => Faithful'
         /\ pc' = "copy" => ~Owing(truth)
<1>1. /\ page \in 1 .. Len(truth) /\ Len(truth) = Batch /\ CW \in Nat \ {0}
      /\ cw = CW + 1 /\ unc = {} /\ DOMAIN truth = 1 .. Len(truth) /\ Len(truth) \in Nat
      /\ pc' = IF page = Batch THEN "copy" ELSE "judge"
  <2>1. pc = "judge" /\ cw > CW /\ unc = {} /\ pc' = IF page = Batch THEN "copy" ELSE "judge"
    BY DEF PageFine, NextPage
  <2>2. cw \in 1 .. CW + 1 /\ truth \in Seq([Cws -> Conditions]) /\ CW \in Nat \ {0}
    BY QpicAssumption DEF TypeOK
  <2> QED BY <2>1, <2>2, LoopBounds
<1>2. \A c \in Cws : truth[page][c] \in Fine \/ ~Awaited(c)
  BY <1>1 DEF Faithful, Cws
<1>3. \A p \in 1 .. page, c \in Cws : truth[p][c] \in Fine \/ ~Awaited(c)
  <2>1. \A p \in 1 .. page : p \in 1 .. page-1 \/ p = page
    BY <1>1
  <2> QED BY <1>2, <2>1 DEF Faithful
<1>4. ASSUME pc' = "copy" PROVE ~Owing(truth)
  <2>1. page = Len(truth)
    BY <1>1, <1>4
  <2> QED BY <1>1, <1>3, <2>1 DEF Owing, Fine
<1>5. ASSUME pc' = "judge" PROVE Faithful'
  <2>1. /\ page' = page + 1 /\ cw' = 1 /\ unc' = {} /\ at' = at
        /\ UNCHANGED <<truth, status, op, left>>
    BY <1>1 DEF PageFine, NextPage
  <2>2. at = (page - 1) * CW + CW + 1
    <3>1. at = (page - 1) * CW + cw
      BY <1>1 DEF Faithful
    <3>2. (page - 1) * CW \in Nat
      BY <1>1
    <3> QED BY <1>1, <3>1, <3>2
  <2>3. (page' - 1) * CW + cw' = (page - 1) * CW + CW + 1
    BY <1>1, <2>1
  <2>4. page' - 1 = page /\ 1 .. cw'-1 = {}
    BY <1>1, <2>1
  <2>8. \A c : Awaited(c)' = Awaited(c)
    BY <2>1 DEF Awaited
  <2>5. \A p \in 1 .. page'-1, c \in Cws : truth'[p][c] \in Fine \/ ~Awaited(c)'
    BY <2>1, <2>4, <2>8, <1>3
  <2>6. \A p \in DOMAIN truth', c \in Cws :
          \/ status'[(p - 1) * CW + c] = Report(truth'[p][c])
          \/ ~Awaited(c)' /\ status'[(p - 1) * CW + c] = "clean"
    BY <2>1, <2>8 DEF Faithful
  <2>7. /\ \A c \in 1 .. cw'-1 : truth'[page'][c] \in Fine \/ c \in unc'
        /\ unc' \subseteq 1 .. cw'-1
        /\ at' = (page' - 1) * CW + cw'
    BY <2>1, <2>2, <2>3, <2>4
  <2> QED BY <2>1, <2>5, <2>6, <2>7 DEF Faithful
<1> QED BY <1>4, <1>5

(* Reading a page again takes nothing from the count, and where no wait     *)
(* gave up it counts every codeword that is lost.                          *)
LEMMA LostCounted ==
  ASSUME TypeOK, CheckErased, ~gaveUp', ~stray
  PROVE  /\ failed' \in Nat /\ failed' >= failed
         /\ \A c \in Cws \ {CW} : truth[page][c] # "fault"
         /\ (\E c \in unc : truth[page][c] = "lost") => failed' > 0
<1>1. PICK X \in SUBSET {c \in NotErased : truth[page][c] = "fault"} :
        failed' = failed + Cardinality(NotErased \ X)
  BY DEF CheckErased
<1>2. NotErased \ X \subseteq Cws
  BY DEF NotErased, TypeOK
<1>3. IsFiniteSet(Cws)
  BY FS_Interval, QpicAssumption DEF Cws
<1>4. IsFiniteSet(NotErased \ X)
  BY <1>2, <1>3, FS_Subset
<1>5. Cardinality(NotErased \ X) \in Nat
  BY <1>4, FS_CardinalityType
<1>6. (\E c \in unc : truth[page][c] = "lost") => NotErased \ X # {}
  BY DEF NotErased
<1>7. NotErased \ X # {} => Cardinality(NotErased \ X) # 0
  BY <1>4, FS_EmptySet
<1>8. failed \in Nat
  BY DEF TypeOK
<1>9. \A c \in Cws \ {CW} : truth[page][c] # "fault"
  BY DEF CheckErased
<1> QED BY <1>1, <1>5, <1>6, <1>7, <1>8, <1>9

(* When a page has been read again either a codeword of it was counted     *)
(* failed, or it hides the statuses behind it.                             *)
LEMMA CountedOrHidden ==
  ASSUME TypeOK, Faithful, CheckErased, ~gaveUp', ~stray
  PROVE  failed' > 0 \/ ~Owing(truth)
<1>1. /\ page \in 1 .. Len(truth) /\ CW \in Nat \ {0} /\ cw = CW + 1
      /\ DOMAIN truth = 1 .. Len(truth) /\ Len(truth) \in Nat
      /\ unc # {} /\ unc \subseteq Cws
      /\ \A c \in Cws \ {CW} : truth[page][c] # "fault"
  <2>1. pc = "judge" /\ cw > CW /\ unc # {}
    BY DEF CheckErased
  <2>2. /\ cw \in 1 .. CW + 1 /\ truth \in Seq([Cws -> Conditions]) /\ CW \in Nat \ {0}
        /\ unc \subseteq Cws
    BY QpicAssumption DEF TypeOK
  <2>3. \A c \in Cws \ {CW} : truth[page][c] # "fault"
    BY LostCounted
  <2>4. page \in 1 .. Len(truth) /\ Len(truth) \in Nat
    BY <2>1, LoopBounds
  <2>5. DOMAIN truth = 1 .. Len(truth)
    BY <2>2
  <2> QED BY <2>1, <2>2, <2>3, <2>4, <2>5
<1>2. \A c \in Cws : truth[page][c] \in Fine \/ c \in unc \/ ~Awaited(c)
  <2>1. 1 .. cw-1 = Cws
    BY <1>1 DEF Cws
  <2> QED BY <2>1, Zenon DEF Faithful
<1>3. CASE \E c \in unc : truth[page][c] = "lost"
  BY <1>3, LostCounted
<1>4. CASE \A c \in unc : truth[page][c] # "lost"
  <2>1. \E d \in Cws : truth[page][d] = "weak"
    BY <1>1, <1>4 DEF Faithful
  <2>2. ASSUME NEW p \in DOMAIN truth, p > page, NEW c \in Cws PROVE Hidden(truth, p, c)
    <3>1. page \in 1 .. p-1
      BY <1>1, <2>2
    <3> QED BY <2>1, <3>1 DEF Hidden
  <2>3. ASSUME NEW c \in Cws, Awaited(c), truth[page][c] \in {"lost", "fault"}
        PROVE  Hidden(truth, page, c)
    <3>1. c \in unc
      BY <1>2, <2>3 DEF Fine
    <3>2. truth[page][c] = "fault" /\ c = CW
      BY <1>1, <1>4, <2>3, <3>1
    <3>3. Multi
      BY <3>1, <3>2 DEF Faithful
    <3> QED BY <2>1, <3>2, <3>3 DEF Hidden
  <2>4. ASSUME NEW p \in DOMAIN truth, p < page, NEW c \in Cws, Awaited(c)
        PROVE  truth[p][c] \notin {"lost", "fault"}
    <3>1. p \in 1 .. page-1
      BY <1>1, <2>4
    <3> QED BY <2>4, <3>1 DEF Faithful, Fine
  <2>5. \A p \in DOMAIN truth : p > page \/ p = page \/ p < page
    BY <1>1
  <2> QED BY <2>2, <2>3, <2>4, <2>5 DEF Owing
<1> QED BY <1>3, <1>4

(* The statuses that are there when the wait for a batch is over, if no    *)
(* wait gave up and none was left out, are all that are waited for.        *)
LEMMA QueueFaithful ==
  ASSUME TypeOK, NEW n \in Nat \ {0}, NEW t \in [1 .. n -> [Cws -> CwSeen]], NEW k,
         k = n * CW \/ (op = "readoob" /\ k = n * CW - 1),
         NEW p \in 1 .. n, NEW c \in Cws
  PROVE  \/ StatusBuffer(t, k)[(p - 1) * CW + c] = Report(t[p][c])
         \/ ~Awaited(c) /\ StatusBuffer(t, k)[(p - 1) * CW + c] = "clean"
<1> DEFINE e == (p - 1) * CW + c
<1>0. CW \in Nat \ {0} /\ n * CW \in Nat \ {0} /\ p \in Nat \ {0} /\ c \in Nat \ {0}
  BY QpicAssumption DEF Cws
<1>1. k \in Nat
  BY <1>0
<1>2. e \in 1 .. n * CW
  BY <1>0, Position
<1>3. StatusBuffer(t, k)[e] = IF e <= k THEN Report(t[p][c]) ELSE "clean"
  BY <1>1, BufferFaithful
<1>4. ASSUME ~(e <= k) PROVE ~Awaited(c)
  <2>1. op = "readoob" /\ e = n * CW
    <3> HIDE DEF e
    <3> QED BY <1>0, <1>1, <1>2, <1>4
  <2>2. (n - 1) * CW + CW = n * CW
    BY <1>0
  <2>3. CW \in Cws /\ n \in 1 .. n /\ n \in Nat
    BY <1>0 DEF Cws
  <2>4. ((((n - 1) * CW + CW) - 1) % CW) + 1 = CW
    BY ONLY <2>3, Position, ZenonT(60)
  <2>5. ((((p - 1) * CW + c) - 1) % CW) + 1 = c
    BY ONLY <2>3, p \in 1 .. n, c \in Cws, Position, ZenonT(60)
  <2>6. c = CW
    BY <2>1, <2>2, <2>4, <2>5
  <2> QED BY <2>1, <2>6 DEF Awaited
<1> QED BY <1>3, <1>4

(* A batch just read stands before the loops as the flash has it, unless   *)
(* a wait gave up.                                                         *)
LEMMA QueueAccounts ==
  ASSUME TypeOK, Accounted, NEW n \in Nat \ {0}, Queue(n)
  PROVE  Accounted'
<1>1. PICK t \in [1 .. n -> [Cws -> CwSeen]], k \in 0 .. n * CW :
        /\ k = n * CW \/ gaveUp' \/ (op = "readoob" /\ (stray \/ k = n * CW - 1))
        /\ truth' = t /\ status' = StatusBuffer(t, k)
        /\ owed' = (owed \/ Owing(t))
  BY DEF Queue
<1>2. /\ pc = "batch" /\ pc' = "judge" /\ failed' = failed /\ worst' = worst
      /\ at' = 1 /\ page' = 1 /\ cw' = 1 /\ unc' = {} /\ op' = op /\ left' = left
      /\ stray' = stray /\ gaveUp' \in {gaveUp, TRUE}
  BY DEF Queue, Waits
<1>3. ASSUME ~gaveUp', ~stray PROVE Faithful'
  <2>1. k = n * CW \/ (op = "readoob" /\ k = n * CW - 1)
    BY <1>1, <1>3
  <2>2. DOMAIN t = 1 .. n
    OBVIOUS
  <2>3. \A p \in 1 .. n, c \in Cws :
          \/ StatusBuffer(t, k)[(p - 1) * CW + c] = Report(t[p][c])
          \/ ~Awaited(c) /\ StatusBuffer(t, k)[(p - 1) * CW + c] = "clean"
    BY <2>1, QueueFaithful
  <2>4. \A c : Awaited(c)' = Awaited(c)
    BY <1>2 DEF Awaited
  <2>5. \A p \in DOMAIN truth', c \in Cws :
          \/ status'[(p - 1) * CW + c] = Report(truth'[p][c])
          \/ ~Awaited(c)' /\ status'[(p - 1) * CW + c] = "clean"
    BY <1>1, <2>2, <2>3, <2>4
  <2>6. (page' - 1) * CW + cw' = 1 /\ 1 .. page'-1 = {} /\ 1 .. cw'-1 = {}
    BY <1>2, QpicAssumption
  <2> QED BY <1>2, <2>5, <2>6 DEF Faithful
<1>4. CASE gaveUp' \/ stray
  BY <1>2, <1>4 DEF Accounted
<1>5. CASE ~gaveUp' /\ ~stray
  <2>1. ~gaveUp
    BY <1>2, <1>5
  <2>2. owed => Caught'
    BY <1>2, <1>5, <2>1 DEF Accounted, Caught
  <2>3. Owing(t) = Owing(truth)'
    BY <1>1, <1>2 DEF Owing, Awaited, Hidden, Multi
  <2>4. owed' => owed \/ Owing(truth)'
    BY <1>1, <2>3
  <2> QED BY <1>2, <1>3, <1>5, <2>2, <2>4 DEF Accounted
<1> QED BY <1>4, <1>5

(* Every step keeps account of the errors that were read.                  *)
LEMMA AccountedStep == TypeOK /\ CallOK /\ Accounted /\ [Next]_vars => Accounted'
<1> SUFFICES ASSUME TypeOK, CallOK, Accounted, [Next]_vars PROVE Accounted'
  OBVIOUS
<1>13. UNCHANGED <<op, left, truth>> => Owing(truth)' = Owing(truth)
  BY DEF Owing, Awaited, Hidden, Multi
<1>1. CASE ReadMulti \/ ReadPage \/ ReadPageOob
  <2>1. Batch \in Nat \ {0}
    BY <1>1, BatchBounds DEF ReadMulti, ReadPage, ReadPageOob, Queue, TypeOK
  <2> QED BY <1>1, <2>1, QueueAccounts DEF ReadMulti, ReadPage, ReadPageOob
<1>2. CASE JudgeFine \/ JudgeUncorrectable
  <2>1. /\ pc = "judge" /\ pc' = "judge"
        /\ UNCHANGED <<op, left, truth, failed, worst, owed, gaveUp, stray>>
    BY <1>2 DEF JudgeFine, JudgeUncorrectable, lateVars
  <2>2. Faithful => Faithful'
    BY <1>2, <2>1, FaithfulLoop
  <2> QED BY <2>1, <2>2, <1>13 DEF Accounted, Caught
<1>3. CASE JudgeFault \/ CheckErasedFails
  BY <1>3 DEF JudgeFault, CheckErasedFails, lateVars, Accounted
<1>4. CASE PageFine
  <2>1. /\ pc = "judge" /\ pc' \in {"judge", "copy"}
        /\ UNCHANGED <<op, left, truth, failed, worst, owed, gaveUp, stray>>
    BY <1>4 DEF PageFine, NextPage, lateVars
  <2>2. ASSUME Faithful PROVE (pc' = "judge" => Faithful') /\ (pc' = "copy" => ~Owing(truth))
    BY <1>4, <2>2, FaithfulPage
  <2> QED BY <2>1, <2>2, <1>13 DEF Accounted, Caught
<1>5. CASE CheckErased
  <2>1. /\ pc = "judge" /\ pc' \in {"judge", "copy"} /\ failed \in Nat
        /\ UNCHANGED <<op, left, truth, worst, owed, stray>> /\ gaveUp' \in {gaveUp, TRUE}
    BY <1>5 DEF CheckErased, NextPage, Waits, TypeOK
  <2>2. ASSUME ~gaveUp', ~stray, owed' PROVE Caught'
    <3>1. failed' \in Nat /\ failed' >= failed
      BY <1>5, <2>2, LostCounted
    <3>2. Faithful => failed' > 0 \/ ~Owing(truth)
      BY <1>5, <2>2, CountedOrHidden
    <3>4. ~gaveUp
      BY <2>2, <1>5, NoneGaveUp DEF CheckErased
    <3>5. owed
      BY <2>1, <2>2
    <3>3. Caught \/ (Owing(truth) /\ Faithful)
      BY <2>1, <2>2, <3>4, <3>5 DEF Accounted
    <3> QED BY <2>1, <3>1, <3>2, <3>3 DEF Caught
  <2> QED BY <2>1, <2>2 DEF Accounted
<1>6. CASE CopyBatch
  <2>1. /\ pc = "copy" /\ pc' \in {"batch", "return"} /\ failed' = failed
        /\ worst' = WorseOf(worst, got) /\ owed' = owed /\ gaveUp' = gaveUp
        /\ stray' = stray
        /\ result' = IF failed > 0 THEN "EBADMSG" ELSE WorseOf(worst, got)
    BY <1>6 DEF CopyBatch, lateVars
  <2>2. worst = "EIO" \/ got = "EIO" => WorseOf(worst, got) = "EIO"
    BY WorstIsError
  <2> QED BY <2>1, <2>2 DEF Accounted, Caught
<1>7. ASSUME ~owed' PROVE Accounted'
  BY <1>7 DEF Accounted
<1>8. ASSUME NEW t \in 0 .. MaxTo, NEW n \in 1 .. Size, ReadCall(t, n) \/ WriteCall(t, n)
      PROVE  ~owed'
  BY <1>8 DEF ReadCall, WriteCall, readVars, CallOK, Reads
<1>9. ASSUME NEW b \in 0 .. Blocks, NEW n \in 1 .. Blocks, NEW s \in BOOLEAN, EraseCall(b, n, s)
      PROVE  ~owed'
  BY <1>9 DEF EraseCall, readVars, CallOK, Reads
<1>10. CASE EraseRefused \/ EraseDone \/ EraseFailed
  BY <1>7, <1>10 DEF EraseRefused, EraseDone, EraseFailed, EraseAllowed, readVars, CallOK, Reads
<1>11. CASE WritePage \/ WriteFails \/ Refuse \/ Return
  BY <1>7, <1>11 DEF WritePage, WriteFails, Refuse, Return, readVars, CallOK, Reads
<1>12. CASE UNCHANGED vars
  <2>1. UNCHANGED <<op, left, truth, status, at, page, cw, unc, failed, worst, owed, gaveUp,
                    stray, pc, got, result>>
    BY <1>12 DEF vars, readVars, lateVars
  <2>2. Faithful => Faithful'
    BY <2>1 DEF Faithful, Awaited, Multi
  <2> QED BY <1>13, <2>1, <2>2 DEF Accounted, Caught
<1> QED
  BY <1>1, <1>2, <1>3, <1>4, <1>5, <1>6, <1>7, <1>8, <1>9, <1>10, <1>11, <1>12 DEF Next

(* The inductive invariant holds in every reachable state.                 *)
LEMMA StepIInv == IInv /\ [Next]_vars => IInv'
BY TypeStep, CallStep, DeliveredStep, AccountedStep DEF IInv

LEMMA Invariance == Spec => []IInv
BY InitIInv, StepIInv, PTL DEF Spec

(* Every variable keeps its range; no position of the loops over a batch    *)
(* lies outside its status buffer.                                         *)
THEOREM TypeCorrect == Spec => []TypeOK
<1>1. IInv => TypeOK
  BY DEF IInv
<1> QED BY Invariance, <1>1, PTL

(* A read that returned no error delivered no codeword that was lost, for  *)
(* every mixture of conditions of its codewords and every way its pages    *)
(* fall into batches.  Left out are the codewords whose status the loops   *)
(* do not see (not waited for, or behind an uncorrectable one that is      *)
(* erased), and reads after a wait that gave up or after a bad block mark  *)
(* that could not be read.                                                 *)
THEOREM NoLossIsUnreported == Spec => []NoLossUnreported
<1>1. IInv => NoLossUnreported
  BY DEF IInv, Accounted, NoLossUnreported
<1> QED BY Invariance, <1>1, PTL

(* A read of whole pages or of one delivers what was asked for, for every  *)
(* size of a page and of a batch.                                          *)
THEOREM RequestIsDelivered == Spec => []DeliversRequest
<1>1. IInv => DeliversRequest
  BY DEF IInv, Delivered, WholePages, OnePage, Reads, DeliversRequest
<1> QED BY Invariance, <1>1, PTL

(* Where a failed erase shows in the status that is looked at, and no wait  *)
(* has given up, it is on the flash at the end of the call.                *)
THEOREM FailedEraseIsMarked ==
  ASSUME "failbit" \notin EraseSeen
  PROVE  Spec => []FailedEraseMarked
<1>1. Init => FailedEraseMarked
  BY DEF Init, FailedEraseMarked
<1>2. TypeOK /\ CallOK /\ FailedEraseMarked /\ [Next]_vars => FailedEraseMarked'
  <2> SUFFICES ASSUME TypeOK, CallOK, FailedEraseMarked, [Next]_vars PROVE FailedEraseMarked'
    OBVIOUS
  <2>1. to \in Nat /\ len \in Nat /\ left \in Nat
    BY DEF TypeOK
  <2>2. ASSUME NEW b \in 0 .. Blocks, NEW n \in 1 .. Blocks, NEW s \in BOOLEAN, EraseCall(b, n, s)
        PROVE  FailedEraseMarked'
    BY <2>2, QpicAssumption DEF EraseCall, FailedEraseMarked, Block
  <2>3. CASE (EraseDone \/ EraseFailed) /\ ~gaveUp'
    <3>5. Waits
      BY <2>3 DEF EraseDone, EraseFailed, EraseAllowed
    <3>4. ~gaveUp' /\ ~gaveUp
      BY <2>3, <3>5, NoneGaveUp
    <3>1. /\ op' = op /\ to' = to /\ len' = len /\ Block' = Block + 1 /\ Block \in Int
      BY <2>1, <2>3 DEF EraseDone, EraseFailed, NextBlock, Block
    <3>2. /\ Block \in erased' \cup bad' \cup unmarked'
          /\ erased \cup unmarked \subseteq erased' \cup unmarked' /\ bad \ {Block} \subseteq bad'
      <4>0. EraseAnswers = EraseSeen
        BY <3>4 DEF EraseAnswers
      <4>1. CASE EraseDone
        <5>1. \A s \in EraseSeen : EraseStatus(s) = "clean" => s = "done"
          BY QpicAssumption DEF EraseStatus
        <5> QED BY <4>0, <4>1, <5>1, <3>4 DEF EraseDone, ErasedAfter, BadAfter
      <4>2. CASE EraseFailed
        <5>1. \A s \in EraseSeen : EraseStatus(s) = "EIO" => s = "operr"
          BY QpicAssumption DEF EraseStatus
        <5> QED BY <4>0, <4>2, <5>1, <3>4 DEF EraseFailed, ErasedAfter, BadAfter
      <4> QED BY <2>3, <4>1, <4>2
    <3>3. \A b \in to' .. Block'-1 : b = Block \/ b \in to .. Block-1
      BY <2>1, <3>1
    <3> QED BY <3>1, <3>2, <3>3, <3>4 DEF FailedEraseMarked
  <2>4. CASE EraseRefused
    <3>1. UNCHANGED <<op, to, len, left, bad, erased, unmarked>> /\ Waits
      BY <2>4 DEF EraseRefused, eraseVars
    <3>2. CASE gaveUp'
      BY <3>2 DEF FailedEraseMarked
    <3>3. CASE ~gaveUp'
      <4>1. ~gaveUp
        BY <3>1, <3>3, NoneGaveUp
      <4> QED BY <3>1, <4>1 DEF FailedEraseMarked, Block
    <3> QED BY <3>2, <3>3
  <2>5. ASSUME op' # "erase" \/ gaveUp' PROVE FailedEraseMarked'
    BY <2>5 DEF FailedEraseMarked
  <2>6. ASSUME NEW t \in 0 .. MaxTo, NEW n \in 1 .. Size, ReadCall(t, n) \/ WriteCall(t, n)
        PROVE  op' # "erase"
    BY <2>6 DEF ReadCall, WriteCall
  <2>7. CASE ReadMulti \/ ReadPage \/ ReadPageOob
    BY <2>5, <2>7 DEF ReadMulti, ReadPage, ReadPageOob, Queue, CallOK, Reading, Reads
  <2>8. CASE JudgeFine \/ JudgeUncorrectable \/ JudgeFault
    BY <2>5, <2>8 DEF JudgeFine, JudgeUncorrectable, JudgeFault, CallOK, Reading, Reads
  <2>9. CASE PageFine \/ CheckErased \/ CheckErasedFails \/ CopyBatch
    BY <2>5, <2>9 DEF PageFine, CheckErased, CheckErasedFails, CopyBatch, CallOK, Reading, Reads
  <2>10. CASE WritePage \/ WriteFails \/ Refuse \/ Return
    BY <2>5, <2>10 DEF WritePage, WriteFails, Refuse, Return, CallOK
  <2>11. CASE UNCHANGED vars
    BY <2>11 DEF vars, eraseVars, lateVars, FailedEraseMarked, Block
  <2> QED
    BY <2>2, <2>3, <2>4, <2>5, <2>6, <2>7, <2>8, <2>9, <2>10, <2>11 DEF Next
<1>3. IInv => TypeOK /\ CallOK
  BY DEF IInv
<1> QED BY Invariance, <1>1, <1>2, <1>3, PTL DEF Spec
-----------------------------------------------------------------------------
(* The bring-up of the controller: NandStart, instantiated as Start.       *)

LEMMA StartSets ==
  /\ Start!AllBits = {"ecc", "buff", "quad", "otp"} /\ Start!Ph = 1 .. Phases
  /\ Start!DefaultRate = Freqs
  /\ Phases \in Nat \ {0, 1, 2} /\ Freqs \in Nat \ {0} /\ TrainBlks \in Nat \ {0}
BY StartIs DEF Start!StartAssumption, Start!AllBits, Start!Ph, Start!DefaultRate

(* Before the training the clock is the default one; while the phases are  *)
(* tried it is the one of the entry of the table that is tried.            *)
ClockInv ==
  /\ step \in {"scan", "config", "unlock", "ecc", "buffer", "quad", "register", "blocks"} =>
       fb /\ rate = Freqs /\ phase = 0 /\ passed = {} 
  /\ step \in {"blocks", "phases"} => tries > 0
  /\ step = "phases" => ~fb /\ rate = index
  /\ Start!ReadyClock

(* What the registers hold from the step on that has set them.             *)
ConfigInv ==
  /\ step \in {"ecc", "buffer", "quad"} => ~prot
  /\ step \in {"buffer", "quad"} => "ecc" \notin feat
  /\ Start!ReadyConfigured

StartInv == Start!TypeOK /\ ClockInv /\ ConfigInv

LEMMA LeastNumber ==
  ASSUME NEW S, S \subseteq Nat, S # {}
  PROVE  \E m \in S : \A x \in S : m <= x
<1>1. OpToRel(<, Nat) = {ss \in Nat \X Nat : ss[1] < ss[2]}
  BY Zenon DEF OpToRel
<1>2. IsWellFoundedOn({ss \in Nat \X Nat : ss[1] < ss[2]}, Nat)
  BY <1>1, NatLessThanWellFounded
<1>3. PICK m \in S : \A y \in S : ~(<<y, m>> \in {ss \in Nat \X Nat : ss[1] < ss[2]})
  BY ONLY <1>2, S \subseteq Nat, S # {}, WFMin
<1>4. ASSUME NEW y \in S PROVE m <= y
  <2>1. ~(<<y, m>> \in {ss \in Nat \X Nat : ss[1] < ss[2]})
    BY <1>3
  <2>2. y \in Nat /\ m \in Nat
    BY S \subseteq Nat
  <2>3. <<y, m>> \in Nat \X Nat /\ <<y, m>>[1] = y /\ <<y, m>>[2] = m
    BY <2>2
  <2>4. ~(y < m)
    BY <2>1, <2>3, Zenon
  <2> QED BY <2>2, <2>4
<1> QED BY <1>4

(* A finite set of phases has a middle: of the least number with more than *)
(* k members below it, the number before is the member with k below it.    *)
Below(S, p) == {q \in S : q < p}

LEMMA BelowStep ==
  ASSUME NEW S, S \subseteq Nat, NEW u \in Nat
  PROVE  /\ Below(S, 0) = {}
         /\ u \notin S => Below(S, u + 1) = Below(S, u)
         /\ u \in S => Below(S, u + 1) = Below(S, u) \cup {u}
         /\ u \notin Below(S, u)
<1>1. \A q \in S : q \in Nat
  OBVIOUS
<1>2. \A q \in S : ~(q < 0)
  BY <1>1
<1>3. \A q \in S : q < u + 1 <=> (q < u \/ q = u)
  BY <1>1
<1>4. Below(S, 0) = {}
  BY <1>2, Zenon DEF Below
<1>5. u \notin Below(S, u)
  <2>1. ~(u < u)
    OBVIOUS
  <2> QED BY <2>1, Zenon DEF Below
<1>6. ASSUME NEW q PROVE q \in Below(S, u + 1) <=> (q \in Below(S, u) \/ (q = u /\ u \in S))
  BY <1>3, Zenon DEF Below
<1>7. u \notin S => Below(S, u + 1) = Below(S, u)
  BY <1>6, Zenon
<1>8. u \in S => Below(S, u + 1) = Below(S, u) \cup {u}
  <2> SUFFICES ASSUME u \in S PROVE Below(S, u + 1) = Below(S, u) \cup {u}
    OBVIOUS
  <2>1. ASSUME NEW q PROVE q \in Below(S, u + 1) <=> q \in Below(S, u) \cup {u}
    BY <1>6
  <2> QED BY <2>1, Zenon
<1> QED BY <1>4, <1>5, <1>7, <1>8

LEMMA MiddleIsIn ==
  ASSUME NEW S, S \subseteq Start!Ph, S # {}
  PROVE  Start!MiddleOf(S) \in S
<1>0. Phases \in Nat /\ S \subseteq 1 .. Phases /\ S \subseteq Nat
  BY StartSets
<1>1. IsFiniteSet(S)
  <2>1. IsFiniteSet(1 .. Phases)
    BY <1>0, FS_Interval
  <2> QED BY <1>0, <2>1, FS_Subset
<1>2. ASSUME NEW p \in Nat
      PROVE  IsFiniteSet(Below(S, p)) /\ Cardinality(Below(S, p)) \in Nat
  <2>1. Below(S, p) \subseteq S
    BY DEF Below
  <2>2. IsFiniteSet(Below(S, p))
    BY <1>1, <2>1, FS_Subset
  <2> QED BY <2>2, FS_CardinalityType
<1>3. Cardinality(S) \in Nat /\ Cardinality(S) # 0
  BY <1>1, FS_CardinalityType, FS_EmptySet
<1>4. PICK k \in Nat : k = (Cardinality(S) - 1) \div 2 /\ k < Cardinality(S)
  BY <1>3
<1> DEFINE T == {p \in Nat : Cardinality(Below(S, p)) > k}
<1>5. Phases + 1 \in T
  <2>1. \A q \in S : q < Phases + 1
    BY <1>0
  <2>2. Below(S, Phases + 1) = S
    BY <2>1, Zenon DEF Below
  <2> QED BY <1>0, <1>3, <1>4, <2>2
<1>6. PICK t \in T : \A p \in T : t <= p
  <2>1. T \subseteq Nat /\ T # {}
    BY <1>5
  <2> HIDE DEF T
  <2> QED BY <2>1, LeastNumber
<1>7. t \in Nat /\ Cardinality(Below(S, t)) > k
  BY <1>6
<1>8. t # 0
  <2>1. Below(S, 0) = {}
    BY <1>0, BelowStep
  <2>2. Cardinality({}) = 0
    BY FS_EmptySet
  <2> QED BY <1>4, <1>7, <2>1, <2>2
<1>9. PICK u \in Nat : t = u + 1 /\ Cardinality(Below(S, u)) <= k
  <2>1. PICK u \in Nat : t = u + 1
    BY <1>7, <1>8
  <2>2. u \notin T
    BY <1>6, <2>1
  <2>3. ~(Cardinality(Below(S, u)) > k)
    BY <2>2
  <2> QED BY <1>2, <2>1, <2>3
<1>10. u \in S
  <2> SUFFICES ASSUME u \notin S PROVE FALSE
    OBVIOUS
  <2>1. Below(S, t) = Below(S, u)
    BY <1>0, <1>9, BelowStep
  <2>2. Cardinality(Below(S, u)) \in Nat
    BY <1>2
  <2> QED BY <1>7, <1>9, <2>1, <2>2
<1>11. Cardinality(Below(S, u)) = k
  <2>1. Below(S, t) = Below(S, u) \cup {u} /\ u \notin Below(S, u)
    BY <1>0, <1>9, <1>10, BelowStep
  <2>2. IsFiniteSet(Below(S, u)) /\ Cardinality(Below(S, u)) \in Nat
    BY <1>2
  <2>3. Cardinality(Below(S, u) \cup {u}) = Cardinality(Below(S, u)) + 1
    BY <2>1, <2>2, FS_AddElement
  <2> QED BY <1>7, <1>9, <2>1, <2>2, <2>3
<1>12. \E p \in S : Cardinality(Below(S, p)) = (Cardinality(S) - 1) \div 2
  BY <1>4, <1>10, <1>11
<1> DEFINE P(p) == Cardinality({q \in S : q < p}) = (Cardinality(S) - 1) \div 2
<1>13. \E p \in S : P(p)
  BY <1>12 DEF Below
<1>14. (CHOOSE p \in S : P(p)) \in S
  <2> HIDE DEF P
  <2> QED BY <1>13, Zenon
<1> QED BY ONLY <1>14, Zenon DEF Start!MiddleOf, Start!Cardinality, Cardinality

\* The count of the phases that read is that of NandStart's own Cardinality.
LEMMA PassedCount == Start!Cardinality(passed) = Cardinality(passed)
BY DEF Start!Cardinality, Cardinality

LEMMA StartInit == Start!Init => StartInv
<1>1. ASSUME Start!Init PROVE Start!TypeOK
  <2>1. feat \subseteq Start!AllBits
    BY <1>1, StartSets DEF Start!Init
  <2>2. Freqs - 1 = index /\ tries \in 0 .. Freqs /\ rate \in 0 .. Freqs
    BY <1>1, StartSets DEF Start!Init
  <2>3. passed \subseteq Start!Ph /\ phase \in 0 .. Phases /\ blkCnt \in 0 .. TrainBlks /\ index = tries - 1
    BY <1>1, StartSets DEF Start!Init
  <2>4. prot \in BOOLEAN /\ quad \in BOOLEAN /\ blind \in BOOLEAN /\ fb \in BOOLEAN
    BY <1>1 DEF Start!Init
  <2>5. step = "scan" /\ chip \in [winbond : BOOLEAN, check : BOOLEAN]
    BY <1>1 DEF Start!Init
  <2> QED BY <2>1, <2>2, <2>3, <2>4, <2>5 DEF Start!TypeOK
<1> QED BY <1>1, StartSets DEF StartInv, ClockInv, ConfigInv, Start!Init, Start!ReadyClock, Start!ReadyConfigured

LEMMA SetPhaseType ==
  ASSUME Start!TypeOK, NEW p
  PROVE  Start!SetPhase(p) \in 0 .. Phases
BY StartSets DEF Start!SetPhase, Start!TypeOK

(* What a register reads as: what it holds, or all bits after an error.    *)
LEMMA RegRead ==
  ASSUME NEW f, f \subseteq Start!AllBits, NEW r \in Start!Reg(f)
  PROVE  r.val \subseteq Start!AllBits /\ f \subseteq r.val /\ (r.ok => r.val = f)
         /\ r.ok \in BOOLEAN
<1>1. r = [val |-> f, ok |-> TRUE] \/ r = [val |-> Start!AllBits, ok |-> FALSE]
  BY DEF Start!Reg
<1>2. CASE r = [val |-> f, ok |-> TRUE]
  <2>1. r.val = f /\ r.ok = TRUE
    BY <1>2
  <2> QED BY <2>1
<1>3. CASE r = [val |-> Start!AllBits, ok |-> FALSE]
  <2>1. r.val = Start!AllBits /\ r.ok = FALSE
    BY <1>3
  <2> QED BY <2>1
<1> QED BY <1>1, <1>2, <1>3

LEMMA FlagRead ==
  ASSUME NEW p \in BOOLEAN, NEW r \in Start!Flag(p)
  PROVE  r.val \in BOOLEAN /\ (p => r.val) /\ r.ok \in BOOLEAN
<1>1. r = [val |-> p, ok |-> TRUE] \/ r = [val |-> TRUE, ok |-> FALSE]
  BY DEF Start!Flag
<1>2. CASE r = [val |-> p, ok |-> TRUE]
  <2>1. r.val = p /\ r.ok = TRUE
    BY <1>2
  <2> QED BY <2>1
<1>3. CASE r = [val |-> TRUE, ok |-> FALSE]
  <2>1. r.val = TRUE /\ r.ok = FALSE
    BY <1>3
  <2> QED BY <2>1
<1> QED BY <1>1, <1>2, <1>3

(* Each step keeps the types: the number of frequencies left is one more   *)
(* than the entry tried, and a phase is one of the clock's or none.        *)
LEMMA StartTypeStep ==
  ASSUME Start!TypeOK, ClockInv, Start!Next
  PROVE  Start!TypeOK'
<1>1. CASE Start!Identify
  BY <1>1, StartSets DEF Start!Identify, Start!TypeOK, ClockInv, Start!cfgVars, Start!trainVars
<1>2. CASE Start!SaveConfig
  BY <1>2, StartSets DEF Start!SaveConfig, Start!TypeOK, ClockInv, Start!cfgVars, Start!trainVars
<1>3. CASE Start!Unlock
  <2>1. feat' \subseteq Start!AllBits
    BY <1>3, StartSets DEF Start!Unlock, Start!TypeOK, Start!Flag, Start!Written
  <2>2. prot' \in BOOLEAN /\ quad' \in BOOLEAN
    BY <1>3, StartSets DEF Start!Unlock, Start!TypeOK, Start!Flag, Start!Written
  <2>3. blind' \in BOOLEAN
    BY <1>3, StartSets DEF Start!Unlock, Start!TypeOK, Start!Flag, Start!Written
  <2> QED BY <1>3, <2>1, <2>2, <2>3 DEF Start!Unlock, Start!TypeOK, Start!trainVars
<1>4. CASE Start!InternalEcc
  <2>1. PICK r \in Start!Reg(feat) :
           \/ feat' = feat /\ blind' = blind
           \/ feat' \in {feat, r.val \ {"ecc"}} /\ \E s \in Start!Reg(feat') : blind' = (blind \/ ~r.ok \/ ~s.ok)
    BY <1>4 DEF Start!InternalEcc, Start!Written
  <2>2. feat' \subseteq Start!AllBits
    BY <2>1, RegRead DEF Start!TypeOK
  <2>3. blind' \in BOOLEAN
    BY <2>1 DEF Start!TypeOK
  <2> QED BY <1>4, <2>2, <2>3 DEF Start!InternalEcc, Start!TypeOK, Start!trainVars
<1>5. CASE Start!BufferMode
  <2>1. PICK r \in Start!Reg(feat) :
           \/ feat' = feat /\ blind' = blind
           \/ feat' \in {feat, r.val \cup {"buff"}} /\ blind' = (blind \/ ~r.ok)
    <3>1. CASE chip.winbond
      BY <1>5, <3>1 DEF Start!BufferMode, Start!Written
    <3>2. CASE ~chip.winbond
      BY <1>5, <3>2 DEF Start!BufferMode, Start!Reg
    <3> QED BY <3>1, <3>2
  <2>2. feat' \subseteq Start!AllBits
    BY <2>1, RegRead, StartSets DEF Start!TypeOK
  <2>3. blind' \in BOOLEAN
    BY <2>1 DEF Start!TypeOK
  <2> QED BY <1>5, <2>2, <2>3 DEF Start!BufferMode, Start!TypeOK, Start!trainVars
<1>6. CASE Start!QuadMode
  <2>1. feat' \in {feat, {"quad"}}
    BY <1>6 DEF Start!QuadMode, Start!Written
  <2>2. feat' \subseteq Start!AllBits
    BY <2>1, StartSets DEF Start!TypeOK
  <2>3. quad' \in BOOLEAN /\ blind' \in BOOLEAN
    <3>1. CASE ~chip.check
      BY <1>6, <3>1 DEF Start!QuadMode, Start!TypeOK
    <3>2. CASE chip.check
      <4>1. PICK r \in Start!Reg(feat) :
               \/ quad' = TRUE /\ blind' = (blind \/ ~r.ok)
               \/ \E s \in Start!Reg(feat') : quad' = ("quad" \in s.val) /\ blind' = (blind \/ ~s.ok)
        BY <1>6, <3>2 DEF Start!QuadMode
      <4>2. quad' = TRUE \/ \E s : quad' = ("quad" \in s.val)
        BY <4>1, Zenon
      <4>3. \E s : blind' = (blind \/ ~s.ok)
        BY <4>1, Zenon
      <4>4. quad' \in BOOLEAN
        <5>1. ASSUME NEW s, quad' = ("quad" \in s.val) PROVE quad' \in BOOLEAN
          <6>1. CASE "quad" \in s.val
            BY <5>1, <6>1
          <6>2. CASE "quad" \notin s.val
            BY <5>1, <6>2
          <6> QED BY <6>1, <6>2
        <5> QED BY <4>2, <5>1, Zenon
      <4>5. blind' \in BOOLEAN
        BY <4>3 DEF Start!TypeOK
      <4> QED BY <4>4, <4>5
    <3> QED BY <3>1, <3>2
  <2> QED BY <1>6, <2>2, <2>3 DEF Start!QuadMode, Start!TypeOK, Start!trainVars
<1>7. CASE Start!Register
  BY <1>7, StartSets DEF Start!Register, Start!TypeOK, ClockInv, Start!cfgVars, Start!trainVars
<1>8. CASE Start!SkipBadBlock
  BY <1>8, StartSets DEF Start!SkipBadBlock, Start!TypeOK, ClockInv, Start!cfgVars, Start!trainVars
<1>9. CASE Start!PrepareFails
  BY <1>9, StartSets DEF Start!PrepareFails, Start!TypeOK, ClockInv, Start!cfgVars, Start!trainVars, Start!GiveUp
<1>10. CASE Start!PrepareDiffers
  BY <1>10, StartSets DEF Start!PrepareDiffers, Start!TypeOK, ClockInv, Start!cfgVars, Start!trainVars
<1>11. CASE Start!Prepare
  <2>1. UNCHANGED <<chip, prot, feat, quad, blind, blkCnt, phase, index, tries, passed>>
    BY <1>11 DEF Start!Prepare, Start!cfgVars
  <2>2. index \in 0 .. Freqs
    BY <1>11, StartSets DEF Start!Prepare, ClockInv, Start!TypeOK
  <2> QED BY <1>11, <2>1, <2>2 DEF Start!Prepare, Start!TypeOK
<1>12. CASE Start!TryPhases
  BY <1>12, StartSets, SetPhaseType DEF Start!TryPhases, Start!TypeOK, ClockInv, Start!cfgVars, Start!trainVars
<1>13. CASE Start!TrialReadFails
  BY <1>13, StartSets DEF Start!TrialReadFails, Start!TypeOK, ClockInv, Start!cfgVars, Start!trainVars, Start!GiveUp
<1>14. CASE Start!Select \/ Start!SelectOutside \/ Start!SelectOverruns
  <2>1. UNCHANGED <<Start!cfgVars, blkCnt, fb, rate, index, tries, passed>> /\ step' \in {"ready", "lost"}
    BY <1>14 DEF Start!Select, Start!SelectOutside, Start!SelectOverruns, Start!trainVars
  <2>2. phase' = phase \/ \E p : phase' = Start!SetPhase(p)
    BY <1>14, Zenon DEF Start!Select, Start!SelectOutside, Start!SelectOverruns, Start!trainVars
  <2>3. phase' \in 0 .. Phases
    BY <2>2, SetPhaseType DEF Start!TypeOK
  <2> QED BY <2>1, <2>3 DEF Start!TypeOK, Start!cfgVars
<1>15. CASE Start!Lower
  BY <1>15, StartSets DEF Start!Lower, Start!TypeOK, ClockInv, Start!cfgVars, Start!trainVars, Start!GiveUp
<1>16. CASE Start!Fallback
  BY <1>16, StartSets DEF Start!Fallback, Start!TypeOK, ClockInv, Start!cfgVars, Start!trainVars, Start!DefaultRate
<1>17. CASE Start!Deinit
  BY <1>17, StartSets DEF Start!Deinit, Start!TypeOK, ClockInv, Start!cfgVars, Start!trainVars
<1> QED BY <1>1, <1>2, <1>3, <1>4, <1>5, <1>6, <1>7, <1>8, <1>9, <1>10, <1>11, <1>12, <1>13, <1>14, <1>15, <1>16, <1>17 DEF Start!Next

(* A step sets the clock to what the training found, or to the default.    *)
LEMMA ClockStep ==
  ASSUME Start!TypeOK, ClockInv, Start!Next
  PROVE  ClockInv'
<1>1. CASE Start!Identify
  BY <1>1, StartSets DEF Start!Identify, Start!TypeOK, ClockInv, Start!ReadyClock, Start!cfgVars, Start!trainVars
<1>2. CASE Start!SaveConfig
  BY <1>2, StartSets DEF Start!SaveConfig, Start!TypeOK, ClockInv, Start!ReadyClock, Start!cfgVars, Start!trainVars
<1>3. CASE Start!Unlock
  <2>1. step' \in {"ecc", "failed"} /\ UNCHANGED Start!trainVars
    BY <1>3 DEF Start!Unlock
  <2>2. fb /\ rate = Freqs /\ phase = 0 /\ passed = {}
    BY <1>3 DEF Start!Unlock, ClockInv
  <2> QED BY <2>1, <2>2 DEF ClockInv, Start!ReadyClock, Start!trainVars
<1>4. CASE Start!InternalEcc
  <2>1. step' \in {"buffer", "failed"} /\ UNCHANGED Start!trainVars
    BY <1>4 DEF Start!InternalEcc
  <2>2. fb /\ rate = Freqs /\ phase = 0 /\ passed = {}
    BY <1>4 DEF Start!InternalEcc, ClockInv
  <2> QED BY <2>1, <2>2 DEF ClockInv, Start!ReadyClock, Start!trainVars
<1>5. CASE Start!BufferMode
  <2>1. step' \in {"quad"} /\ UNCHANGED Start!trainVars
    BY <1>5 DEF Start!BufferMode
  <2>2. fb /\ rate = Freqs /\ phase = 0 /\ passed = {}
    BY <1>5 DEF Start!BufferMode, ClockInv
  <2> QED BY <2>1, <2>2 DEF ClockInv, Start!ReadyClock, Start!trainVars
<1>6. CASE Start!QuadMode
  <2>1. step' \in {"register"} /\ UNCHANGED Start!trainVars
    BY <1>6 DEF Start!QuadMode
  <2>2. fb /\ rate = Freqs /\ phase = 0 /\ passed = {}
    BY <1>6 DEF Start!QuadMode, ClockInv
  <2> QED BY <2>1, <2>2 DEF ClockInv, Start!ReadyClock, Start!trainVars
<1>7. CASE Start!Register
  BY <1>7, StartSets DEF Start!Register, Start!TypeOK, ClockInv, Start!ReadyClock, Start!cfgVars, Start!trainVars
<1>8. CASE Start!SkipBadBlock
  BY <1>8, StartSets DEF Start!SkipBadBlock, Start!TypeOK, ClockInv, Start!ReadyClock, Start!cfgVars, Start!trainVars
<1>9. CASE Start!PrepareFails
  BY <1>9, StartSets DEF Start!PrepareFails, Start!TypeOK, ClockInv, Start!ReadyClock, Start!cfgVars, Start!trainVars, Start!GiveUp
<1>10. CASE Start!PrepareDiffers
  BY <1>10, StartSets DEF Start!PrepareDiffers, Start!TypeOK, ClockInv, Start!ReadyClock, Start!cfgVars, Start!trainVars
<1>11. CASE Start!Prepare
  BY <1>11, StartSets DEF Start!Prepare, Start!TypeOK, ClockInv, Start!ReadyClock, Start!cfgVars, Start!trainVars
<1>12. CASE Start!TryPhases
  BY <1>12, StartSets DEF Start!TryPhases, Start!TypeOK, ClockInv, Start!ReadyClock, Start!cfgVars, Start!trainVars
<1>13. CASE Start!TrialReadFails
  BY <1>13, StartSets DEF Start!TrialReadFails, Start!TypeOK, ClockInv, Start!ReadyClock, Start!cfgVars, Start!trainVars, Start!GiveUp
<1>14. CASE Start!Select
  <2>1. phase' = Start!SetPhase(Start!MiddleOf(Start!Centers(passed)))
        /\ Start!Centers(passed) # {}
    BY <1>14 DEF Start!Select
  <2>2. step' = "ready" /\ UNCHANGED <<fb, rate, index, tries, passed>>
    BY <1>14 DEF Start!Select
  <2>3. ~fb /\ rate = index /\ index \in 0 .. Freqs - 1
    BY <1>14, StartSets DEF Start!Select, ClockInv, Start!TypeOK
  <2>4. {phase' - 1, phase', phase' + 1} \subseteq passed
    <3>1. Start!Centers(passed) \subseteq Start!Ph
      BY DEF Start!Centers, Start!TypeOK
    <3>2. Start!MiddleOf(Start!Centers(passed)) \in Start!Centers(passed)
      BY <2>1, <3>1, MiddleIsIn
    <3>3. phase' \in Start!Centers(passed)
      BY <2>1, <3>1, <3>2 DEF Start!SetPhase
    <3> QED BY <3>3 DEF Start!Centers
  <2>5. Cardinality(passed) > 1
    <3>1. passed \subseteq Nat /\ IsFiniteSet(passed)
      <4>1. Phases \in Nat /\ passed \subseteq 1 .. Phases
        BY StartSets DEF Start!TypeOK
      <4>2. IsFiniteSet(1 .. Phases)
        BY <4>1, FS_Interval
      <4>3. IsFiniteSet(passed)
        BY <4>1, <4>2, FS_Subset
      <4> QED BY <4>1, <4>3
    <3>2. phase' \in Nat /\ phase' # phase' + 1
      <4>1. phase' \in passed
        BY <2>4
      <4>2. phase' \in Nat
        BY <3>1, <4>1
      <4>3. \A x \in Nat : x # x + 1
        OBVIOUS
      <4> QED BY <4>2, <4>3, Zenon
    <3>3. {phase', phase' + 1} \subseteq passed
      BY <2>4
    <3>4. phase' \notin {phase' + 1} /\ IsFiniteSet({phase' + 1}) /\ Cardinality({phase' + 1}) = 1
      BY <3>2, FS_Singleton
    <3>5. Cardinality({phase' + 1} \cup {phase'}) = 2
      <4>1. Cardinality({phase' + 1} \cup {phase'}) = Cardinality({phase' + 1}) + 1
        BY <3>4, FS_AddElement
      <4> QED BY <3>4, <4>1
    <3>6. {phase' + 1} \cup {phase'} \subseteq passed
      BY <3>3
    <3>7. Cardinality({phase' + 1} \cup {phase'}) <= Cardinality(passed)
      BY <3>1, <3>6, FS_Subset
    <3>8. Cardinality(passed) \in Nat
      BY <3>1, FS_CardinalityType
    <3> QED BY <3>5, <3>7, <3>8
  <2>6. Start!ReadyClock'
    BY <2>2, <2>3, <2>4, <2>5, PassedCount DEF Start!ReadyClock
  <2> QED BY <2>2, <2>6 DEF ClockInv
<1>18. CASE Start!SelectOutside \/ Start!SelectOverruns
  <2>1. step' \in {"ready", "lost"} /\ UNCHANGED <<fb, rate, index, tries, passed>>
    BY <1>18 DEF Start!SelectOutside, Start!SelectOverruns, Start!cfgVars, Start!trainVars
  <2>2. step' = "ready" => Cardinality(passed) > 1
    BY <1>18, PassedCount DEF Start!SelectOutside, Start!SelectOverruns
  <2>3. ~fb /\ rate = index /\ index \in 0 .. Freqs - 1
    BY <1>18, StartSets DEF Start!SelectOutside, Start!SelectOverruns, ClockInv, Start!TypeOK
  <2>4. Start!Centers(passed)' = Start!Centers(passed)
    BY <2>1 DEF Start!Centers
  <2>6. step' = "ready" => Start!Centers(passed) = {}
    BY <1>18 DEF Start!SelectOutside, Start!SelectOverruns
  <2>5. Start!ReadyClock'
    BY <2>1, <2>2, <2>3, <2>4, <2>6, PassedCount DEF Start!ReadyClock
  <2> QED BY <2>1, <2>5 DEF ClockInv
<1>15. CASE Start!Lower
  BY <1>15, StartSets DEF Start!Lower, Start!TypeOK, ClockInv, Start!ReadyClock, Start!cfgVars, Start!trainVars, Start!GiveUp
<1>16. CASE Start!Fallback
  BY <1>16, StartSets DEF Start!Fallback, Start!TypeOK, ClockInv, Start!ReadyClock, Start!cfgVars, Start!trainVars, Start!DefaultRate
<1>17. CASE Start!Deinit
  BY <1>17, StartSets DEF Start!Deinit, Start!TypeOK, ClockInv, Start!ReadyClock, Start!cfgVars, Start!trainVars
<1> QED BY <1>1, <1>2, <1>3, <1>4, <1>5, <1>6, <1>7, <1>8, <1>9, <1>10, <1>11, <1>12, <1>13, <1>14, <1>15, <1>16, <1>17, <1>18 DEF Start!Next

(* A register is set only by the step that reads it back, or stays.        *)
LEMMA ConfigStep ==
  ASSUME Start!TypeOK, ClockInv, ConfigInv, Start!Next
  PROVE  ConfigInv'
<1>1. CASE Start!Identify
  BY <1>1 DEF Start!Identify, ConfigInv, Start!ReadyConfigured, Start!cfgVars
<1>2. CASE Start!SaveConfig
  BY <1>2 DEF Start!SaveConfig, ConfigInv, Start!ReadyConfigured, Start!cfgVars
<1>3. CASE Start!Unlock
  <2>1. step' \in {"ecc", "failed"} /\ UNCHANGED <<chip, feat, quad>>
    BY <1>3 DEF Start!Unlock, ConfigInv
  <2>2. step' = "ecc" => ~prot'
    <3>1. PICK r \in Start!Flag(prot) :
             \/ ~r.val /\ step' = "ecc" /\ prot' = prot
             \/ /\ r.val /\ prot' \in {prot, FALSE}
                /\ \E s \in Start!Flag(prot') : step' = IF s.val THEN "failed" ELSE "ecc"
      BY <1>3 DEF Start!Unlock, Start!Written
    <3> QED BY <3>1, FlagRead DEF Start!TypeOK
  <2> QED BY <2>1, <2>2 DEF ConfigInv, Start!ReadyConfigured
<1>4. CASE Start!InternalEcc
  <2>1. step' \in {"buffer", "failed"} /\ UNCHANGED <<chip, prot, quad>> /\ ~prot
    BY <1>4 DEF Start!InternalEcc, ConfigInv
  <2>2. step' = "buffer" => "ecc" \notin feat'
    BY <1>4, StartSets DEF Start!InternalEcc, Start!Reg
  <2> QED BY <2>1, <2>2 DEF ConfigInv, Start!ReadyConfigured
<1>5. CASE Start!BufferMode
  <2>1. step' = "quad" /\ UNCHANGED <<chip, prot, quad>> /\ ~prot /\ "ecc" \notin feat
    BY <1>5 DEF Start!BufferMode, ConfigInv
  <2>2. "ecc" \notin feat'
    BY <1>5, <2>1, StartSets DEF Start!BufferMode, Start!Reg, Start!Written
  <2> QED BY <2>1, <2>2 DEF ConfigInv, Start!ReadyConfigured
<1>6. CASE Start!QuadMode
  <2>1. step' = "register" /\ UNCHANGED <<chip, prot>> /\ ~prot /\ "ecc" \notin feat
    BY <1>6 DEF Start!QuadMode, ConfigInv
  <2>2. "ecc" \notin feat'
    BY <1>6, <2>1 DEF Start!QuadMode, Start!Written
  <2>3. chip.check /\ quad' /\ ~blind' => "quad" \in feat'
    <3> SUFFICES ASSUME chip.check, quad', ~blind' PROVE "quad" \in feat'
      OBVIOUS
    <3>1. PICK r \in Start!Reg(feat) :
             \/ "quad" \in r.val /\ blind' = (blind \/ ~r.ok) /\ feat' = feat
             \/ \E s \in Start!Reg(feat') : quad' = ("quad" \in s.val) /\ blind' = (blind \/ ~s.ok)
      BY <1>6 DEF Start!QuadMode
    <3>2. feat \subseteq Start!AllBits /\ feat' \subseteq Start!AllBits
      BY StartTypeStep DEF Start!TypeOK
    <3> QED BY <3>1, <3>2, RegRead
  <2> QED BY <2>1, <2>2, <2>3 DEF ConfigInv, Start!ReadyConfigured
<1>7. CASE Start!Register \/ Start!SkipBadBlock \/ Start!PrepareFails \/ Start!PrepareDiffers \/ Start!Prepare \/ Start!TryPhases
          \/ Start!TrialReadFails \/ Start!Select \/ Start!SelectOutside \/ Start!SelectOverruns \/ Start!Lower \/ Start!Fallback \/ Start!Deinit
  <2>1. UNCHANGED <<chip, prot, feat, quad, blind>>
    BY <1>7 DEF Start!Register, Start!SkipBadBlock, Start!PrepareFails, Start!PrepareDiffers, Start!Prepare, Start!TryPhases, Start!TrialReadFails, Start!Select, Start!SelectOutside, Start!SelectOverruns, Start!Lower, Start!Fallback, Start!Deinit, Start!cfgVars, Start!trainVars
  <2>2. step \in {"register", "blocks", "phases", "fallback", "ready"}
    BY <1>7 DEF Start!Register, Start!SkipBadBlock, Start!PrepareFails, Start!PrepareDiffers, Start!Prepare, Start!TryPhases, Start!TrialReadFails, Start!Select, Start!SelectOutside, Start!SelectOverruns, Start!Lower, Start!Fallback, Start!Deinit
  <2>3. step' \in {"blocks", "phases", "fallback", "ready", "failed", "lost", "removed"}
    BY <1>7, <2>2 DEF Start!Register, Start!SkipBadBlock, Start!PrepareFails, Start!PrepareDiffers, Start!Prepare, Start!TryPhases, Start!TrialReadFails, Start!Select, Start!SelectOutside, Start!SelectOverruns, Start!Lower, Start!Fallback, Start!Deinit, Start!GiveUp
  <2> QED BY <2>1, <2>2, <2>3 DEF ConfigInv, Start!ReadyConfigured
<1> QED BY <1>1, <1>2, <1>3, <1>4, <1>5, <1>6, <1>7 DEF Start!Next

LEMMA StartStep == StartInv /\ [Start!Next]_Start!vars => StartInv'
<1> SUFFICES ASSUME StartInv, [Start!Next]_Start!vars PROVE StartInv'
  OBVIOUS
<1>1. CASE Start!Next
  BY <1>1, StartTypeStep, ClockStep, ConfigStep DEF StartInv
<1>2. CASE UNCHANGED Start!vars
  <2>1. UNCHANGED <<step, chip, prot, feat, quad, blkCnt, fb, rate, phase, index, tries, passed, blind>>
    BY <1>2 DEF Start!vars, Start!cfgVars, Start!trainVars
  <2>2. Start!TypeOK'
    BY <2>1 DEF StartInv, Start!TypeOK
  <2>3. ClockInv'
    BY <2>1 DEF StartInv, ClockInv, Start!ReadyClock, Start!Centers
  <2>4. ConfigInv'
    BY <2>1 DEF StartInv, ConfigInv, Start!ReadyConfigured
  <2> QED BY <2>2, <2>3, <2>4 DEF StartInv
<1> QED BY <1>1, <1>2

(***************************************************************************)
(* For every number of phases, frequencies and training blocks: however    *)
(* the training ends, the clock is one that works (qti_serial_training).   *)
(***************************************************************************)
THEOREM ClockWorks == Start!Spec => []ReadyClock
<1>1. StartInv => ReadyClock
  BY DEF StartInv, ClockInv, ReadyClock
<1> QED BY <1>1, StartInit, StartStep, PTL DEF Start!Spec

(***************************************************************************)
(* The flash is only put to use unlocked, without its own error correction *)
(* and in quad mode only with its quad bit set (qti_spi_nand_config).      *)
(***************************************************************************)
THEOREM ConfiguredFirst == Start!Spec => []ReadyConfigured
<1>1. StartInv => ReadyConfigured
  BY DEF StartInv, ConfigInv, ReadyConfigured
<1> QED BY <1>1, StartInit, StartStep, PTL DEF Start!Spec

(***************************************************************************)
(* The instance TLC checks, with either the bring-up or calls: both keep   *)
(* their invariants, as each leaves the other's state alone.               *)
(***************************************************************************)
THEOREM BothTyped == MCSpec => []MCTypeOK
<1>1. MCInit => IInv /\ StartInv
  <2> SUFFICES ASSUME MCInit PROVE IInv /\ StartInv
    OBVIOUS
  <2>1. IInv
    BY InitIInv DEF MCInit
  <2>2. CASE Start!Init
    BY <2>1, <2>2, StartInit
  <2>3. CASE AtRest
    <3>1. Freqs \in 0 .. Freqs /\ Freqs - 1 = index /\ tries = Freqs /\ 0 \in 0 .. Phases /\ 0 \in 0 .. TrainBlks
      BY <2>3, StartSets DEF AtRest
    <3>2. Start!TypeOK
      BY <2>3, <3>1, StartSets DEF AtRest, Start!TypeOK
    <3>3. ClockInv /\ ConfigInv
      BY <2>3, StartSets DEF AtRest, ClockInv, ConfigInv, Start!ReadyClock, Start!ReadyConfigured
    <3> QED BY <2>1, <3>2, <3>3 DEF StartInv
  <2> QED BY <2>2, <2>3 DEF MCInit
<1>2. IInv /\ StartInv /\ [MCNext]_<<task, vars, startVars>> => IInv' /\ StartInv'
  <2> SUFFICES ASSUME IInv, StartInv, [MCNext]_<<task, vars, startVars>> PROVE IInv' /\ StartInv'
    OBVIOUS
  <2>1. [Next]_vars
    BY DEF MCNext
  <2>2. [Start!Next]_Start!vars
    BY DEF MCNext, startVars, Start!vars, Start!cfgVars, Start!trainVars
  <2>3. IInv'
    BY <2>1, StepIInv
  <2> QED BY <2>2, <2>3, StartStep
<1>3. IInv /\ StartInv => MCTypeOK
  BY DEF IInv, StartInv, MCTypeOK
<1> QED BY <1>1, <1>2, <1>3, PTL DEF MCSpec
=============================================================================
