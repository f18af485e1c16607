--------------------------- MODULE BamPipeProofs ----------------------------
(***************************************************************************)
(* Proofs about BamPipe, for every ring size and every set of buffers,     *)
(* transfer lengths and flags.  The inductive invariant is the conjunction *)
(* of the type invariant and RingAgrees: neither is inductive alone (the   *)
(* engine's step takes the head of pend, which only RingAgrees knows is    *)
(* there).                                                                 *)
(***************************************************************************)
EXTENDS BamPipe, TLAPS, SequenceTheorems

IInv == TypeOK /\ RingAgrees

(* Moving to the next slot adds one to the offset, round the ring.         *)
LEMMA WrapStep ==
  ASSUME NEW s \in Slots
  PROVE  /\ fifo_getnext(s) = Wrap(s + 1)
         /\ fifo_getnext(s) \in Slots
BY BamAssumption DEF fifo_getnext, Wrap, Slots

(* Two moves round the ring add up.                                        *)
LEMMA WrapAdds ==
  ASSUME NEW s \in Slots, NEW a \in Nat, NEW b \in Nat, a + b <= N
  PROVE  Wrap(Wrap(s + a) + b) = Wrap(s + (a + b))
BY BamAssumption DEF Wrap, Slots

(* An engine with descriptors to execute executes a notified one.          *)
LEMMA EnginePending ==
  ASSUME IInv, ~fault, rd # evnt
  PROVE  pend # <<>> /\ Len(pend) > 0
<1>1. evnt = Wrap(rd + Len(pend)) /\ Len(pend) \in Nat
  BY DEF IInv, TypeOK, RingAgrees, InStep
<1>2. Len(pend) # 0
  BY <1>1, BamAssumption DEF IInv, TypeOK, Slots, Wrap
<1> QED BY <1>1, <1>2

(* Initially every variable has its type.                                  *)
LEMMA TypeInit == Init => TypeOK
<1> SUFFICES ASSUME Init PROVE TypeOK
  OBVIOUS
<1>1. 0 \in Slots
  BY BamAssumption DEF Slots
<1>2. NoDesc \in Desc
  BY <1>1 DEF NoDesc, Desc
<1>3. mem \in [Slots -> Desc] /\ exec \in Desc
  BY <1>2 DEF Init
<1>4. pend \in Seq(Desc) /\ batch \in Seq(Desc)
  BY DEF Init
<1>5. rxLen \in 0 .. N \cup Heap /\ left \in Nat /\ n \in Nat /\ n + left \in 0 .. N \cup Heap
  BY BamAssumption DEF Init
<1>6. flags \in Flags \cup {NoFlags} /\ buf \in Bufs \cup {NoBuf}
  BY DEF Init
<1>7. cur \in Slots /\ evnt \in Slots /\ rd \in Slots
  BY <1>1 DEF Init
<1>8. pc = "fill" <=> left > 0
  BY DEF Init
<1> QED BY <1>3, <1>4, <1>5, <1>6, <1>7, <1>8, Zenon DEF Init, TypeOK

(* Every step keeps the types.                                             *)
LEMMA TypeStep == IInv /\ [Next]_vars => TypeOK'
<1> SUFFICES ASSUME IInv, [Next]_vars
             PROVE  TypeOK'
  OBVIOUS
<1>0. TypeOK
  BY DEF IInv
<1> USE BamAssumption, <1>0 DEF TypeOK, lifeVars, callVars, hwVars, ghosts
<1>1. CASE Request
  BY <1>1 DEF Request
<1>2. CASE Rfree
  BY <1>2 DEF Rfree
<1>3. CASE Enable
  <2>1. cur' \in Slots /\ evnt' \in Slots /\ rd' \in Slots
    BY <1>3 DEF Enable, Slots
  <2>2. pend' \in Seq(Desc) /\ batch' \in Seq(Desc)
    BY <1>3 DEF Enable
  <2>3. enabled' \in BOOLEAN /\ hwOn' \in BOOLEAN /\ fault' \in BOOLEAN
          /\ abandoned' \in BOOLEAN
    BY <1>3 DEF Enable
  <2>4. irq' \subseteq {"PRCSD", "OUT_OF_DESC", "ERR"}
    BY <1>3 DEF Enable
  <2> QED BY <1>3, <2>1, <2>2, <2>3, <2>4 DEF Enable
<1>4. CASE Disable
  BY <1>4 DEF Disable
<1>5. CASE \E k \in Sizes, f \in Flags, b \in Bufs : Send(k, f, b)
  BY <1>5 DEF Send, Begin, HasSpace
<1>6. CASE \E k \in Sizes : PrepareRcvBuf(k)
  BY <1>6 DEF PrepareRcvBuf, HasSpace
<1>7. CASE \E f \in Flags, b \in Bufs : Receive(f, b)
  BY <1>7 DEF Receive, Begin
<1>8. CASE AddDesc
  <2>1. left' = left - 1 /\ n' = n + 1 /\ left > 0
    BY <1>8 DEF AddDesc
  <2>2. /\ n' \in Nat /\ left' \in Nat /\ n' + left' \in 0 .. N \cup Heap
        /\ left # 1 <=> left' > 0
    <3>1. n' + left' = n + left
      BY <2>1
    <3> QED BY <2>1, <3>1
  <2>4. NewDesc \in Desc
    BY DEF NewDesc, Desc
  <2>5. CASE WriteDesc
    <3>1. cur' \in Slots
      BY <2>5, WrapStep DEF WriteDesc
    <3>2. mem' \in [Slots -> Desc]
      BY <2>5, <2>4 DEF WriteDesc
    <3>3. batch' \in Seq(Desc) /\ pend' \in Seq(Desc) /\ fault' \in BOOLEAN
      BY <2>5, <2>4 DEF WriteDesc, Overruns
    <3> QED BY <1>8, <2>1, <2>2, <3>1, <3>2, <3>3 DEF AddDesc
  <2>6. CASE RefuseDesc
    BY <1>8, <2>1, <2>2, <2>6 DEF AddDesc, RefuseDesc
  <2> QED BY <1>8, <2>5, <2>6 DEF AddDesc
<1>9. CASE GenEvent
  <2>1. evnt' \in Slots
    BY <1>9 DEF GenEvent, Refused, Wrap, Slots
  <2>2. pend' \in Seq(Desc) /\ batch' \in Seq(Desc) /\ fault' \in BOOLEAN
    BY <1>9 DEF GenEvent, Refused, Overruns
  <2> QED BY <1>9, <2>1, <2>2 DEF GenEvent
<1>10. CASE WaitTimeout \/ WaitError \/ WaitProcessed
  <2>1. Return /\ irq' \subseteq {"PRCSD", "OUT_OF_DESC", "ERR"}
    BY <1>10 DEF WaitTimeout, WaitError, WaitProcessed
  <2>2. n' \in Nat /\ left' \in Nat /\ n' + left' \in 0 .. N \cup Heap
    BY <1>10, <2>1 DEF WaitTimeout, WaitError, WaitProcessed, Return
  <2>3. flags' \in Flags \cup {NoFlags} /\ buf' \in Bufs \cup {NoBuf}
    BY <2>1 DEF Return
  <2>4. abandoned' \in BOOLEAN
    BY <2>1 DEF Return
  <2>5. pc' = "idle" /\ left' = left /\ ~(left > 0)
    BY <1>10, <2>1 DEF WaitTimeout, WaitError, WaitProcessed, Return
  <2> QED BY <2>1, <2>2, <2>3, <2>4, <2>5 DEF Return
<1>11. CASE HwExecute
  <2>1. rd' \in Slots
    BY <1>11, WrapStep DEF HwExecute
  <2>2. pend' \in Seq(Desc)
    BY <1>11, EnginePending DEF HwExecute
  <2>3. exec' \in Desc
    BY <1>11 DEF HwExecute
  <2> QED BY <1>11, <2>1, <2>2, <2>3 DEF HwExecute
<1>12. CASE \E i \in {"OUT_OF_DESC", "ERR"} : HwRaise(i)
  BY <1>12 DEF HwRaise
<1>13. CASE TimerExpires
  BY <1>13 DEF TimerExpires
<1>14. CASE UNCHANGED vars
  BY <1>14 DEF vars
<1> QED BY <1>1, <1>2, <1>3, <1>4, <1>5, <1>6, <1>7, <1>8, <1>9, <1>10, <1>11,
           <1>12, <1>13, <1>14 DEF Next, Client, Driver, Engine

(* Writing a descriptor keeps the ring in agreement: it lands behind the   *)
(* ones already written and on none that is pending.                       *)
LEMMA WriteKeepsRing ==
  ASSUME IInv, AddDesc, WriteDesc, ~fault'
  PROVE  (InStep /\ RingHolds)'
<1> USE BamAssumption
<1>0. ~fault /\ ~Overruns
  BY Zenon DEF WriteDesc
<1>1. ~fault /\ Len(pend) + n < N /\ InStep /\ RingHolds /\ TypeOK
  <2>1. TypeOK /\ InStep /\ RingHolds
    BY <1>0 DEF IInv, RingAgrees
  <2>2. Len(pend) \in Nat /\ n \in Nat
    BY <2>1 DEF TypeOK
  <2> QED BY <1>0, <2>1, <2>2 DEF Overruns
<1>2. pc = "fill" /\ Len(batch) = n /\ n \in Nat /\ n < N /\ n' = n + 1
  BY <1>1 DEF AddDesc, InStep, TypeOK
<1>3. batch' = Append(batch, NewDesc) /\ pend' = pend /\ rd' = rd /\ evnt' = evnt
  BY DEF AddDesc, WriteDesc, hwVars
<1>4. /\ Len(batch') = n + 1 /\ batch'[n + 1] = NewDesc
      /\ \A j \in 1 .. n : batch'[j] = batch[j]
  BY <1>1, <1>2, <1>3 DEF TypeOK
<1>5. cur = Wrap(evnt + n) /\ cur \in Slots
  BY <1>1, <1>2 DEF InStep, TypeOK
<1>6. mem'[cur] = NewDesc /\ \A s \in Slots : s # cur => mem'[s] = mem[s]
  BY <1>1, <1>5 DEF WriteDesc, TypeOK
<1>7. cur' = Wrap(evnt' + (n + 1))
  BY <1>1, <1>2, <1>3, <1>5 DEF WriteDesc, fifo_getnext, Wrap, Slots, TypeOK
<1>8. ASSUME NEW j \in 1 .. Len(pend)
      PROVE  mem'[Wrap(rd' + (j - 1))] = pend'[j]
  <2>1. evnt = Wrap(rd + Len(pend)) /\ rd \in Slots /\ Len(pend) \in Nat
    BY <1>1 DEF InStep, TypeOK
  <2>2. Wrap(rd + (j - 1)) \in Slots /\ Wrap(rd + (j - 1)) # cur
    BY <2>1, <1>1, <1>2, <1>5 DEF Wrap, Slots
  <2> QED BY <2>2, <1>1, <1>3, <1>6 DEF RingHolds
<1>9. ASSUME NEW j \in 1 .. n + 1
      PROVE  mem'[Wrap(evnt' + (j - 1))] = batch'[j]
  <2>1. CASE j = n + 1
    BY <2>1, <1>2, <1>3, <1>4, <1>5, <1>6
  <2>2. CASE j # n + 1
    <3>1. j \in 1 .. n
      BY <2>2, <1>2
    <3>2. Wrap(evnt + (j - 1)) \in Slots /\ Wrap(evnt + (j - 1)) # cur
      BY <3>1, <1>1, <1>2, <1>5 DEF Wrap, Slots, TypeOK
    <3> QED BY <3>1, <3>2, <1>1, <1>2, <1>3, <1>4, <1>6 DEF RingHolds
  <2> QED BY <2>1, <2>2
<1>10. InStep'
  <2>1. pc' \in {"fill", "notify"}
    BY DEF AddDesc
  <2> QED BY <2>1, <1>1, <1>2, <1>3, <1>4, <1>7 DEF InStep
<1>11. RingHolds'
  <2>1. Len(pend') \in Nat
    BY <1>1, <1>3 DEF TypeOK
  <2> QED BY <2>1, <1>1, <1>2, <1>3, <1>4, <1>8, <1>9 DEF RingHolds
<1> QED BY <1>10, <1>11

(* The notification hands the batch over, or refuses a full ring's worth   *)
(* and leaves the write pointer where the event register is.               *)
LEMMA NotifyKeepsRing ==
  ASSUME IInv, GenEvent, ~fault'
  PROVE  (InStep /\ RingHolds)'
<1> USE BamAssumption
<1>1. ~fault /\ InStep /\ RingHolds /\ TypeOK
  BY DEF IInv, TypeOK, RingAgrees, GenEvent
<1>2. /\ pc = "notify" /\ pc' = "wait" /\ Len(batch) = n /\ batch' = <<>>
      /\ rd' = rd /\ mem' = mem /\ cur' = cur /\ Len(pend) \in Nat /\ n \in Nat /\ n <= N
      /\ rd \in Slots /\ evnt \in Slots
  BY <1>1 DEF GenEvent, InStep, RingHolds, hwVars, TypeOK
<1>3. CASE Refused
  <2>1. evnt' = evnt /\ pend' = pend
    BY <1>3, <1>1 DEF GenEvent
  <2>2. n = N /\ Len(pend) = 0
    BY <1>1, <1>2, <1>3 DEF Refused, RingHolds
  <2>3. cur = evnt /\ cur' = Wrap(evnt' + 0)
    BY <2>1, <2>2, <1>1, <1>2 DEF InStep, Wrap, Slots
  <2> QED BY <2>1, <2>2, <2>3, <1>1, <1>2 DEF InStep, RingHolds
<1>4. CASE ~Refused
  <2>0. ~Overruns
    BY <1>4, Zenon DEF GenEvent
  <2>1. evnt' = Wrap(evnt + n) /\ pend' = pend \o batch /\ Len(pend) + n < N
    BY <1>4, <2>0, <1>2 DEF GenEvent, Overruns
  <2>2. /\ Len(pend') = Len(pend) + n
        /\ \A j \in 1 .. Len(pend) : pend'[j] = pend[j]
        /\ \A j \in 1 .. n : pend'[Len(pend) + j] = batch[j]
    <3>1. pend \in Seq(Desc) /\ batch \in Seq(Desc)
      BY <1>1 DEF TypeOK
    <3>2. pend' \in Seq(Desc) /\ Len(pend') = Len(pend) + Len(batch)
      BY <3>1, <2>1
    <3>3. \A j \in 1 .. Len(pend) + Len(batch) :
             pend'[j] = IF j <= Len(pend) THEN pend[j] ELSE batch[j - Len(pend)]
      BY <3>1, <2>1
    <3> QED BY <3>2, <3>3, <1>2
  <2>3. evnt' = Wrap(rd' + Len(pend')) /\ cur' = Wrap(evnt' + 0)
    <3>1. evnt = Wrap(rd + Len(pend)) /\ cur = Wrap(evnt + n)
      BY <1>1, <1>2 DEF InStep
    <3>2. Wrap(evnt + n) = Wrap(rd + (Len(pend) + n))
      BY <3>1, <2>1, <1>2, WrapAdds
    <3>3. Wrap(evnt + n) \in Slots
      BY <2>1, <1>2 DEF Wrap, Slots
    <3>4. Wrap(Wrap(evnt + n) + 0) = Wrap(evnt + n)
      BY <3>3 DEF Wrap, Slots
    <3> QED BY <3>1, <3>2, <3>4, <2>1, <2>2, <1>2
  <2>4. ASSUME NEW j \in 1 .. Len(pend')
        PROVE  mem'[Wrap(rd' + (j - 1))] = pend'[j]
    <3>1. CASE j \in 1 .. Len(pend)
      BY <3>1, <2>2, <1>1, <1>2 DEF RingHolds
    <3>2. CASE j \notin 1 .. Len(pend)
      <4> DEFINE i == j - Len(pend)
      <4>1. i \in 1 .. n /\ j = Len(pend) + i
        BY <3>2, <2>2, <1>2
      <4>2. Wrap(rd + (j - 1)) = Wrap(evnt + (i - 1))
        <5>1. i - 1 \in Nat /\ Len(pend) + (i - 1) <= N /\ Len(pend) + (i - 1) = j - 1
          BY <4>1, <2>1, <1>2
        <5>2. evnt = Wrap(rd + Len(pend))
          BY <1>1 DEF InStep
        <5> HIDE DEF i
        <5> QED BY <5>1, <5>2, <1>2, WrapAdds
      <4>3. pend'[j] = batch[i]
        BY <4>1, <2>2
      <4>4. mem[Wrap(evnt + (i - 1))] = batch[i]
        BY <4>1, <1>1, <1>2 DEF RingHolds
      <4> QED BY <4>2, <4>3, <4>4, <1>2
    <3> QED BY <3>1, <3>2
  <2>5. InStep'
    BY <2>3, <1>2 DEF InStep
  <2>6. RingHolds'
    BY <2>1, <2>2, <2>4, <1>2 DEF RingHolds
  <2> QED BY <2>5, <2>6
<1> QED BY <1>3, <1>4

(* Executing a descriptor takes the oldest one and leaves the others.      *)
LEMMA ExecuteKeepsRing ==
  ASSUME IInv, HwExecute, ~fault'
  PROVE  (InStep /\ RingHolds)'
<1> USE BamAssumption
<1>1. ~fault /\ InStep /\ RingHolds /\ TypeOK /\ rd # evnt
  BY DEF IInv, TypeOK, RingAgrees, HwExecute
<1>2. pend # <<>> /\ Len(pend) > 0 /\ pend \in Seq(Desc) /\ Len(pend) \in Nat
  BY <1>1, EnginePending DEF IInv, TypeOK
<1>3. pend' = Tail(pend)
  BY <1>1 DEF HwExecute
<1>4. Len(pend') = Len(pend) - 1 /\ \A j \in 1 .. Len(pend') : pend'[j] = pend[j + 1]
  BY <1>2, <1>3
<1>5. /\ evnt' = evnt /\ cur' = cur /\ mem' = mem /\ batch' = batch /\ pc' = pc /\ n' = n
      /\ rd' = Wrap(rd + 1) /\ rd \in Slots /\ evnt \in Slots
  BY <1>1, WrapStep DEF HwExecute, callVars, TypeOK
<1>6. evnt' = Wrap(rd' + Len(pend'))
  BY <1>1, <1>2, <1>4, <1>5 DEF InStep, RingHolds, Wrap, Slots
<1>7. ASSUME NEW j \in 1 .. Len(pend')
      PROVE  mem'[Wrap(rd' + (j - 1))] = pend'[j]
  <2>1. j + 1 \in 1 .. Len(pend) /\ j \in Nat
    BY <1>2, <1>4
  <2>2. Wrap(rd' + (j - 1)) = Wrap(rd + ((j + 1) - 1))
    BY <2>1, <1>1, <1>2, <1>5 DEF RingHolds, Wrap, Slots
  <2> QED BY <2>1, <2>2, <1>1, <1>4, <1>5 DEF RingHolds
<1>8. InStep'
  BY <1>1, <1>5, <1>6 DEF InStep
<1>9. RingHolds'
  <2>1. Len(batch) \in Nat
    BY <1>1 DEF TypeOK
  <2> QED BY <2>1, <1>1, <1>2, <1>4, <1>5, <1>7 DEF RingHolds
<1> QED BY <1>8, <1>9

(* Every step keeps the driver and the engine in agreement.                *)
LEMMA RingStep == IInv /\ [Next]_vars => RingAgrees'
<1> SUFFICES ASSUME IInv, [Next]_vars, ~fault'
             PROVE  (InStep /\ RingHolds)'
  BY DEF RingAgrees
<1> DEFINE ringVars == <<rd, evnt, cur, mem, pend, batch>>
<1>1. ASSUME UNCHANGED ringVars, UNCHANGED fault,
             \/ UNCHANGED pc /\ UNCHANGED n
             \/ pc \in {"wait", "expired"} /\ pc' \in {"expired", "idle"}
             \/ pc = "idle" /\ pc' \in {"fill", "notify"} /\ n' = 0
      PROVE  (InStep /\ RingHolds)'
  <2>1. ~fault /\ InStep /\ RingHolds
    BY <1>1 DEF IInv, RingAgrees
  <2>2. RingHolds'
    BY <2>1, <1>1 DEF RingHolds
  <2>3. InStep'
    BY <2>1, <1>1 DEF InStep
  <2> QED BY <2>2, <2>3
<1>2. CASE Request \/ Rfree \/ Disable \/ \E k \in Sizes : PrepareRcvBuf(k)
  <2>1. UNCHANGED ringVars /\ UNCHANGED fault /\ UNCHANGED pc /\ UNCHANGED n
    BY <1>2 DEF Request, Rfree, Disable, PrepareRcvBuf, callVars, hwVars, ghosts
  <2> QED BY <2>1, <1>1
<1>3. CASE Enable
  <2>1. /\ pend' = <<>> /\ batch' = <<>> /\ rd' = 0 /\ evnt' = 0 /\ cur' = 0
        /\ pc' = "idle"
    BY <1>3 DEF Enable, callVars
  <2> QED BY <2>1, BamAssumption DEF InStep, RingHolds, Wrap
<1>4. CASE (\E k \in Sizes, f \in Flags, b \in Bufs : Send(k, f, b))
           \/ \E f \in Flags, b \in Bufs : Receive(f, b)
  <2>1. /\ UNCHANGED ringVars /\ UNCHANGED fault
        /\ pc = "idle" /\ pc' \in {"fill", "notify"} /\ n' = 0
    BY <1>4 DEF Send, Receive, Begin, hwVars, ghosts
  <2> QED BY <2>1, <1>1
<1>5. CASE AddDesc
  <2>1. WriteDesc
    BY <1>5 DEF AddDesc, RefuseDesc
  <2> QED BY <2>1, <1>5, WriteKeepsRing
<1>6. CASE GenEvent
  BY <1>6, NotifyKeepsRing
<1>7. CASE TimerExpires \/ WaitTimeout \/ WaitError \/ WaitProcessed
  <2>1. /\ UNCHANGED ringVars /\ UNCHANGED fault
        /\ pc \in {"wait", "expired"} /\ pc' \in {"expired", "idle"}
    BY <1>7 DEF TimerExpires, WaitTimeout, WaitError, WaitProcessed, Return, hwVars, ghosts
  <2> QED BY <2>1, <1>1
<1>8. CASE HwExecute
  BY <1>8, ExecuteKeepsRing
<1>9. CASE \E i \in {"OUT_OF_DESC", "ERR"} : HwRaise(i)
  <2>1. UNCHANGED ringVars /\ UNCHANGED fault /\ UNCHANGED pc /\ UNCHANGED n
    BY <1>9 DEF HwRaise, callVars, ghosts
  <2> QED BY <2>1, <1>1
<1>10. CASE UNCHANGED vars
  <2>1. UNCHANGED ringVars /\ UNCHANGED fault /\ UNCHANGED pc /\ UNCHANGED n
    BY <1>10 DEF vars, callVars, hwVars, ghosts
  <2> QED BY <2>1, <1>1
<1> QED BY <1>2, <1>3, <1>4, <1>5, <1>6, <1>7, <1>8, <1>9, <1>10
        DEF Next, Client, Driver, Engine

(* The inductive invariant holds in every reachable state.                  *)
LEMMA Invariance == Spec => []IInv
<1>1. Init => IInv
  <2>1. Init => RingAgrees
    BY BamAssumption DEF Init, RingAgrees, InStep, RingHolds, Wrap
  <2> QED BY <2>1, TypeInit DEF IInv
<1>2. IInv /\ [Next]_vars => IInv'
  BY TypeStep, RingStep DEF IInv
<1> QED BY <1>1, <1>2, PTL DEF Spec

(* Every variable has its type in every reachable state.                   *)
THEOREM TypeCorrect == Spec => []TypeOK
BY Invariance, PTL DEF IInv

(* After any run of accepted, refused, timed out and failed transfers, the *)
(* driver's write pointer, the event register, the engine's offset and the *)
(* ring's contents agree (bam_dma.c, bam_add_one_desc, bam_sys_gen_event). *)
THEOREM RingCorrect == Spec => []RingAgrees
BY Invariance, PTL DEF IInv

(* A notified batch joins the tail of the queue whole.                     *)
LEMMA NotifySubmits ==
  ASSUME IInv, GenEvent, ~fault', ~Refused, n # 0
  PROVE  Queue!Submit
<1> USE BamAssumption
<1>1. ~fault /\ ~Overruns
  BY Zenon DEF GenEvent
<1>2. /\ Len(batch) = n /\ n > 0 /\ n \in Nat /\ exec' = exec
      /\ pend' = pend \o batch /\ pend \in Seq(Desc) /\ batch \in Seq(Desc)
  BY <1>1 DEF IInv, RingAgrees, InStep, TypeOK, GenEvent, hwVars
<1>3. pend' \in Seq(Desc) /\ Len(pend') = Len(pend) + Len(batch) /\ Len(pend) \in Nat
  <2>1. pend \in Seq(Desc) /\ batch \in Seq(Desc) /\ pend' = pend \o batch
    BY <1>2
  <2> QED BY <2>1, ConcatProperties, LenProperties
<1>4. Len(pend) < Len(pend') /\ Len(pend') <= N - 1
  BY <1>1, <1>2, <1>3 DEF Overruns
<1>5. SubSeq(pend', 1, Len(pend)) = pend
  <2>1. SubSeq(pend \o batch, 1, Len(pend)) = pend
    BY <1>2, ConcatProperties, SubSeqProperties, SeqEqual
  <2> QED BY <2>1, <1>2
<1> QED BY <1>1, <1>2, <1>3, <1>4, <1>5 DEF Queue!Submit

(* Every step of the pipe is a step of the queue, or leaves it alone.      *)
LEMMA QueueStep == IInv /\ [Next]_vars => [Queue!QNext]_(Queue!qvars)
<1> SUFFICES ASSUME IInv, [Next]_vars, ~fault'
             PROVE  Queue!QNext \/ UNCHANGED Queue!qvars
  BY DEF Queue!QNext, Queue!Misuse
<1>1. ASSUME UNCHANGED pend, UNCHANGED exec, UNCHANGED fault
      PROVE  UNCHANGED Queue!qvars
  BY <1>1 DEF Queue!qvars
<1>2. CASE Request \/ Rfree \/ Disable \/ (\E k \in Sizes : PrepareRcvBuf(k))
           \/ (\E k \in Sizes, f \in Flags, b \in Bufs : Send(k, f, b))
           \/ (\E f \in Flags, b \in Bufs : Receive(f, b))
  <2>1. UNCHANGED pend /\ UNCHANGED exec /\ UNCHANGED fault
    BY <1>2 DEF Request, Rfree, Disable, PrepareRcvBuf, Send, Receive, Begin, hwVars, ghosts
  <2> QED BY <2>1, <1>1
<1>3. CASE Enable
  BY <1>3 DEF Enable, Queue!QNext, Queue!Reset
<1>4. CASE AddDesc
  <2>1. WriteDesc
    BY <1>4 DEF AddDesc, RefuseDesc
  <2>2. ~fault
    BY <2>1, Zenon DEF WriteDesc
  <2>3. UNCHANGED pend /\ UNCHANGED exec /\ UNCHANGED fault
    BY <1>4, <2>1, <2>2 DEF AddDesc, WriteDesc, hwVars, IInv, TypeOK
  <2> QED BY <2>3, <1>1
<1>5. CASE GenEvent
  <2>1. CASE Refused
    <3>1. ~fault
      BY <1>5, Zenon DEF GenEvent
    <3>2. UNCHANGED pend /\ UNCHANGED exec /\ UNCHANGED fault
      BY <1>5, <2>1, <3>1 DEF GenEvent, hwVars, IInv, TypeOK
    <3> QED BY <3>2, <1>1
  <2>2. CASE ~Refused /\ n # 0
    BY <1>5, <2>2, NotifySubmits DEF Queue!QNext
  <2>3. CASE ~Refused /\ n = 0
    <3>1. ~fault /\ pc = "notify"
      BY <1>5, Zenon DEF GenEvent
    <3>2. batch = <<>> /\ pend \in Seq(Desc)
      BY <2>3, <3>1, EmptySeq DEF IInv, RingAgrees, InStep, TypeOK
    <3>3. UNCHANGED pend /\ UNCHANGED exec /\ UNCHANGED fault
      BY <1>5, <2>3, <3>1, <3>2, ConcatEmptySeq DEF GenEvent, hwVars, IInv, TypeOK
    <3> QED BY <3>3, <1>1
  <2> QED BY <2>1, <2>2, <2>3
<1>6. CASE TimerExpires \/ WaitTimeout \/ WaitError \/ WaitProcessed
  <2>1. UNCHANGED pend /\ UNCHANGED exec /\ UNCHANGED fault
    BY <1>6 DEF TimerExpires, WaitTimeout, WaitError, WaitProcessed, Return, hwVars, ghosts
  <2> QED BY <2>1, <1>1
<1>7. CASE HwExecute
  <2>1. ~fault /\ pend # <<>> /\ Len(pend) > 0
    BY <1>7, EnginePending DEF HwExecute
  <2>2. exec' = mem[rd] /\ pend' = Tail(pend)
    BY <1>7, <2>1 DEF HwExecute
  <2>3. mem[Wrap(rd + (1 - 1))] = pend[1]
    <3>1. Len(pend) \in Nat
      BY DEF IInv, TypeOK
    <3>2. 1 \in 1 .. Len(pend)
      BY <2>1, <3>1
    <3> QED BY <2>1, <3>2 DEF IInv, RingAgrees, RingHolds
  <2>4. Wrap(rd + (1 - 1)) = rd
    BY BamAssumption DEF IInv, TypeOK, Slots, Wrap
  <2>5. exec' = Head(pend)
    BY <2>1, <2>2, <2>3, <2>4 DEF IInv, TypeOK
  <2> QED BY <2>1, <2>2, <2>5 DEF Queue!QNext, Queue!Execute
<1>8. CASE \E i \in {"OUT_OF_DESC", "ERR"} : HwRaise(i)
  <2>1. UNCHANGED pend /\ UNCHANGED exec /\ UNCHANGED fault
    BY <1>8 DEF HwRaise, ghosts
  <2> QED BY <2>1, <1>1
<1>9. CASE UNCHANGED vars
  <2>1. UNCHANGED pend /\ UNCHANGED exec /\ UNCHANGED fault
    BY <1>9 DEF vars, hwVars, ghosts
  <2> QED BY <2>1, <1>1
<1> QED BY <1>2, <1>3, <1>4, <1>5, <1>6, <1>7, <1>8, <1>9
        DEF Next, Client, Driver, Engine

(* The ring implements the bounded queue: as long as its clients respect   *)
(* the ring's size, descriptors are executed in order, each exactly once.  *)
THEOREM QueueImplemented == Spec => ImplementsQueue
<1>1. Init => Queue!QInit
  BY DEF Init, Queue!QInit
<1> QED BY <1>1, Invariance, QueueStep, PTL DEF Spec, ImplementsQueue, Queue!QSpec

\* A transfer asks for an interrupt with its last descriptor only, and while
\* no call was given up nothing is pending when one begins: the interrupt in
\* the register is the one of the call that waits.
OneCall ==
  ~fault /\ ~abandoned =>
    /\ pc \in {"idle", "fill", "notify"} => pend = <<>> /\ "PRCSD" \notin irq
    /\ "PRCSD" \in irq => pend = <<>>
    /\ \A j \in 1 .. Len(pend) : pend[j].int => j = Len(pend)
    /\ \A j \in 1 .. Len(batch) : batch[j].int => pc = "notify" /\ j = Len(batch)

(* A descriptor written asks for an interrupt only if it is the last.      *)
LEMMA WriteAsks ==
  ASSUME IInv, OneCall, AddDesc, ~fault', ~abandoned'
  PROVE  OneCall'
<1>1. WriteDesc /\ ~fault /\ ~abandoned /\ pc = "fill"
  BY Zenon DEF AddDesc, WriteDesc, RefuseDesc
<1>2. /\ pend' = pend /\ irq' = irq /\ pend = <<>> /\ "PRCSD" \notin irq
      /\ batch' = Append(batch, NewDesc) /\ batch \in Seq(Desc)
      /\ pc' = IF left = 1 THEN "notify" ELSE "fill"
  BY <1>1 DEF AddDesc, WriteDesc, OneCall, hwVars, IInv, TypeOK
<1>3. NewDesc.int => left = 1
  BY DEF NewDesc, DescFlags
<1>4. ASSUME NEW j \in 1 .. Len(batch'), batch'[j].int
      PROVE  pc' = "notify" /\ j = Len(batch')
  <2>1. Len(batch') = Len(batch) + 1 /\ Len(batch) \in Nat
    BY <1>2
  <2>2. CASE j = Len(batch) + 1
    <3>1. batch'[j] = NewDesc
      BY <1>2, <2>2
    <3> QED  BY <1>2, <1>3, <1>4, <2>1, <2>2, <3>1
  <2>3. CASE j # Len(batch) + 1
    <3>1. j \in 1 .. Len(batch) /\ batch'[j] = batch[j]
      BY <1>2, <2>1, <2>3
    <3> QED  BY <1>1, <1>4, <3>1 DEF OneCall
  <2> QED  BY <2>2, <2>3
<1> QED  BY <1>2, <1>4 DEF OneCall

(* What was written is handed over with the interrupt at its end.          *)
LEMMA NotifyAsks ==
  ASSUME IInv, OneCall, GenEvent, ~fault', ~abandoned'
  PROVE  OneCall'
<1>1. ~fault /\ ~abandoned /\ pc = "notify" /\ pc' = "wait"
  BY Zenon DEF GenEvent
<1>2. /\ pend = <<>> /\ "PRCSD" \notin irq /\ irq' = irq /\ batch' = <<>> /\ batch \in Seq(Desc)
      /\ \A j \in 1 .. Len(batch) : batch[j].int => j = Len(batch)
  BY <1>1 DEF OneCall, GenEvent, hwVars, IInv, TypeOK
<1>3. pend' = pend \/ pend' = pend \o batch
  BY DEF GenEvent
<1>4. pend \o batch = batch
  BY <1>2, ConcatEmptySeq, Zenon
<1>5. \A j \in 1 .. Len(pend') : pend'[j].int => j = Len(pend')
  <2>1. CASE pend' = pend
    BY <1>2, <2>1
  <2>2. CASE pend' = batch
    BY <1>2, <2>2
  <2> QED  BY <1>3, <1>4, <2>1, <2>2
<1> QED  BY <1>1, <1>2, <1>5 DEF OneCall

(* The descriptor that raises the interrupt is the last one pending.       *)
LEMMA ExecuteAsks ==
  ASSUME IInv, OneCall, HwExecute, ~fault', ~abandoned'
  PROVE  OneCall'
<1>1. /\ ~fault /\ ~abandoned /\ rd # evnt /\ pend' = Tail(pend)
      /\ batch' = batch /\ pc' = pc /\ InStep /\ RingHolds /\ TypeOK
  BY DEF HwExecute, ghosts, callVars, IInv, RingAgrees
<1>2. pend # <<>> /\ pend \in Seq(Desc) /\ Len(pend) \in Nat /\ Len(pend) > 0
  BY <1>1, EnginePending DEF TypeOK
<1>3. mem[rd] = pend[1]
  <2>1. Wrap(rd + (1 - 1)) = rd
    BY <1>1, BamAssumption DEF TypeOK, Slots, Wrap
  <2> QED  BY <1>1, <1>2, <2>1 DEF RingHolds
<1>4. Len(pend') = Len(pend) - 1 /\ \A j \in 1 .. Len(pend') : pend'[j] = pend[j + 1]
  BY <1>1, <1>2
<1>5. "PRCSD" \notin irq /\ \A j \in 1 .. Len(pend) : pend[j].int => j = Len(pend)
  BY <1>1, <1>2 DEF OneCall
<1>6. pc \notin {"idle", "fill", "notify"}
  BY <1>1, <1>2 DEF OneCall
<1>7. "PRCSD" \in irq' => pend' = <<>>
  <2>1. "PRCSD" \in irq' => pend[1].int
    BY <1>3, <1>5 DEF HwExecute
  <2>2. pend[1].int => Len(pend) = 1
    <3>1. 1 \in 1 .. Len(pend)
      BY <1>2
    <3> QED  BY <1>5, <3>1
  <2>3. Len(pend) = 1 => pend' = <<>>
    BY <1>1, <1>2, <1>4, EmptySeq
  <2> QED  BY <2>1, <2>2, <2>3
<1>8. \A j \in 1 .. Len(pend') : pend'[j].int => j = Len(pend')
  BY <1>2, <1>4, <1>5
<1> QED  BY <1>1, <1>6, <1>7, <1>8 DEF OneCall

(* Every step leaves the interrupt to the call that waits.                 *)
LEMMA OneCallStep == IInv /\ OneCall /\ [Next]_vars => OneCall'
<1> SUFFICES ASSUME IInv, OneCall, [Next]_vars, ~fault', ~abandoned' PROVE OneCall'
  BY DEF OneCall
<1>1. ASSUME UNCHANGED <<pend, irq, batch, fault, abandoned>>,
             pc' = pc \/ (pc = "idle" /\ pc' \in {"fill", "notify"})
      PROVE  OneCall'
  BY <1>1 DEF OneCall
<1>2. CASE Request \/ Rfree \/ Disable \/ (\E k \in Sizes : PrepareRcvBuf(k))
           \/ (\E k \in Sizes, f \in Flags, b \in Bufs : Send(k, f, b))
           \/ (\E f \in Flags, b \in Bufs : Receive(f, b)) \/ UNCHANGED vars
  BY <1>1, <1>2 DEF Request, Rfree, Disable, PrepareRcvBuf, Send, Receive, Begin, vars,
     callVars, hwVars, ghosts
<1>3. CASE Enable
  BY <1>3 DEF Enable, callVars, OneCall
<1>4. CASE AddDesc
  BY <1>4, WriteAsks
<1>5. CASE GenEvent
  BY <1>5, NotifyAsks
<1>6. CASE TimerExpires
  BY <1>6 DEF TimerExpires, hwVars, ghosts, OneCall
<1>7. CASE WaitTimeout \/ WaitError \/ WaitProcessed
  <2>1. /\ pc' = "idle" /\ ~abandoned /\ pend = <<>> /\ "PRCSD" \notin irq'
        /\ UNCHANGED <<pend, batch, fault>> /\ pc # "notify"
    BY <1>7, Zenon DEF WaitTimeout, WaitError, WaitProcessed, Return
  <2> QED  BY <2>1 DEF OneCall
<1>8. CASE HwExecute
  BY <1>8, ExecuteAsks
<1>9. CASE \E i \in {"OUT_OF_DESC", "ERR"} : HwRaise(i)
  BY <1>9 DEF HwRaise, callVars, ghosts, OneCall
<1> QED  BY <1>2, <1>3, <1>4, <1>5, <1>6, <1>7, <1>8, <1>9 DEF Next, Client, Driver, Engine

(* As long as no call was given up before its interrupt was taken, a wait  *)
(* that reports the processed interrupt leaves nothing unexecuted          *)
(* (bam_dma.c, bam_wait_for_interrupt).                                    *)
THEOREM WaitIsTrue == Spec => CompletionIsTrue
<1>1. Init => OneCall
  BY DEF Init, OneCall
<1>2. OneCall => [WaitProcessed /\ ~abandoned /\ ~fault => pend = <<>>]_vars
  BY DEF OneCall, WaitProcessed
<1> QED  BY <1>1, <1>2, Invariance, OneCallStep, PTL DEF Spec, CompletionIsTrue
=============================================================================
