---------------------------- MODULE SpscqProofs ----------------------------
(***************************************************************************)
(* The queue of Spscq is a race-free bounded FIFO for every ring size,      *)
(* every non-negative delay and delay -2, and any number of packets.  The   *)
(* argument is the inductive invariant TypeOK /\ RingInv.                   *)
(***************************************************************************)
EXTENDS Spscq, TLAPS

-----------------------------------------------------------------------------
(* Arithmetic of the ring: all of it is linear once slots are compared by   *)
(* their distance from the head instead of by remainders.                   *)

\* Advancing an index, as push and release do, stays inside the ring.
LEMMA IncType == ASSUME NEW i \in Slots PROVE Inc(i) \in Slots
  BY SpscqAssumption DEF Slots, Inc

\* Seen from the next slot every other slot is one place nearer, and the slot
\* left behind is the farthest.
LEMMA DistInc ==
  ASSUME NEW h \in Slots, NEW i \in Slots
  PROVE  Dist(Inc(h), i) = IF i = h THEN N - 1 ELSE Dist(h, i) - 1
  BY SpscqAssumption DEF Slots, Inc, Dist

\* Distances range over 0 .. N - 1.
LEMMA DistType ==
  ASSUME NEW h \in Slots, NEW i \in Slots
  PROVE  Dist(h, i) \in 0 .. N - 1 /\ (Dist(h, i) = 0 <=> i = h)
  BY SpscqAssumption DEF Slots, Dist

\* The slot c places after the head is the only one at distance c.
LEMMA DistWrap ==
  ASSUME NEW h \in Slots, NEW c \in 0 .. N - 1, NEW i \in Slots
  PROVE  /\ Wrap(h + c) \in Slots
         /\ Dist(h, Wrap(h + c)) = c
         /\ Dist(h, i) = c <=> i = Wrap(h + c)
  BY SpscqAssumption DEF Slots, Dist, Wrap

\* Advancing the tail and lengthening the queue by one agree.
LEMMA WrapInc ==
  ASSUME NEW h \in Slots, NEW c \in 0 .. N - 1
  PROVE  Inc(Wrap(h + c)) = Wrap(h + c + 1)
  BY SpscqAssumption DEF Slots, Inc, Wrap

\* Advancing the head and shortening the queue by one leave the tail alone.
LEMMA WrapHead ==
  ASSUME NEW h \in Slots, NEW c \in 1 .. N
  PROVE  Wrap(Inc(h) + (c - 1)) = Wrap(h + c)
  BY SpscqAssumption DEF Slots, Inc, Wrap

-----------------------------------------------------------------------------
\* Every state the program reaches has the shape its declarations give it.
LEMMA TypeInit == Init => TypeOK
  BY SpscqAssumption DEF Init, TypeOK, Slots, PPcs, CPcs, NoVal

\* Every step keeps the types.
LEMMA TypeNext == TypeOK /\ [Next]_vars => TypeOK'
<1> SUFFICES ASSUME TypeOK, [Next]_vars PROVE TypeOK'
  OBVIOUS
<1> USE DEF TypeOK, PPcs, CPcs, ring, sems, tally
<1>1. CASE Request BY <1>1, Zenon DEF Request
<1>2. CASE RequestBlocks BY <1>2, Zenon DEF RequestBlocks
<1>3. CASE TakeW BY <1>3, Zenon DEF TakeW
<1>4. CASE Fill BY <1>4, SMTT(30) DEF Fill
<1>5. CASE PushNothing BY <1>5, Zenon DEF PushNothing
<1>6. CASE PushStamp BY <1>6, SpscqAssumption, SMTT(30) DEF PushStamp
<1>7. CASE PushLen BY <1>7, SMTT(30) DEF PushLen
<1>8. CASE PushValid
  BY <1>8, SpscqAssumption, SMTT(30) DEF PushValid
<1>9. CASE PushAdvance BY <1>9, IncType, Zenon DEF PushAdvance
<1>10. CASE PushGive BY <1>10, Zenon DEF PushGive
<1>11. ASSUME NEW ts \in 0 .. MaxTime, Pop(ts) PROVE TypeOK'
  BY <1>11, Zenon DEF Pop
<1>12. ASSUME NEW ts \in 0 .. MaxTime, PopBlocks(ts) PROVE TypeOK'
  BY <1>12, Zenon DEF PopBlocks
<1>13. CASE TakeR BY <1>13, Zenon DEF TakeR
<1>14. CASE Read BY <1>14, Zenon DEF Read
<1>15. CASE Abandon BY <1>15, Zenon DEF Abandon, NoVal
<1>16. CASE ReleaseValid BY <1>16, SMTT(30) DEF ReleaseValid, NoVal
<1>17. CASE ReleaseAdvance BY <1>17, IncType, Zenon DEF ReleaseAdvance
<1>18. CASE ReleaseGive BY <1>18 DEF ReleaseGive
<1>19. CASE Tick BY <1>19, SpscqAssumption, SMTT(30) DEF Tick
<1>20. CASE Reset
  <2>1. 0 \in Slots BY SpscqAssumption DEF Slots
  <2>2. QED BY <1>20, <2>1, SMTT(30) DEF Reset
<1>21. CASE UNCHANGED vars BY <1>21, Zenon DEF vars
<1>22. QED
  BY <1>1, <1>2, <1>3, <1>4, <1>5, <1>6, <1>7, <1>8, <1>9, <1>10, <1>11, <1>12,
     <1>13, <1>14, <1>15, <1>16, <1>17, <1>18, <1>19, <1>20, <1>21, Zenon
     DEF Next, Producer, Consumer

-----------------------------------------------------------------------------
(* RingInv is inductive relative to TypeOK, one lemma for each side and one *)
(* for the kernel.                                                          *)

\* The ring starts empty.
LEMMA RingInit == Init => RingCore
  BY SpscqAssumption
     DEF Init, RingCore, Head, Tail, Count, Dist, Wrap, Slots, ProducerHolds,
         ConsumerHolds, NoVal

\* The stores of the producer before valid := 1 touch only the free slot it
\* was granted; valid := 1 lengthens the queue; the index follows.
LEMMA RingProducer ==
  ASSUME delay # -1, TypeOK, RingCore, Producer, TypeOK'
  PROVE  RingCore'
<1> USE SpscqAssumption DEF RingCore, ProducerHolds, ConsumerHolds, ring, sems, tally
<1>h. Head \in Slots /\ Count \in 0 .. N /\ write \in Slots /\ read \in Slots
  BY IncType DEF TypeOK, Head
<1>1. CASE Request
  BY <1>1 DEF Request, Head, Tail, Count, TypeOK
<1>2. CASE RequestBlocks
  BY <1>2 DEF RequestBlocks, Head, Tail, Count, TypeOK
<1>3. CASE TakeW
  BY <1>3 DEF TakeW, Head, Tail, Count, TypeOK
<1>4. CASE Fill
  BY <1>4 DEF Fill, Head, Tail, Count, TypeOK
<1>5. CASE PushNothing
  BY <1>5 DEF PushNothing, Head, Tail, Count, TypeOK
<1>6. CASE PushStamp
  <2> USE <1>6 DEF PushStamp
  <2>1. Head' = Head /\ Tail' = Tail /\ Count' = Count
    BY DEF Head, Tail, Count
  <2>2. \A i \in Slots : valid'[i] = 1 <=> Dist(Head', i) < Count'
    BY <2>1
  <2>3. ASSUME NEW i \in Slots, valid'[i] = 1
        PROVE  tstamp'[i] = born'[nrcv' + 1 + Dist(Head', i)] + delay
    <3>1. i # write /\ Dist(Head, i) < Count
      BY <2>3
    <3>2. nrcv + 1 + Dist(Head, i) \in 1 .. nsent
      <4>1. Dist(Head, i) \in 0 .. N - 1
        BY <1>h, DistType
      <4>2. nsent \in Nat /\ nrcv \in Nat
        BY DEF TypeOK
      <4> HIDE DEF RingCore
      <4>3. QED BY <3>1, <4>1, <4>2 DEF Count
    <3>3. nrcv + 1 + Dist(Head, i) # nsent + 1 /\ nsent \in Nat
      BY <3>2 DEF TypeOK
    <3>4. tstamp[i] = born[nrcv + 1 + Dist(Head, i)] + delay
      BY <2>3
    <3>5. nrcv + 1 + Dist(Head, i) \in 1 .. MaxSent
      BY <3>2, SMTT(30) DEF TypeOK
    <3>6. born'[nrcv + 1 + Dist(Head, i)] = born[nrcv + 1 + Dist(Head, i)]
      BY <3>3, <3>5 DEF TypeOK
    <3>7. tstamp'[i] = tstamp[i]
      BY <3>1 DEF TypeOK
    <3> HIDE DEF RingCore
    <3>8. QED BY <2>1, <3>4, <3>6, <3>7
  <2>4. tstamp'[write] = born'[nsent + 1] + delay
    BY DEF TypeOK
  <2>5. read # write \/ ~ConsumerHolds
    OBVIOUS
  <2>6. QED BY <2>1, <2>2, <2>3, <2>4, <2>5, Zenon DEF TypeOK
<1>7. CASE PushLen
  BY <1>7 DEF PushLen, Head, Tail, Count, TypeOK
<1>8. CASE PushValid
  <2> USE <1>8 DEF PushValid
  <2>1. Head' = Head /\ Count' = Count + 1
    BY DEF Head, Count, TypeOK
  <2>2. Count \in 0 .. N - 1 /\ write = Wrap(Head + Count)
    <3>1. write = Wrap(Head + Count)
      BY DEF Tail
    <3>2. Count # N
      <4>1. Dist(Head, write) \in 0 .. N - 1
        BY <1>h, DistType
      <4>2. ~(Dist(Head, write) < Count)
        BY <1>h
      <4>3. QED BY <4>1, <4>2
    <3>3. QED BY <3>1, <3>2, <1>h
  <2>3. Dist(Head, write) = Count
    BY <1>h, <2>2, DistWrap
  <2>4. Tail' = Wrap(Head' + Count')
    <3>1. Tail' = Inc(write)
      BY DEF Tail
    <3>2. Inc(Wrap(Head + Count)) = Wrap(Head + Count + 1)
      BY <1>h, <2>2, WrapInc
    <3>3. Head \in Int /\ Count \in Int
      BY <1>h DEF Slots
    <3> HIDE DEF RingCore
    <3>4. Head + (Count + 1) = Head + Count + 1
      BY <3>3
    <3>5. QED BY <2>1, <2>2, <3>1, <3>2, <3>4
  <2>5. \A i \in Slots : valid'[i] = 1 <=> Dist(Head', i) < Count'
    <3>1. TAKE i \in Slots
    <3>2. Dist(Head, i) = Count <=> i = write
      BY <1>h, <2>2, DistWrap
    <3>3. Dist(Head, i) \in 0 .. N - 1
      BY <1>h, DistType
    <3>4. valid'[i] = 1 <=> (i = write \/ valid[i] = 1)
      BY DEF TypeOK
    <3>5. valid[i] = 1 <=> Dist(Head, i) < Count
      OBVIOUS
    <3> HIDE DEF RingCore
    <3>6. Dist(Head, i) < Count + 1 <=> (Dist(Head, i) = Count \/ Dist(Head, i) < Count)
      BY <2>2, <3>3
    <3>7. QED BY <2>1, <3>2, <3>4, <3>5, <3>6
  <2>6. ASSUME NEW i \in Slots, valid'[i] = 1
        PROVE  /\ data'[i] = nrcv' + 1 + Dist(Head', i)
               /\ len'[i] = nrcv' + 1 + Dist(Head', i)
               /\ tstamp'[i] = born'[nrcv' + 1 + Dist(Head', i)] + delay
    <3>1. CASE i = write
      <4>1. nrcv + 1 + Dist(Head, i) = nsent + 1
        BY <2>3, <3>1 DEF Count, TypeOK
      <4>2. QED BY <2>1, <3>1, <4>1, Zenon
    <3>2. CASE i # write
      BY <2>1, <2>6, <3>2 DEF TypeOK
    <3>3. QED BY <3>1, <3>2, Zenon
  <2>7. ConsumerHolds' => valid'[read'] = 1
    BY DEF TypeOK
  <2>8. QED BY <2>1, <2>2, <2>4, <2>5, <2>6, <2>7
<1>9. CASE PushAdvance
  BY <1>9, Zenon DEF PushAdvance, Head, Tail, Count, TypeOK
<1>10. CASE PushGive
  BY <1>10, Zenon DEF PushGive, Head, Tail, Count, TypeOK
<1>11. QED
  BY <1>1, <1>2, <1>3, <1>4, <1>5, <1>6, <1>7, <1>8, <1>9, <1>10, Zenon DEF Producer

\* A pop finds the head of the queue; valid := 0 shortens the queue by it; the
\* index follows.
LEMMA RingConsumer ==
  ASSUME delay # -1, TypeOK, RingCore, Consumer, TypeOK'
  PROVE  RingCore'
<1> USE SpscqAssumption DEF RingCore, ProducerHolds, ConsumerHolds, ring, sems, tally
<1>h. Head \in Slots /\ Count \in 0 .. N /\ write \in Slots /\ read \in Slots
  BY IncType DEF TypeOK, Head
<1>1. ASSUME NEW ts \in 0 .. MaxTime, Pop(ts) PROVE RingCore'
  <2> USE <1>1 DEF Pop
  <2>1. Head' = Head /\ Tail' = Tail /\ Count' = Count /\ Head = read
    BY DEF Head, Tail, Count
  <2>2. valid[read] = 1
    BY SMTT(30) DEF IsEmpty, TypeOK
  <2>3. Dist(Head, read) = 0
    BY <1>h, <2>1, DistType
  <2>4. len[read] = nrcv + 1
    BY <1>h, <2>2, <2>3 DEF TypeOK
  <2>5. delay >= 0 => tstamp[read] <= time
    BY <1>h, SMTT(30) DEF NotDue, TypeOK
  <2>6. QED BY <2>1, <2>2, <2>4, <2>5, Zenon DEF TypeOK
<1>2. ASSUME NEW ts \in 0 .. MaxTime, PopBlocks(ts) PROVE RingCore'
  BY <1>2, Zenon DEF PopBlocks
<1>3. CASE TakeR
  BY <1>3, Zenon DEF TakeR, Head, Tail, Count, TypeOK
<1>4. CASE Read
  <2> USE <1>4 DEF Read
  <2>1. Head' = Head /\ Tail' = Tail /\ Count' = Count /\ Head = read
    BY DEF Head, Tail, Count
  <2>2. Dist(Head, read) = 0
    BY <1>h, <2>1, DistType
  <2>3. data[read] = nrcv + 1
    BY <1>h, <2>2 DEF TypeOK
  <2>4. QED BY <2>1, <2>3 DEF TypeOK
<1>5. CASE Abandon
  BY <1>5, Zenon DEF Abandon, NoVal, Head, Tail, Count, TypeOK
<1>6. CASE ReleaseValid
  <2> USE <1>6 DEF ReleaseValid
  <2>1. Head = read /\ Head' = Inc(read) /\ Tail' = Tail /\ Count' = Count - 1
    BY SMTT(30) DEF Head, Tail, Count, TypeOK
  <2>2. Dist(Head, read) = 0 /\ Count \in 1 .. N
    BY <1>h, <2>1, DistType
  <2>3. Tail' = Wrap(Head' + Count')
    BY <1>h, <2>1, <2>2, WrapHead
  <2>4. ASSUME NEW i \in Slots
        PROVE  Dist(Head', i) = IF i = read THEN N - 1 ELSE Dist(Head, i) - 1
    BY <1>h, <2>1, DistInc
  <2>5. ASSUME NEW i \in Slots
        PROVE  valid'[i] = 1 <=> (i # read /\ valid[i] = 1)
    BY SMTT(30) DEF TypeOK
  <2>6. ASSUME NEW i \in Slots PROVE valid'[i] = 1 <=> Dist(Head', i) < Count'
    <3>1. Dist(Head, i) \in 0 .. N - 1
      BY <1>h, DistType
    <3>2. valid[i] = 1 <=> Dist(Head, i) < Count
      OBVIOUS
    <3>3. Dist(Head', i) = IF i = read THEN N - 1 ELSE Dist(Head, i) - 1
      BY <2>4, Zenon
    <3>4. valid'[i] = 1 <=> (i # read /\ valid[i] = 1)
      BY <2>5, Zenon
    <3> HIDE DEF RingCore
    <3>5. QED BY <2>1, <2>2, <3>1, <3>2, <3>3, <3>4
  <2>7. ASSUME NEW i \in Slots, valid'[i] = 1
        PROVE  nrcv' + 1 + Dist(Head', i) = nrcv + 1 + Dist(Head, i)
    <3>1. Dist(Head, i) \in 0 .. N - 1 /\ nrcv \in Nat
      BY <1>h, DistType, Zenon DEF TypeOK
    <3>2. Dist(Head', i) = Dist(Head, i) - 1
      BY <2>4, <2>5, <2>7, Zenon
    <3> HIDE DEF RingCore
    <3>3. QED BY <3>1, <3>2
  <2>8. ASSUME NEW i \in Slots, valid'[i] = 1
        PROVE  /\ data'[i] = nrcv' + 1 + Dist(Head', i)
               /\ len'[i] = nrcv' + 1 + Dist(Head', i)
               /\ tstamp'[i] = born'[nrcv' + 1 + Dist(Head', i)] + delay
    BY <2>5, <2>7, <2>8, Zenon
  <2>9. ProducerHolds' => valid'[write'] = 0
    BY Zenon DEF TypeOK
  <2>10. QED BY <2>1, <2>2, <2>3, <2>6, <2>8, <2>9 DEF NoVal
<1>7. CASE ReleaseAdvance
  BY <1>7, Zenon DEF ReleaseAdvance, Head, Tail, Count, TypeOK
<1>8. CASE ReleaseGive
  BY <1>8, Zenon DEF ReleaseGive, Head, Tail, Count, TypeOK
<1>9. QED
  BY <1>1, <1>2, <1>3, <1>4, <1>5, <1>6, <1>7, <1>8, Zenon DEF Consumer

\* Time only makes packets due; reset empties the ring.
LEMMA RingKernel ==
  ASSUME delay # -1, TypeOK, RingCore, Tick \/ Reset, TypeOK'
  PROVE  RingCore'
<1> USE SpscqAssumption DEF RingCore, ProducerHolds, ConsumerHolds, ring, sems, tally
<1>1. CASE Tick
  BY <1>1, SMTT(30) DEF Tick, Head, Tail, Count, TypeOK
<1>2. CASE Reset
  BY <1>2, SMTT(30) DEF Reset, Head, Tail, Count, Dist, Wrap, Slots, TypeOK
<1>3. QED BY <1>1, <1>2, Zenon

\* Every step keeps the ring's invariant.
LEMMA RingNext ==
  ASSUME delay # -1, TypeOK, RingCore, [Next]_vars, TypeOK'
  PROVE  RingCore'
<1>1. CASE UNCHANGED vars
  BY <1>1, Zenon DEF vars, ring, sems, tally, RingCore, ProducerHolds, ConsumerHolds, Head, Tail, Count
<1>2. QED
  BY <1>1, RingProducer, RingConsumer, RingKernel DEF Next

\* Nothing changes the delay of an interface once it exists.
LEMMA DelayFixed == [Next]_vars => delay' = delay
  BY DEF Next, vars, Producer, Consumer, Request, RequestBlocks, TakeW, Fill,
         PushNothing, PushStamp, PushLen, PushValid, PushAdvance, PushGive, Pop,
         PopBlocks, TakeR, Read, Abandon, ReleaseValid, ReleaseAdvance,
         ReleaseGive, Tick, Reset

-----------------------------------------------------------------------------
\* The variables of the queue always have their types, for every delay.
THEOREM TypeCorrect == Spec => []TypeOK
  BY TypeInit, TypeNext, PTL DEF Spec

\* The ring invariant holds in every state, for every delay but -1.
THEOREM RingCorrect == Spec => []RingInv
<1>1. Init => TypeOK /\ RingInv
  BY TypeInit, RingInit DEF RingInv
<1>2. TypeOK /\ RingInv /\ [Next]_vars => (TypeOK /\ RingInv)'
  BY TypeNext, RingNext, DelayFixed DEF RingInv
<1>3. QED BY <1>1, <1>2, PTL DEF Spec

\* request/push and pop/release never give both modules the same slot.
THEOREM ZeroCopyIsRaceFree == Spec => []SlotExclusive
<1>1. RingInv => SlotExclusive
  BY DEF RingInv, RingCore, SlotExclusive, ProducerHolds, ConsumerHolds
<1>2. QED BY <1>1, RingCorrect, PTL

\* The consumer reads packet nrcv+1, whole, whenever it reads.
THEOREM PacketsInOrder == Spec => []FifoOrder
<1>1. TypeOK /\ RingInv => FifoOrder
  BY Zenon DEF TypeOK, RingInv, RingCore, FifoOrder, ConsumerHolds
<1>2. QED BY <1>1, TypeCorrect, RingCorrect, PTL

\* The slot at the head of the queue holds packet nrcv+1.
LEMMA HeadSlot ==
  ASSUME TypeOK, RingCore, ConsumerHolds
  PROVE  Head = read /\ Dist(Head, read) = 0 /\ Count \in 1 .. N
         /\ data[read] = nrcv + 1 /\ tstamp[read] = born[nrcv + 1] + delay
<1>1. Head = read /\ read \in Slots /\ valid[read] = 1
  BY SMTT(30) DEF ConsumerHolds, Head, TypeOK, RingCore
<1>2. Dist(Head, read) = 0
  BY <1>1, DistType
<1>3. Count \in 1 .. N
  BY <1>1, <1>2, SpscqAssumption DEF RingCore
<1>4. nrcv + 1 + Dist(Head, read) = nrcv + 1
  BY <1>2 DEF TypeOK
<1>5. QED BY <1>1, <1>2, <1>3, <1>4 DEF RingCore

\* No packet is received before the slot it was pushed in plus the delay.
THEOREM DelayIsKept == Spec => []NotBeforeDue
<1>1. TypeOK /\ RingInv => NotBeforeDue
  BY HeadSlot DEF RingInv, RingCore, NotBeforeDue
<1>2. QED BY <1>1, TypeCorrect, RingCorrect, PTL

-----------------------------------------------------------------------------
(* Refinement: push's valid := 1 is Write, pop is Get, reading is Look,     *)
(* release's valid := 0 is GiveBack; every other step leaves the channel    *)
(* as it is.                                                                *)

\* Every step of the ring is a step of the queue, or leaves the queue as it is.
LEMMA FifoStep ==
  ASSUME delay # -1, TypeOK, RingCore, [Next]_vars
  PROVE  [Fifo!FNext]_(Fifo!fvars)
<1> USE DEF Fifo!FNext, Fifo!fvars, ConsumerHolds, ring, sems, tally
<1>1. CASE PushValid
  <2>1. Count < N
    <3>1. write \in Slots /\ Head \in Slots
      BY IncType DEF TypeOK, Head
    <3>2. Dist(Head, write) \in 0 .. N - 1
      BY <3>1, DistType
    <3>3. ~(Dist(Head, write) < Count) /\ Count \in 0 .. N
      BY <1>1, <3>1 DEF PushValid, RingCore, ProducerHolds
    <3>4. QED BY <3>2, <3>3, SpscqAssumption
  <2>2. QED BY <1>1, <2>1 DEF PushValid, Fifo!Write, Count
<1>2. ASSUME NEW ts \in 0 .. MaxTime, Pop(ts) PROVE Fifo!Get
  <2>1. valid[read] = 1 /\ read \in Slots /\ Head = read
    BY <1>2, SpscqAssumption DEF Pop, IsEmpty, TypeOK, Head
  <2>2. Dist(Head, read) = 0
    BY <2>1, DistType
  <2>3. nrcv < nsent
    BY <2>1, <2>2, SpscqAssumption DEF RingCore, Count, TypeOK
  <2>4. cval.data = 0 /\ cval'.data = 0
    BY <1>2, Zenon DEF Pop, RingCore
  <2>5. QED BY <1>2, <2>3, <2>4 DEF Pop, Fifo!Get
<1>3. CASE Read
  <2>1. data[read] = nrcv + 1
    BY <1>3, HeadSlot DEF Read
  <2>2. cval'.data = nrcv + 1
    <3>1. cval' = [cval EXCEPT !.data = data[read]]
      BY <1>3 DEF Read
    <3>2. cval \in [len : Nat, data : Nat]
      BY DEF TypeOK
    <3>3. QED BY <2>1, <3>1, <3>2
  <2>3. QED BY <1>3, <2>2 DEF Read, Fifo!Look
<1>4. CASE Abandon
  BY <1>4 DEF Abandon, Fifo!Keep, NoVal
<1>5. CASE ReleaseValid
  BY <1>5 DEF ReleaseValid, Fifo!GiveBack, NoVal, RingCore
<1>6. CASE Reset
  BY <1>6 DEF Reset, Fifo!Drop
<1>7. CASE Request \/ RequestBlocks \/ TakeW \/ Fill \/ PushNothing \/ PushStamp
           \/ PushLen \/ PushAdvance \/ PushGive
  BY <1>7, Zenon DEF Request, RequestBlocks, TakeW, Fill, PushNothing, PushStamp,
              PushLen, PushAdvance, PushGive
<1>8. CASE TakeR \/ ReleaseAdvance \/ ReleaseGive \/ Tick
  BY <1>8, SMTT(30) DEF TakeR, ReleaseAdvance, ReleaseGive, Tick
<1>9. ASSUME NEW ts \in 0 .. MaxTime, PopBlocks(ts) PROVE FALSE
  BY <1>9 DEF PopBlocks
<1>10. CASE UNCHANGED vars
  BY <1>10 DEF vars
<1>11. QED
  BY <1>1, <1>2, <1>3, <1>4, <1>5, <1>6, <1>7, <1>8, <1>9, <1>10, Zenon
     DEF Next, Producer, Consumer

\* The lock-free ring implements the bounded FIFO channel of N packets.
THEOREM RingImplementsFifo == Spec => ImplementsFifo
<1>1. Init => Fifo!FInit
  BY DEF Init, Fifo!FInit, ConsumerHolds, NoVal
<1>2. TypeOK /\ RingInv /\ [Next]_vars => [Fifo!FNext]_(Fifo!fvars)
  BY FifoStep, DelayFixed DEF RingInv, Fifo!FNext
<1>3. QED
  BY <1>1, <1>2, TypeCorrect, RingCorrect, PTL
     DEF Spec, ImplementsFifo, Fifo!FSpec
=============================================================================
