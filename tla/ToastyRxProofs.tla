--------------------------- MODULE ToastyRxProofs ---------------------------
(***************************************************************************)
(* Proofs about ToastyRx for every number of frames, ring size, batch size *)
(* and width of the pointers.                                              *)
(***************************************************************************)
EXTENDS ToastyRxInv, XskRingProofs

Quiet == {"loop", "poll", "peek", "recvfrom", "returned", "exit"}

\* Steps of receive_all and of the system calls touch no ring: they keep the
\* invariant.
LEMMA QuietStep ==
    ASSUME TypeOK, PointersOK,
           UNCHANGED <<fillVars, rx, nic, idx_rx>>, benchmark_done' \in BOOLEAN,
           \/ pc' = pc
           \/ pc \in Quiet /\ pc' \in Quiet
    PROVE  TypeOK' /\ PointersOK'
<1>1. TypeOK'
  BY DEF TypeOK, FillTypeOK, fillVars, AppSteps, Quiet
<1>2. FillPointersOK'
  BY DEF PointersOK, FillPointersOK, fillVars, Quiet, ReservedPc, Used, FillEnd, Written
<1>3. RxPointersOK'
  BY DEF PointersOK, RxPointersOK, fillVars, Quiet, Peeked, Used, Processed, Written
<1>4. BatchOK'
  BY DEF PointersOK, BatchOK, fillVars, Quiet, Peeked
<1>5. ToAddOK'
  BY DEF PointersOK, ToAddOK, fillVars, Quiet
<1>6. (InFill + InRx + Len(nic) = NumFrames)'
  BY DEF PointersOK, fillVars, Quiet, InFill, InRx, FillEnd
<1> QED
  BY <1>1, <1>2, <1>3, <1>4, <1>5, <1>6 DEF PointersOK

\* The constants and the pointers are numbers.
LEMMA Numbers ==
    ASSUME TypeOK
    PROVE  /\ NumFrames \in Nat \ {0} /\ NumFrames < U32 /\ U32 \in Nat
           /\ RxSize \in Nat \ {0} /\ RxSize < U32 /\ BatchSize \in Nat \ {0}
           /\ fq \in Rings(NumFrames, Frames)
           /\ fq.cached_prod \in U32Values /\ fq.cached_cons \in U32Values
           /\ fq.producer \in U32Values /\ fq.consumer \in U32Values
           /\ fq.size = NumFrames /\ fq.ring \in [Frames -> Frames]
           /\ rx \in Rings(RxSize, Frames)
           /\ rx.cached_prod \in U32Values /\ rx.cached_cons \in U32Values
           /\ rx.producer \in U32Values /\ rx.consumer \in U32Values
           /\ rx.size = RxSize /\ rx.ring \in [Slots(RxSize) -> Frames]
           /\ idx_rx \in U32Values /\ idx_fq \in U32Values
           /\ prev_consumer \in U32Values /\ target \in U32Values
           /\ rcvd \in Nat /\ i \in Nat /\ to_add \in -1 .. NumFrames
           /\ nic \in Seq(Frames) /\ Len(nic) \in Nat
           /\ Used(fq) \in U32Values /\ Used(rx) \in U32Values
           /\ InFill \in U32Values /\ InRx \in U32Values
           /\ u32(fq.cached_cons - fq.producer) \in U32Values
           /\ u32(rx.cached_prod - rx.consumer) \in U32Values
           /\ u32(fq.producer - prev_consumer) \in U32Values
           /\ FillEnd \in U32Values
<1>2. fq \in Rings(NumFrames, Frames) /\ rx \in Rings(RxSize, Frames)
  BY DEF TypeOK, FillTypeOK
<1>3. /\ fq.cached_prod \in U32Values /\ fq.cached_cons \in U32Values
      /\ fq.producer \in U32Values /\ fq.consumer \in U32Values
      /\ fq.size = NumFrames /\ fq.ring \in [Frames -> Frames]
  BY <1>2 DEF Rings, Slots, Frames
<1>4. /\ rx.cached_prod \in U32Values /\ rx.cached_cons \in U32Values
      /\ rx.producer \in U32Values /\ rx.consumer \in U32Values
      /\ rx.size = RxSize /\ rx.ring \in [Slots(RxSize) -> Frames]
  BY <1>2 DEF Rings
<1>5. /\ idx_rx \in U32Values /\ idx_fq \in U32Values
      /\ prev_consumer \in U32Values /\ target \in U32Values
      /\ rcvd \in Nat /\ i \in Nat /\ to_add \in -1 .. NumFrames
      /\ nic \in Seq(Frames) /\ Len(nic) \in Nat
  BY DEF TypeOK, FillTypeOK
<1>6. FillEnd \in U32Values
  BY <1>5, U32Nat, 1 \in Nat DEF FillEnd
<1>7. /\ Used(fq) \in U32Values /\ Used(rx) \in U32Values
      /\ InFill \in U32Values /\ InRx \in U32Values
  BY <1>3, <1>4, <1>5, <1>6, U32Nat DEF Used, InFill, InRx
<1>8. /\ u32(fq.cached_cons - fq.producer) \in U32Values
      /\ u32(rx.cached_prod - rx.consumer) \in U32Values
      /\ u32(fq.producer - prev_consumer) \in U32Values
  BY <1>3, <1>4, <1>5, U32Nat
<1> QED
  BY <1>2, <1>3, <1>4, <1>5, <1>6, <1>7, <1>8,
     U32Assumption, NumFramesAssumption, RxAssumption

\* The distances between the pointers are numbers.
LEMMA Sizes ==
    ASSUME TypeOK
    PROVE  /\ NumFrames \in Nat /\ RxSize \in Nat /\ U32 \in Nat /\ NumFrames < U32
           /\ RxSize < U32 /\ NumFrames > 0 /\ RxSize > 0
           /\ rcvd \in Nat /\ i \in Nat /\ to_add \in Int /\ Len(nic) \in Nat
           /\ Used(fq) \in Nat /\ Used(rx) \in Nat /\ InFill \in Nat /\ InRx \in Nat
           /\ u32(fq.cached_cons - fq.producer) \in Nat
           /\ u32(rx.cached_prod - rx.consumer) \in Nat
           /\ u32(fq.producer - prev_consumer) \in Nat
           /\ u32(fq.producer - fq.consumer) = Used(fq)
           /\ u32(rx.producer - rx.consumer) = Used(rx)
<1>1. /\ NumFrames \in Nat /\ RxSize \in Nat /\ U32 \in Nat /\ NumFrames < U32
      /\ RxSize < U32 /\ NumFrames > 0 /\ RxSize > 0
      /\ rcvd \in Nat /\ i \in Nat /\ to_add \in Int /\ Len(nic) \in Nat
  BY Numbers
<1>2. /\ Used(fq) \in U32Values /\ Used(rx) \in U32Values
      /\ InFill \in U32Values /\ InRx \in U32Values
      /\ u32(fq.cached_cons - fq.producer) \in U32Values
      /\ u32(rx.cached_prod - rx.consumer) \in U32Values
      /\ u32(fq.producer - prev_consumer) \in U32Values
  BY Numbers
<1>3. /\ Used(fq) \in Nat /\ Used(rx) \in Nat /\ InFill \in Nat /\ InRx \in Nat
      /\ u32(fq.cached_cons - fq.producer) \in Nat
      /\ u32(rx.cached_prod - rx.consumer) \in Nat
      /\ u32(fq.producer - prev_consumer) \in Nat
  BY <1>2, U32Nat
<1> QED
  BY <1>1, <1>3 DEF Used

\* How many frames there are in each place, in terms of the shared pointers.
LEMMA Distances ==
    ASSUME TypeOK, PointersOK
    PROVE  /\ Written \in Nat /\ Processed \in Nat
           /\ InFill = Used(fq) + Written
           /\ InRx = Used(rx) - Processed
           /\ Processed <= Used(rx)
           /\ ReservedPc => Used(fq) + rcvd <= NumFrames /\ Written <= rcvd
           /\ Peeked => rcvd <= Used(rx)
<1>0. /\ rcvd \in Nat /\ i \in Nat /\ NumFrames \in Nat /\ U32 \in Nat
      /\ NumFrames < U32 /\ Used(fq) \in Nat /\ Used(rx) \in Nat
  BY Sizes
<1>a. /\ u32(fq.cached_cons - fq.producer) \in Nat
      /\ u32(rx.cached_prod - rx.consumer) \in Nat
  BY Sizes
<1>b. /\ u32(fq.cached_cons - fq.producer) + Used(fq) <= NumFrames
      /\ ReservedPc => rcvd <= u32(fq.cached_cons - fq.producer)
  BY DEF PointersOK, FillPointersOK
<1>c. /\ u32(rx.cached_prod - rx.consumer) <= Used(rx)
      /\ Peeked => rcvd <= u32(rx.cached_prod - rx.consumer)
  BY DEF PointersOK, RxPointersOK
<1>1. Written \in Nat /\ Processed \in Nat
  BY <1>0 DEF Written, Processed
<1>2. ReservedPc => Used(fq) + rcvd <= NumFrames
  BY <1>0, <1>a, <1>b
<1>3. /\ ReservedPc => Written <= rcvd
      /\ ~ReservedPc => Written = 0
  BY <1>0 DEF PointersOK, BatchOK, ReservedPc, Written
<1>4. /\ Peeked => Processed <= rcvd
      /\ ~Peeked => Processed = 0
  BY <1>0 DEF PointersOK, BatchOK, Peeked, Written, Processed
<1>5. Peeked => rcvd <= Used(rx)
  BY <1>0, <1>a, <1>c
<1>6. Processed <= Used(rx)
  BY <1>0, <1>1, <1>4, <1>5
<1>7. Used(fq) + Written < U32
  <2>1. Used(fq) <= NumFrames
    BY <1>0, <1>a, <1>b
  <2> QED
    BY <1>0, <1>1, <1>2, <1>3, <2>1
<1>8. InFill = Used(fq) + Written
  BY <1>1, <1>7, Numbers, DistAdd DEF PointersOK, FillPointersOK, InFill, Used
<1>9. InRx = Used(rx) - Processed
  BY <1>1, <1>6, Numbers, DistSub DEF PointersOK, RxPointersOK, InRx, Used
<1> QED
  BY <1>1, <1>2, <1>3, <1>5, <1>6, <1>8, <1>9

\* Peeking at the rx ring, with or without a look at its producer, keeps it.
LEMMA PeekStep ==
    ASSUME TypeOK, PointersOK, Peek
    PROVE  TypeOK' /\ PointersOK'
<1> DEFINE n == xsk_cons_nb_avail(rx, BatchSize)
           q == ConsRefreshed(rx)
<1>0. pc = "peek"
  BY DEF Peek
<1>2. q \in Rings(RxSize, Frames) /\ q.producer = rx.producer
        /\ q.consumer = rx.consumer /\ q.cached_cons = rx.cached_cons
        /\ q.ring = rx.ring /\ q.size = rx.size /\ q.cached_prod \in U32Values
  BY Numbers DEF Rings, ConsRefreshed
<1>3. rx.cached_cons = rx.consumer /\ idx_rx = rx.consumer
  BY <1>0, Numbers, U32Small DEF PointersOK, RxPointersOK, Peeked, Processed, Written
<1>4. u32(q.cached_prod - q.consumer) <= Used(rx)
  <2>1. q.cached_prod \in {rx.producer, rx.cached_prod}
    BY Numbers DEF Rings, ConsRefreshed
  <2> HIDE DEF q
  <2>2. u32(rx.producer - rx.consumer) <= Used(rx)
    BY Numbers, U32Nat DEF Used
  <2>3. u32(rx.cached_prod - rx.consumer) <= Used(rx)
    BY DEF PointersOK, RxPointersOK
  <2> QED
    BY <1>2, <2>1, <2>2, <2>3
<1>5. n \in Nat /\ n <= u32(q.cached_prod - q.consumer)
  <2>1. u32(q.cached_prod - q.consumer) \in Nat
    BY <1>2, Numbers, U32Nat
  <2>2. n = IF u32(q.cached_prod - q.consumer) > BatchSize
            THEN BatchSize ELSE u32(q.cached_prod - q.consumer)
    BY <1>2, <1>3 DEF xsk_cons_nb_avail
  <2> HIDE DEF n, q
  <2> QED
    BY <2>1, <2>2, Numbers
<1>6. /\ rx' \in Rings(RxSize, Frames)
      /\ rx'.cached_prod = q.cached_prod /\ rx'.producer = rx.producer
      /\ rx'.consumer = rx.consumer /\ rx'.cached_cons = u32(rx.consumer + n)
  <2>1. rx' = [q EXCEPT !.cached_cons = u32(q.cached_cons + n)]
    BY DEF Peek, xsk_ring_cons__peek
  <2>2. u32(q.cached_cons + n) \in U32Values
    BY <1>2, <1>5, Numbers, U32Nat
  <2> HIDE DEF n, q
  <2> QED
    BY <1>2, <1>3, <2>1, <2>2 DEF Rings
<1>7. /\ fq' = fq /\ to_add' = to_add /\ prev_consumer' = prev_consumer
      /\ idx_fq' = idx_fq /\ nic' = nic /\ opt' = opt /\ target' = target
      /\ oldval' = oldval /\ benchmark_done' = benchmark_done
      /\ idx_rx' = idx_rx
      /\ \/ n = 0 /\ pc' \in {"recvfrom", "returned"} /\ rcvd' = rcvd /\ i' = i
         \/ n # 0 /\ pc' = "reserve" /\ rcvd' = n /\ i' = 0
  BY <1>3 DEF Peek
<1> HIDE DEF n, q
<1>8. TypeOK'
  BY <1>5, <1>6, <1>7 DEF TypeOK, FillTypeOK, AppSteps
<1>9. FillPointersOK'
  BY <1>0, <1>7 DEF PointersOK, FillPointersOK, ReservedPc, Used, FillEnd, Written
<1>10. RxPointersOK'
  BY <1>0, <1>2, <1>3, <1>4, <1>5, <1>6, <1>7, Numbers, U32Small
     DEF PointersOK, RxPointersOK, Peeked, Used, Processed, Written
<1>11. BatchOK'
  BY <1>0, <1>5, <1>7 DEF PointersOK, BatchOK, Peeked
<1>12. ToAddOK'
  BY <1>0, <1>7 DEF PointersOK, ToAddOK
<1>13. (InFill + InRx + Len(nic) = NumFrames)'
  BY <1>0, <1>6, <1>7 DEF PointersOK, InFill, InRx, FillEnd
<1> QED
  BY <1>8, <1>9, <1>10, <1>11, <1>12, <1>13 DEF PointersOK

\* The reservation in the fill ring keeps it and is granted in full: the frames
\* of the batch are missing from the ring, so there is room for them.
LEMMA ReserveStep ==
    ASSUME TypeOK, PointersOK, Reserve
    PROVE  TypeOK' /\ PointersOK'
<1> DEFINE q == ProdRefreshed(fq, rcvd)
<1>0. pc = "reserve" /\ i = 0 /\ rcvd > 0 /\ rcvd \in Nat
  BY Numbers DEF Reserve, PointersOK, BatchOK, Peeked
<1>1. /\ fq.cached_prod = fq.producer
      /\ idx_fq = fq.producer
  BY <1>0, Numbers, U32Small DEF PointersOK, FillPointersOK, ReservedPc, FillEnd, Written
<1>2. Used(fq) + rcvd <= NumFrames
  <2>1. Used(fq) + Used(rx) <= NumFrames
    <3>1. /\ InFill = Used(fq) + Written /\ InRx = Used(rx) - Processed
          /\ InFill + InRx + Len(nic) = NumFrames
      BY Distances DEF PointersOK
    <3>2. Written = 0 /\ Processed = 0
      BY <1>0 DEF Written, Processed
    <3>3. /\ Used(fq) \in Nat /\ Used(rx) \in Nat /\ Len(nic) \in Nat
          /\ NumFrames \in Nat
      BY Sizes
    <3> QED
      BY <3>1, <3>2, <3>3
  <2>2. rcvd <= Used(rx)
    BY <1>0, Distances DEF Peeked
  <2>3. Used(fq) \in Nat /\ Used(rx) \in Nat /\ NumFrames \in Nat
    BY Sizes
  <2> QED
    BY <1>0, <2>1, <2>2, <2>3
<1>3. /\ q \in Rings(NumFrames, Frames) /\ q.cached_prod = fq.cached_prod
      /\ q.producer = fq.producer /\ q.consumer = fq.consumer
      /\ q.cached_cons \in U32Values
      /\ q.cached_cons \in {fq.cached_cons, u32(fq.consumer + NumFrames)}
      /\ u32(fq.cached_cons - fq.producer) < rcvd =>
             q.cached_cons = u32(fq.consumer + NumFrames)
  <2>1. u32(fq.consumer + fq.size) \in U32Values
    BY Numbers, U32Nat
  <2>2. u32(fq.cached_cons - fq.cached_prod) \in Int
    BY <1>1, Sizes
  <2>3. CASE u32(fq.cached_cons - fq.cached_prod) >= rcvd
    <3>1. q = fq
      BY <2>3 DEF ProdRefreshed
    <3> QED
      BY <1>0, <1>1, <2>2, <2>3, <3>1, Numbers
  <2>4. CASE ~ (u32(fq.cached_cons - fq.cached_prod) >= rcvd)
    <3>1. q = [fq EXCEPT !.cached_cons = u32(fq.consumer + fq.size)]
      BY <2>4 DEF ProdRefreshed
    <3> HIDE DEF q
    <3>2. q \in Rings(NumFrames, Frames) /\ q.cached_cons = u32(fq.consumer + fq.size)
            /\ q.cached_prod = fq.cached_prod /\ q.producer = fq.producer
            /\ q.consumer = fq.consumer
      BY <2>1, <3>1, Numbers DEF Rings
    <3> QED
      BY <2>1, <3>2, Numbers
  <2> QED
    BY <2>3, <2>4
<1> HIDE DEF q
<1>4. u32(u32(fq.consumer + NumFrames) - fq.producer) = NumFrames - Used(fq)
  <2>1. Used(fq) <= NumFrames
    BY <1>0, <1>2, Sizes
  <2> QED
    BY <2>1, Numbers, DistPast DEF Used
<1>5. /\ u32(q.cached_cons - q.producer) + Used(fq) <= NumFrames
      /\ rcvd <= u32(q.cached_cons - q.producer)
  <2>1. CASE q.cached_cons = u32(fq.consumer + NumFrames)
    BY <1>0, <1>2, <1>3, <1>4, <2>1, Sizes
  <2>2. CASE q.cached_cons = fq.cached_cons /\ ~ (u32(fq.cached_cons - fq.producer) < rcvd)
    BY <1>0, <1>3, <2>2, Sizes DEF PointersOK, FillPointersOK
  <2> QED
    BY <1>3, <2>1, <2>2
<1>6. Reserved(fq, rcvd) = rcvd
  BY <1>1, <1>3, <1>5 DEF Reserved, xsk_prod_nb_free, q
<1>7. /\ fq' \in Rings(NumFrames, Frames)
      /\ fq'.cached_prod = u32(fq.producer + rcvd) /\ fq'.producer = fq.producer
      /\ fq'.consumer = fq.consumer /\ fq'.cached_cons = q.cached_cons
  <2>1. fq' = [q EXCEPT !.cached_prod = u32(q.cached_prod + rcvd)]
    BY <1>6 DEF Reserve, ReserveFill, xsk_ring_prod__reserve, q
  <2>2. u32(q.cached_prod + rcvd) \in U32Values
    BY <1>0, <1>3, Numbers, U32Nat
  <2> QED
    BY <1>1, <1>3, <2>1, <2>2 DEF Rings
<1>8. /\ rx' = rx /\ to_add' = to_add /\ prev_consumer' = prev_consumer
      /\ idx_fq' = idx_fq /\ nic' = nic /\ opt' = opt /\ target' = target
      /\ oldval' = oldval /\ benchmark_done' = benchmark_done
      /\ idx_rx' = idx_rx /\ rcvd' = rcvd /\ i' = i /\ pc' = "check"
  BY <1>0, <1>1, <1>6 DEF Reserve, ReserveFill
<1>9. TypeOK'
  BY <1>7, <1>8 DEF TypeOK, FillTypeOK, AppSteps
<1>10. FillPointersOK'
  BY <1>0, <1>1, <1>3, <1>5, <1>7, <1>8, Numbers, U32Small
     DEF FillPointersOK, ReservedPc, Used, FillEnd, Written
<1>11. RxPointersOK'
  BY <1>0, <1>8 DEF PointersOK, RxPointersOK, Peeked, Used, Processed, Written
<1>12. BatchOK'
  BY <1>0, <1>8 DEF PointersOK, BatchOK, Peeked
<1>13. ToAddOK'
  BY <1>0, <1>7, <1>8 DEF PointersOK, ToAddOK
<1>14. (InFill + InRx + Len(nic) = NumFrames)'
  BY <1>0, <1>7, <1>8 DEF PointersOK, InFill, InRx, FillEnd
<1> QED
  BY <1>9, <1>10, <1>11, <1>12, <1>13, <1>14 DEF PointersOK

\* The test of the consumer and the restart of to_add keep it.
LEMMA CheckStep ==
    ASSUME TypeOK, PointersOK, Check
    PROVE  TypeOK' /\ PointersOK'
<1>0. /\ pc = "check" /\ pc' = "fill" /\ i = 0 /\ rcvd > 0
      /\ fq' = fq /\ rcvd' = rcvd /\ i' = i /\ idx_fq' = idx_fq /\ opt' = opt
      /\ target' = target /\ oldval' = oldval /\ rx' = rx /\ nic' = nic
      /\ idx_rx' = idx_rx /\ benchmark_done' = benchmark_done
      /\ to_add' = (IF fq.consumer # prev_consumer THEN 0 ELSE to_add)
      /\ prev_consumer' = fq.consumer
  BY DEF Check, CheckConsumer, PointersOK, BatchOK, Peeked
<1>1. TypeOK'
  BY <1>0, Numbers DEF TypeOK, FillTypeOK, AppSteps
<1>2. FillPointersOK'
  BY <1>0 DEF PointersOK, FillPointersOK, ReservedPc, Used, FillEnd, Written
<1>3. RxPointersOK'
  BY <1>0 DEF PointersOK, RxPointersOK, Peeked, Used, Processed, Written
<1>4. BatchOK'
  BY <1>0 DEF PointersOK, BatchOK, Peeked
<1>5. to_add' # -1
  \* Before the first batch is given back the producer is at NumFrames, so a
  \* consumer at 0 would leave no frame to have been received.
  <2> SUFFICES ASSUME to_add = -1, fq.consumer = prev_consumer PROVE FALSE
    BY <1>0
  <2>1. fq.consumer = 0 /\ fq.producer = NumFrames
    BY DEF PointersOK, ToAddOK
  <2>2. Used(fq) = NumFrames
    BY <2>1, Numbers, U32Small, NumFrames - 0 = NumFrames DEF Used
  <2>3. rcvd \in Nat /\ rcvd + Used(fq) <= NumFrames
    BY <1>0, Distances, Sizes DEF ReservedPc
  <2> QED
    BY <1>0, <2>2, <2>3, Numbers
<1>6. ToAddOK'
  <2>1. u32(fq.producer - fq.consumer) + rcvd <= NumFrames
    BY <1>0, Distances DEF ReservedPc, Used
  <2>a. to_add <= u32(fq.producer - prev_consumer)
    BY DEF PointersOK, ToAddOK
  <2>b. u32(fq.producer - fq.consumer) \in Nat /\ rcvd \in Nat /\ NumFrames \in Nat
    BY Sizes
  <2>2. to_add' <= u32(fq.producer - fq.consumer)
    BY <1>0, <2>a, <2>b
  <2>3. u32(fq.producer - fq.consumer) <= NumFrames
    BY <2>1, <2>b
  <2> QED
    BY <1>0, <1>5, <2>1, <2>2, <2>3 DEF ToAddOK
<1>7. (InFill + InRx + Len(nic) = NumFrames)'
  BY <1>0 DEF PointersOK, InFill, InRx, FillEnd
<1> QED
  BY <1>1, <1>2, <1>3, <1>4, <1>6, <1>7 DEF PointersOK

\* An index masked to a ring of the given size is one of its entries.
LEMMA SlotType ==
    ASSUME NEW size \in Nat \ {0}, NEW x \in Nat
    PROVE  x % size \in Slots(size)
BY DivMod DEF Slots

\* What is read from the rx ring is a frame.
LEMMA DescType ==
    ASSUME TypeOK
    PROVE  xsk_ring_cons__desc(rx, idx_rx) \in Frames
<1>1. idx_rx % RxSize \in Slots(RxSize)
  BY Numbers, U32Nat, SlotType
<1> QED
  BY <1>1, Numbers DEF xsk_ring_cons__desc, Slot

\* Writing one entry of the fill ring moves no pointer.
LEMMA WriteFill ==
    ASSUME TypeOK, NEW x, NEW d \in Frames, fq' = xsk_ring_prod__fill_addr(fq, x, d)
    PROVE  /\ fq' \in Rings(NumFrames, Frames)
           /\ fq'.cached_prod = fq.cached_prod /\ fq'.cached_cons = fq.cached_cons
           /\ fq'.producer = fq.producer /\ fq'.consumer = fq.consumer
           /\ fq'.ring = [fq.ring EXCEPT ![x % NumFrames] = d]
<1> DEFINE g == [fq.ring EXCEPT ![x % NumFrames] = d]
<1>1. fq.ring \in [Slots(NumFrames) -> Frames]
  BY Numbers DEF Slots, Frames
<1>2. fq' = [fq EXCEPT !.ring = g]
  BY Numbers DEF xsk_ring_prod__fill_addr, Slot, Rings
<1>3. g \in [Slots(NumFrames) -> Frames]
  BY <1>1
<1>4. fq \in Rings(NumFrames, Frames)
  BY Numbers
<1> HIDE DEF g
<1>5. fq' \in Rings(NumFrames, Frames)
  BY <1>2, <1>3, <1>4 DEF Rings
<1>6. /\ fq'.cached_prod = fq.cached_prod /\ fq'.cached_cons = fq.cached_cons
      /\ fq'.producer = fq.producer /\ fq'.consumer = fq.consumer
      /\ fq'.ring = g
  BY <1>2, <1>4 DEF Rings
<1> QED
  BY <1>5, <1>6 DEF g

\* Taking the next frame of the batch from the rx ring and adding it to the
\* fill ring: one more there, one less here.
LEMMA MoveOne ==
    ASSUME TypeOK, PointersOK, pc \in {"fill", "exchange"}
    PROVE  /\ InFill + InRx + Len(nic) = NumFrames /\ InRx >= 1
           /\ FillEnd = idx_fq /\ Written = i /\ Processed = i
           /\ u32(idx_fq + 1) = u32(fq.producer + (i + 1))
           /\ u32(idx_rx + 1) = u32(rx.consumer + (i + 1))
           /\ u32(u32(idx_fq + 1) - fq.consumer) = InFill + 1
           /\ u32(rx.producer - u32(idx_rx + 1)) = InRx - 1
           /\ u32(idx_fq + 1) \in U32Values /\ u32(idx_rx + 1) \in U32Values
<1>1. InFill + InRx + Len(nic) = NumFrames
  BY DEF PointersOK
<1>2. FillEnd = idx_fq /\ Written = i /\ Processed = i
  BY DEF FillEnd, Written, Processed
<1>3. InRx >= 1
  <2>1. i < rcvd /\ Peeked
    BY DEF PointersOK, BatchOK, Peeked
  <2>2. rcvd <= Used(rx) /\ InRx = Used(rx) - i
    BY <1>2, <2>1, Distances
  <2> QED
    BY <2>1, <2>2, Sizes
<1>4. idx_fq = u32(fq.producer + i) /\ idx_rx = u32(rx.consumer + i)
  BY <1>2 DEF PointersOK, FillPointersOK, RxPointersOK
<1>5. fq.producer \in U32Values /\ rx.consumer \in U32Values /\ i \in Nat
  BY Numbers
<1>6. u32(idx_fq + 1) = u32(fq.producer + (i + 1))
  BY <1>4, <1>5, AddOne
<1>7. u32(idx_rx + 1) = u32(rx.consumer + (i + 1))
  BY <1>4, <1>5, AddOne
<1>8. InFill + 1 < U32
  <2>1. /\ InFill \in Nat /\ InRx \in Nat /\ Len(nic) \in Nat
        /\ NumFrames \in Nat /\ U32 \in Nat /\ NumFrames < U32
    BY Sizes
  <2> QED
    BY <1>1, <1>3, <2>1
<1>9. u32(u32(idx_fq + 1) - fq.consumer) = InFill + 1
  BY <1>2, <1>8, Numbers, DistAdd, 1 \in Nat DEF InFill
<1>10. u32(rx.producer - u32(idx_rx + 1)) = InRx - 1
  BY <1>3, Numbers, DistSub, 1 \in Nat DEF InRx
<1>11. u32(idx_fq + 1) \in U32Values /\ u32(idx_rx + 1) \in U32Values
  BY Numbers, U32Nat, 1 \in Nat
<1> QED
  BY <1>1, <1>2, <1>3, <1>6, <1>7, <1>9, <1>10, <1>11

\* Writing one frame of the batch to the fill ring without -W keeps it.
LEMMA FillFifoStep ==
    ASSUME TypeOK, PointersOK, FillFifo
    PROVE  TypeOK' /\ PointersOK'
<1>0. /\ pc = "fill" /\ i < rcvd /\ rcvd > 0
      /\ i' = i + 1 /\ idx_fq' = u32(idx_fq + 1) /\ idx_rx' = u32(idx_rx + 1)
      /\ pc' = (IF i + 1 < rcvd THEN "fill" ELSE "submit")
      /\ opt' = opt /\ to_add' = to_add /\ prev_consumer' = prev_consumer
      /\ rcvd' = rcvd /\ target' = target /\ oldval' = oldval /\ rx' = rx
      /\ nic' = nic /\ benchmark_done' = benchmark_done
  BY DEF FillFifo, FillPlain, NextFill, PointersOK, BatchOK, Peeked
<1>1. /\ fq' \in Rings(NumFrames, Frames)
      /\ fq'.cached_prod = fq.cached_prod /\ fq'.cached_cons = fq.cached_cons
      /\ fq'.producer = fq.producer /\ fq'.consumer = fq.consumer
  BY DescType, WriteFill DEF FillFifo, FillPlain
<1>2. pc' \in {"fill", "submit"}
  BY <1>0
<1>3. TypeOK'
  BY <1>0, <1>1, <1>2, MoveOne, Sizes DEF TypeOK, FillTypeOK, AppSteps
<1>4. FillPointersOK'
  BY <1>0, <1>1, <1>2, MoveOne
     DEF PointersOK, FillPointersOK, ReservedPc, Used, FillEnd, Written
<1>5. RxPointersOK'
  BY <1>0, <1>2, MoveOne DEF PointersOK, RxPointersOK, Peeked, Used, Processed, Written
<1>6. BatchOK'
  <2>1. i \in Nat /\ rcvd \in Nat
    BY Sizes
  <2> QED
    BY <1>0, <2>1 DEF PointersOK, BatchOK, Peeked
<1>7. ToAddOK'
  BY <1>0, <1>1, <1>2 DEF PointersOK, ToAddOK
<1>8. (InFill + InRx + Len(nic) = NumFrames)'
  <2>1. InFill' = InFill + 1 /\ InRx' = InRx - 1
    BY <1>0, <1>1, <1>2, MoveOne DEF InFill, InRx, FillEnd
  <2>2. InFill + InRx + Len(nic) = NumFrames
    BY DEF PointersOK
  <2>3. InFill \in Nat /\ InRx \in Nat /\ Len(nic) \in Nat
    BY Sizes
  <2> QED
    BY <1>0, <2>1, <2>2, <2>3
<1> QED
  BY <1>3, <1>4, <1>5, <1>6, <1>7, <1>8 DEF PointersOK

\* The first step of the exchange, the load of the consumer, keeps it.
LEMMA FillWarmLoadStep ==
    ASSUME TypeOK, PointersOK, FillWarmLoad
    PROVE  TypeOK' /\ PointersOK'
<1>0. /\ pc = "fill" /\ pc' = "exchange" /\ opt.warm_buffers
      /\ target' = u32(fq.consumer + u32(to_add + i))
      /\ opt' = opt /\ fq' = fq /\ to_add' = to_add /\ prev_consumer' = prev_consumer
      /\ rcvd' = rcvd /\ i' = i /\ idx_fq' = idx_fq /\ oldval' = oldval /\ rx' = rx
      /\ nic' = nic /\ idx_rx' = idx_rx /\ benchmark_done' = benchmark_done
  BY DEF FillWarmLoad, LoadConsumer
<1>1. target' \in U32Values
  <2>1. u32(to_add + i) \in U32Values
    BY Sizes, U32Type, to_add + i \in Int
  <2> QED
    BY <1>0, <2>1, Numbers, U32Nat
<1>2. TypeOK'
  BY <1>0, <1>1 DEF TypeOK, FillTypeOK, AppSteps
<1>3. FillPointersOK'
  BY <1>0 DEF PointersOK, FillPointersOK, ReservedPc, Used, FillEnd, Written
<1>4. RxPointersOK'
  BY <1>0 DEF PointersOK, RxPointersOK, Peeked, Used, Processed, Written
<1>5. BatchOK'
  BY <1>0 DEF PointersOK, BatchOK, Peeked
<1>6. ToAddOK'
  BY <1>0 DEF PointersOK, ToAddOK
<1>7. (InFill + InRx + Len(nic) = NumFrames)'
  BY <1>0 DEF PointersOK, InFill, InRx, FillEnd
<1> QED
  BY <1>2, <1>3, <1>4, <1>5, <1>6, <1>7 DEF PointersOK

\* The second step of the exchange, the swap with a published entry, keeps it.
LEMMA FillWarmExchangeStep ==
    ASSUME TypeOK, PointersOK, FillWarmExchange
    PROVE  TypeOK' /\ PointersOK'
<1>0. /\ pc = "exchange" /\ pc' = "store" /\ i < rcvd /\ opt.warm_buffers
      /\ oldval' = fq.ring[Slot(fq, target)] /\ idx_rx' = u32(idx_rx + 1)
      /\ opt' = opt /\ to_add' = to_add /\ prev_consumer' = prev_consumer
      /\ rcvd' = rcvd /\ i' = i /\ idx_fq' = idx_fq /\ target' = target /\ rx' = rx
      /\ nic' = nic /\ benchmark_done' = benchmark_done
  BY DEF FillWarmExchange, Exchange, PointersOK, BatchOK
<1>1. /\ fq' \in Rings(NumFrames, Frames)
      /\ fq'.cached_prod = fq.cached_prod /\ fq'.cached_cons = fq.cached_cons
      /\ fq'.producer = fq.producer /\ fq'.consumer = fq.consumer
  BY DescType, WriteFill DEF FillWarmExchange, Exchange
<1>2. oldval' \in Frames
  <2>1. target % NumFrames \in Frames
    BY Numbers, U32Nat, SlotType DEF Slots, Frames
  <2> QED
    BY <1>0, <2>1, Numbers DEF Slot
<1>3. TypeOK'
  BY <1>0, <1>1, <1>2, MoveOne DEF TypeOK, FillTypeOK, AppSteps
<1>4. FillPointersOK'
  BY <1>0, <1>1, MoveOne
     DEF PointersOK, FillPointersOK, ReservedPc, Used, FillEnd, Written
<1>5. RxPointersOK'
  BY <1>0, MoveOne DEF PointersOK, RxPointersOK, Peeked, Used, Processed, Written
<1>6. BatchOK'
  BY <1>0 DEF PointersOK, BatchOK, Peeked
<1>7. ToAddOK'
  BY <1>0, <1>1 DEF PointersOK, ToAddOK
<1>8. (InFill + InRx + Len(nic) = NumFrames)'
  <2>1. InFill' = InFill + 1 /\ InRx' = InRx - 1
    BY <1>0, <1>1, MoveOne DEF InFill, InRx, FillEnd
  <2>2. InFill + InRx + Len(nic) = NumFrames
    BY DEF PointersOK
  <2>3. InFill \in Nat /\ InRx \in Nat /\ Len(nic) \in Nat
    BY Sizes
  <2> QED
    BY <1>0, <2>1, <2>2, <2>3
<1> QED
  BY <1>3, <1>4, <1>5, <1>6, <1>7, <1>8 DEF PointersOK

\* The third step of the exchange, the store of the old address, keeps it.
LEMMA FillWarmStoreStep ==
    ASSUME TypeOK, PointersOK, FillWarmStore
    PROVE  TypeOK' /\ PointersOK'
<1>0. /\ pc = "store" /\ i < rcvd /\ rcvd > 0
      /\ i' = i + 1 /\ idx_fq' = u32(idx_fq + 1) /\ target' = 0 /\ oldval' = 0
      /\ pc' = (IF i + 1 < rcvd THEN "fill" ELSE "submit")
      /\ opt' = opt /\ to_add' = to_add /\ prev_consumer' = prev_consumer
      /\ rcvd' = rcvd /\ rx' = rx /\ nic' = nic /\ idx_rx' = idx_rx
      /\ benchmark_done' = benchmark_done
  BY DEF FillWarmStore, StoreOld, NextFill, PointersOK, BatchOK, Peeked
<1>1. /\ fq' \in Rings(NumFrames, Frames)
      /\ fq'.cached_prod = fq.cached_prod /\ fq'.cached_cons = fq.cached_cons
      /\ fq'.producer = fq.producer /\ fq'.consumer = fq.consumer
  <2>1. oldval \in Frames
    BY DEF TypeOK, FillTypeOK
  <2> QED
    BY <2>1, WriteFill DEF FillWarmStore, StoreOld
<1>2. pc' \in {"fill", "submit"}
  BY <1>0
<1>3. idx_fq' \in U32Values /\ 0 \in U32Values /\ 0 \in Frames
  <2>1. idx_fq \in U32Values /\ 0 \in Frames
    BY Numbers DEF Frames
  <2> QED
    BY <1>0, <2>1, U32Nat, 1 \in Nat
<1>4. TypeOK'
  BY <1>0, <1>1, <1>2, <1>3, Sizes DEF TypeOK, FillTypeOK, AppSteps
<1>5. FillPointersOK'
  BY <1>0, <1>1, <1>2 DEF PointersOK, FillPointersOK, ReservedPc, Used, FillEnd, Written
<1>6. RxPointersOK'
  BY <1>0, <1>2 DEF PointersOK, RxPointersOK, Peeked, Used, Processed, Written
<1>7. BatchOK'
  <2>1. pc' = "fill" => i' < rcvd'
    BY <1>0
  <2>2. pc' = "submit" => i' = rcvd'
    BY <1>0, Sizes
  <2> QED
    BY <1>0, <1>2, <2>1, <2>2 DEF BatchOK, Peeked
<1>8. ToAddOK'
  BY <1>0, <1>1, <1>2 DEF PointersOK, ToAddOK
<1>9. (InFill + InRx + Len(nic) = NumFrames)'
  BY <1>0, <1>1, <1>2 DEF PointersOK, InFill, InRx, FillEnd
<1> QED
  BY <1>4, <1>5, <1>6, <1>7, <1>8, <1>9 DEF PointersOK

\* Publishing the batch in the fill ring and adding it to to_add keeps it.
LEMMA SubmitStep ==
    ASSUME TypeOK, PointersOK, Submit
    PROVE  TypeOK' /\ PointersOK'
<1>0. /\ pc = "submit" /\ pc' = "release" /\ i = rcvd /\ rcvd > 0
      /\ to_add' = to_add + rcvd
      /\ opt' = opt /\ prev_consumer' = prev_consumer /\ rcvd' = rcvd /\ i' = i
      /\ idx_fq' = idx_fq /\ target' = target /\ oldval' = oldval /\ rx' = rx
      /\ nic' = nic /\ idx_rx' = idx_rx /\ benchmark_done' = benchmark_done
  BY DEF Submit, SubmitFill, PointersOK, BatchOK, Peeked
<1>1. /\ fq' \in Rings(NumFrames, Frames)
      /\ fq'.cached_prod = fq.cached_prod /\ fq'.cached_cons = fq.cached_cons
      /\ fq'.producer = u32(fq.producer + rcvd) /\ fq'.consumer = fq.consumer
      /\ fq'.ring = fq.ring
  <2>1. u32(fq.producer + rcvd) \in U32Values
    BY Numbers, U32Nat
  <2>2. fq' = [fq EXCEPT !.producer = u32(fq.producer + rcvd)]
    BY DEF Submit, SubmitFill, xsk_ring_prod__submit
  <2> QED
    BY <2>1, <2>2, Numbers DEF Rings
<1>2. /\ idx_fq = fq'.producer /\ fq.cached_prod = fq'.producer
      /\ rcvd <= u32(fq.cached_cons - fq.producer)
      /\ u32(fq.cached_cons - fq.producer) + Used(fq) <= NumFrames
  BY <1>0, <1>1 DEF PointersOK, FillPointersOK, ReservedPc, FillEnd, Written
<1>3. u32(fq'.cached_cons - fq'.producer) = u32(fq.cached_cons - fq.producer) - rcvd
  BY <1>1, <1>2, Numbers, DistSub
<1>4. Used(fq') = Used(fq) + rcvd
  <2>1. Used(fq) + rcvd < U32
    BY <1>2, Sizes
  <2> QED
    BY <1>1, <2>1, Numbers, DistAdd DEF Used
<1>5. /\ to_add <= u32(fq.producer - prev_consumer) /\ to_add # -1
      /\ u32(fq.producer - prev_consumer) + rcvd <= NumFrames
  BY <1>0 DEF PointersOK, ToAddOK
<1>6. u32(fq'.producer - prev_consumer') = u32(fq.producer - prev_consumer) + rcvd
  <2>1. u32(fq.producer - prev_consumer) + rcvd < U32
    BY <1>5, Sizes
  <2> QED
    BY <1>0, <1>1, <2>1, Numbers, DistAdd
<1>7. to_add' \in 0 .. NumFrames
  <2>1. /\ rcvd \in Nat /\ NumFrames \in Nat /\ to_add \in -1 .. NumFrames
        /\ u32(fq.producer - prev_consumer) \in Nat
    BY Sizes, Numbers
  <2> QED
    BY <1>0, <1>5, <2>1
<1>8. TypeOK'
  BY <1>0, <1>1, <1>7 DEF TypeOK, FillTypeOK, AppSteps
<1>9. FillPointersOK'
  <2>1. u32(fq'.cached_cons - fq'.producer) + Used(fq') <= NumFrames
    BY <1>2, <1>3, <1>4, Sizes
  <2>2. fq'.producer \in U32Values
    BY <1>1 DEF Rings
  <2> QED
    BY <1>0, <1>1, <1>2, <2>1, <2>2, U32Small
       DEF FillPointersOK, ReservedPc, FillEnd, Written
<1>10. RxPointersOK'
  BY <1>0 DEF PointersOK, RxPointersOK, Peeked, Used, Processed, Written
<1>11. BatchOK'
  BY <1>0 DEF PointersOK, BatchOK, Peeked
<1>12. ToAddOK'
  <2>1. /\ to_add' <= u32(fq'.producer - prev_consumer')
        /\ u32(fq'.producer - prev_consumer') <= NumFrames
        /\ to_add' # -1
    <3>1. /\ rcvd \in Nat /\ NumFrames \in Nat /\ to_add \in Int
          /\ u32(fq.producer - prev_consumer) \in Nat
      BY Sizes
    <3> QED
      BY <1>0, <1>5, <1>6, <1>7, <3>1
  <2> QED
    BY <1>0, <2>1 DEF ToAddOK
<1>13. (InFill + InRx + Len(nic) = NumFrames)'
  BY <1>0, <1>1 DEF PointersOK, InFill, InRx, FillEnd
<1> QED
  BY <1>8, <1>9, <1>10, <1>11, <1>12, <1>13 DEF PointersOK

\* Releasing the batch in the rx ring keeps it.
LEMMA ReleaseStep ==
    ASSUME TypeOK, PointersOK, Release
    PROVE  TypeOK' /\ PointersOK'
<1>0. /\ pc = "release" /\ pc' = "returned" /\ i = rcvd /\ rcvd > 0
      /\ UNCHANGED <<fillVars, nic, idx_rx, benchmark_done>>
  BY DEF Release, PointersOK, BatchOK, Peeked
<1>1. /\ rx' \in Rings(RxSize, Frames)
      /\ rx'.cached_prod = rx.cached_prod /\ rx'.cached_cons = rx.cached_cons
      /\ rx'.consumer = u32(rx.consumer + rcvd) /\ rx'.producer = rx.producer
      /\ rx'.consumer \in U32Values
  <2>1. rx.consumer \in U32Values /\ rcvd \in Nat
    BY Numbers
  <2>2. u32(rx.consumer + rcvd) \in U32Values
    BY <2>1, U32Nat
  <2>3. rx' = [rx EXCEPT !.consumer = u32(rx.consumer + rcvd)]
    BY DEF Release, xsk_ring_cons__release
  <2> QED
    BY <2>2, <2>3, Numbers DEF Rings
<1>2. /\ rx.cached_cons = u32(rx.consumer + rcvd)
      /\ idx_rx = u32(rx.consumer + rcvd)
      /\ rcvd <= u32(rx.cached_prod - rx.consumer)
      /\ u32(rx.cached_prod - rx.consumer) <= Used(rx)
      /\ Used(rx) <= RxSize
  BY <1>0 DEF PointersOK, RxPointersOK, Peeked, Processed
<1>3. u32(rx'.cached_prod - rx'.consumer) = u32(rx.cached_prod - rx.consumer) - rcvd
  BY <1>1, <1>2, Numbers, DistSub
<1>4. Used(rx') = Used(rx) - rcvd
  <2>1. rcvd <= u32(rx.producer - rx.consumer)
    BY <1>2, Sizes
  <2> QED
    BY <1>1, <2>1, Numbers, DistSub DEF Used
<1>5. TypeOK'
  BY <1>0, <1>1 DEF TypeOK, FillTypeOK, AppSteps, fillVars
<1>6. FillPointersOK'
  BY <1>0 DEF PointersOK, FillPointersOK, ReservedPc, Used, FillEnd, Written, fillVars
<1>7. RxPointersOK'
  <2>1. /\ u32(rx'.cached_prod - rx'.consumer) <= Used(rx')
        /\ Used(rx') <= RxSize
    BY <1>2, <1>3, <1>4, Sizes
  <2> QED
    BY <1>0, <1>1, <1>2, <2>1, U32Small DEF RxPointersOK, Peeked, Processed, Written
<1>8. BatchOK'
  BY <1>0 DEF PointersOK, BatchOK, Peeked, fillVars
<1>9. ToAddOK'
  BY <1>0 DEF PointersOK, ToAddOK, fillVars
<1>10. (InFill + InRx + Len(nic) = NumFrames)'
  BY <1>0, <1>1 DEF PointersOK, InFill, InRx, FillEnd, fillVars
<1> QED
  BY <1>5, <1>6, <1>7, <1>8, <1>9, <1>10 DEF PointersOK

\* The driver's taking an entry of the fill ring keeps it, whenever it happens.
LEMMA NicRefillStep ==
    ASSUME TypeOK, PointersOK, NicRefill
    PROVE  TypeOK' /\ PointersOK'
<1>0. /\ fq.producer # fq.consumer /\ nic' = Append(nic, KernelTaken(fq))
      /\ opt' = opt /\ to_add' = to_add /\ prev_consumer' = prev_consumer
      /\ rcvd' = rcvd /\ i' = i /\ idx_fq' = idx_fq /\ target' = target
      /\ oldval' = oldval /\ rx' = rx /\ pc' = pc /\ idx_rx' = idx_rx
      /\ benchmark_done' = benchmark_done
  BY DEF NicRefill, KernelCanTake
<1>1. /\ fq' \in Rings(NumFrames, Frames)
      /\ fq'.cached_prod = fq.cached_prod /\ fq'.cached_cons = fq.cached_cons
      /\ fq'.producer = fq.producer /\ fq'.consumer = u32(fq.consumer + 1)
      /\ fq'.ring = fq.ring
  <2>1. fq.consumer \in U32Values /\ 1 \in Nat
    BY Numbers
  <2>2. u32(fq.consumer + 1) \in U32Values
    BY <2>1, U32Nat
  <2>3. fq' = [fq EXCEPT !.consumer = u32(fq.consumer + 1)]
    BY DEF NicRefill, KernelTake
  <2> QED
    BY <2>2, <2>3, Numbers DEF Rings
<1>2. Used(fq) >= 1
  <2>1. u32(fq.producer - fq.consumer) # 0
    BY <1>0, Numbers, DistZero
  <2> QED
    BY <2>1, Sizes
<1>3. Used(fq') = Used(fq) - 1
  <2>1. 1 \in Nat /\ 1 <= u32(fq.producer - fq.consumer)
    BY <1>2, Sizes
  <2> QED
    BY <1>1, <2>1, Numbers, DistSub DEF Used
<1>4. InFill' = InFill - 1 /\ InFill >= 1
  <2>1. InFill >= 1 /\ 1 \in Nat
    <3>1. InFill = Used(fq) + Written /\ Written \in Nat
      BY Distances
    <3>2. Used(fq) \in Nat
      BY Sizes
    <3> QED
      BY <1>2, <3>1, <3>2
  <2>2. FillEnd' = FillEnd
    BY <1>0 DEF FillEnd
  <2> QED
    BY <1>1, <2>1, <2>2, Numbers, DistSub DEF InFill
<1>5. /\ nic' \in Seq(Frames) /\ Len(nic') = Len(nic) + 1
  <2>1. fq.consumer % NumFrames \in Frames
    BY Numbers, U32Nat, SlotType DEF Slots, Frames
  <2>2. KernelTaken(fq) \in Frames
    BY <2>1, Numbers DEF KernelTaken, Slot
  <2> QED
    BY <1>0, <2>2, Numbers
<1>6. TypeOK'
  BY <1>0, <1>1, <1>5 DEF TypeOK, FillTypeOK
<1>7. FillPointersOK'
  <2>1. u32(fq'.cached_cons - fq'.producer) + Used(fq') <= NumFrames
    <3>1. u32(fq.cached_cons - fq.producer) + Used(fq) <= NumFrames
      BY DEF PointersOK, FillPointersOK
    <3>2. /\ u32(fq.cached_cons - fq.producer) \in Nat
          /\ Used(fq) \in Nat /\ NumFrames \in Nat
      BY Sizes
    <3> QED
      BY <1>1, <1>3, <3>1, <3>2
  <2> QED
    BY <1>0, <1>1, <2>1 DEF PointersOK, FillPointersOK, ReservedPc, FillEnd, Written
<1>8. RxPointersOK'
  BY <1>0 DEF PointersOK, RxPointersOK, Peeked, Used, Processed, Written
<1>9. BatchOK'
  BY <1>0 DEF PointersOK, BatchOK, Peeked
<1>10. ToAddOK'
  BY <1>0, <1>1 DEF PointersOK, ToAddOK
<1>11. (InFill + InRx + Len(nic) = NumFrames)'
  <2>1. InRx' = InRx
    BY <1>0 DEF InRx
  <2>2. InFill + InRx + Len(nic) = NumFrames
    BY DEF PointersOK
  <2>3. InFill \in Nat /\ InRx \in Nat /\ Len(nic) \in Nat
    BY Sizes
  <2>4. InFill' = InFill - 1 /\ Len(nic') = Len(nic) + 1
    BY <1>4, <1>5
  <2> QED
    BY <2>1, <2>2, <2>3, <2>4
<1> QED
  BY <1>6, <1>7, <1>8, <1>9, <1>10, <1>11 DEF PointersOK

\* The driver's putting a filled frame into the rx ring keeps it.
LEMMA NicReceiveStep ==
    ASSUME TypeOK, PointersOK, NicReceive
    PROVE  TypeOK' /\ PointersOK'
<1>0. /\ nic # <<>> /\ nic' = Tail(nic) /\ Used(rx) < RxSize
      /\ UNCHANGED <<fillVars, pc, idx_rx, benchmark_done>>
  BY Numbers DEF NicReceive, KernelCanPut
<1>1. /\ Head(nic) \in Frames /\ nic' \in Seq(Frames)
      /\ Len(nic) >= 1 /\ Len(nic') = Len(nic) - 1
  BY <1>0, Numbers
<1>2. /\ rx' \in Rings(RxSize, Frames)
      /\ rx'.cached_prod = rx.cached_prod /\ rx'.cached_cons = rx.cached_cons
      /\ rx'.consumer = rx.consumer /\ rx'.producer = u32(rx.producer + 1)
      /\ rx'.ring = [rx.ring EXCEPT ![rx.producer % RxSize] = Head(nic)]
  <2> DEFINE g == [rx.ring EXCEPT ![rx.producer % RxSize] = Head(nic)]
  <2>1. rx.producer \in U32Values /\ 1 \in Nat /\ rx \in Rings(RxSize, Frames)
    BY Numbers
  <2>2. u32(rx.producer + 1) \in U32Values
    BY <2>1, U32Nat
  <2>3. g \in [Slots(RxSize) -> Frames]
    BY <1>1, Numbers
  <2>4. rx' = [rx EXCEPT !.ring = g, !.producer = u32(rx.producer + 1)]
    BY Numbers DEF NicReceive, KernelPut, Slot, Rings
  <2> HIDE DEF g
  <2>5. rx' \in Rings(RxSize, Frames)
    BY <2>1, <2>2, <2>3, <2>4 DEF Rings
  <2>6. /\ rx'.cached_prod = rx.cached_prod /\ rx'.cached_cons = rx.cached_cons
        /\ rx'.consumer = rx.consumer /\ rx'.producer = u32(rx.producer + 1)
        /\ rx'.ring = g
    BY <2>1, <2>4 DEF Rings
  <2> QED
    BY <2>5, <2>6 DEF g
<1>3. Used(rx') = Used(rx) + 1
  <2>1. u32(rx.producer - rx.consumer) + 1 < U32
    BY <1>0, Sizes
  <2> QED
    BY <1>2, <2>1, Numbers, DistAdd, 1 \in Nat DEF Used
<1>4. InRx' = InRx + 1
  <2>1. InRx = Used(rx) - Processed /\ Processed \in Nat
    BY Distances
  <2>2. InRx + 1 < U32
    <3>1. Used(rx) < RxSize
      BY <1>0
    <3>2. Used(rx) \in Nat /\ RxSize \in Nat /\ RxSize < U32 /\ U32 \in Nat
      BY Sizes
    <3> QED
      BY <2>1, <3>1, <3>2
  <2> QED
    BY <1>0, <1>2, <2>2, Numbers, DistAdd, 1 \in Nat DEF InRx
<1>5. TypeOK'
  BY <1>0, <1>1, <1>2 DEF TypeOK, FillTypeOK, fillVars
<1>6. FillPointersOK'
  BY <1>0 DEF PointersOK, FillPointersOK, ReservedPc, Used, FillEnd, Written, fillVars
<1>7. RxPointersOK'
  <2>1. /\ u32(rx'.cached_prod - rx'.consumer) <= Used(rx')
        /\ Used(rx') <= RxSize
    <3>1. u32(rx.cached_prod - rx.consumer) <= Used(rx)
      BY DEF PointersOK, RxPointersOK
    <3>2. /\ u32(rx.cached_prod - rx.consumer) \in Nat
          /\ Used(rx) \in Nat /\ RxSize \in Nat
      BY Sizes
    <3>3. Used(rx) < RxSize
      BY <1>0
    <3> QED
      BY <1>2, <1>3, <3>1, <3>2, <3>3
  <2> QED
    BY <1>0, <1>2, <2>1 DEF PointersOK, RxPointersOK, Peeked, Processed, Written, fillVars
<1>8. BatchOK'
  BY <1>0 DEF PointersOK, BatchOK, Peeked, fillVars
<1>9. ToAddOK'
  BY <1>0 DEF PointersOK, ToAddOK, fillVars
<1>10. (InFill + InRx + Len(nic) = NumFrames)'
  <2>1. InFill' = InFill
    BY <1>0 DEF InFill, FillEnd, fillVars
  <2>2. InFill + InRx + Len(nic) = NumFrames
    BY DEF PointersOK
  <2>3. InFill \in Nat /\ InRx \in Nat /\ Len(nic) \in Nat
    BY Sizes
  <2>4. InRx' = InRx + 1 /\ Len(nic') = Len(nic) - 1
    BY <1>1, <1>4
  <2> QED
    BY <2>1, <2>2, <2>3, <2>4
<1> QED
  BY <1>5, <1>6, <1>7, <1>8, <1>9, <1>10 DEF PointersOK

\* The populated fill ring and the empty rx ring satisfy the invariant.
LEMMA PointersInit ==
    ASSUME Init
    PROVE  TypeOK /\ PointersOK
<1>1. /\ NumFrames \in Nat \ {0} /\ NumFrames < U32 /\ U32 \in Nat
      /\ RxSize \in Nat \ {0} /\ RxSize < U32
  BY U32Assumption, NumFramesAssumption, RxAssumption
<1>2. 0 \in U32Values /\ NumFrames \in U32Values /\ 0 \in Frames
  BY <1>1 DEF U32Values, Frames
<1>3. fq \in Rings(NumFrames, Frames)
  BY <1>1, <1>2 DEF Init, FillInit, PopulatedFillRing, Rings, Slots, Frames
<1>4. /\ rx \in Rings(RxSize, Frames)
      /\ rx.cached_prod = 0 /\ rx.cached_cons = 0 /\ rx.producer = 0 /\ rx.consumer = 0
  BY <1>1, <1>2 DEF Init, EmptyConsRing, EmptyProdRing, Rings
<1>5. TypeOK
  <2>1. -1 \in -1 .. NumFrames
    BY <1>1
  <2>2. FillTypeOK
    BY <1>2, <1>3, <2>1 DEF Init, FillInit, FillTypeOK
  <2>3. nic \in Seq(Frames)
    BY DEF Init
  <2> QED
    BY <1>2, <1>4, <2>2, <2>3 DEF Init, TypeOK, AppSteps
<1>6. /\ u32(0) = 0 /\ u32(0 + 0) = 0 /\ u32(0 - 0) = 0
      /\ u32(NumFrames) = NumFrames /\ u32(NumFrames + 0) = NumFrames
      /\ u32(NumFrames - 0) = NumFrames /\ u32(NumFrames - NumFrames) = 0
  BY <1>1, <1>2, U32Small, NumFrames - 0 = NumFrames, NumFrames - NumFrames = 0
<1>7. FillPointersOK
  BY <1>1, <1>6 DEF Init, FillInit, PopulatedFillRing, FillPointersOK, ReservedPc,
                    Used, FillEnd, Written
<1>8. RxPointersOK
  BY <1>1, <1>4, <1>6 DEF Init, FillInit, RxPointersOK, Peeked, Used, Processed, Written
<1>9. BatchOK
  BY DEF Init, FillInit, BatchOK, Peeked
<1>10. ToAddOK
  BY <1>1, <1>6 DEF Init, FillInit, PopulatedFillRing, ToAddOK
<1>11. InFill = NumFrames /\ InRx = 0 /\ Len(nic) = 0
  BY <1>4, <1>6 DEF Init, FillInit, PopulatedFillRing, InFill, InRx, FillEnd
<1> QED
  BY <1>1, <1>5, <1>7, <1>8, <1>9, <1>10, <1>11 DEF PointersOK

\* Every step of the application, the driver and the signal handler keeps it.
LEMMA PointersNext ==
    ASSUME TypeOK, PointersOK, [Next]_vars
    PROVE  TypeOK' /\ PointersOK'
<1>0. benchmark_done \in BOOLEAN
  BY DEF TypeOK
<1>1. CASE LoopTop
  BY <1>0, <1>1, QuietStep DEF LoopTop, Quiet
<1>2. CASE PollReturns
  BY <1>0, <1>2, QuietStep DEF PollReturns, Quiet
<1>3. CASE Returned
  BY <1>0, <1>3, QuietStep DEF Returned, Quiet
<1>4. CASE RecvfromReturns
  BY <1>0, <1>4, QuietStep DEF RecvfromReturns, Quiet, PointersOK, BatchOK
<1>5. CASE Peek
  BY <1>5, PeekStep
<1>6. CASE Reserve
  BY <1>6, ReserveStep
<1>7. CASE Check
  BY <1>7, CheckStep
<1>8. CASE FillFifo
  BY <1>8, FillFifoStep
<1>9. CASE FillWarmLoad
  BY <1>9, FillWarmLoadStep
<1>10. CASE FillWarmExchange
  BY <1>10, FillWarmExchangeStep
<1>11. CASE FillWarmStore
  BY <1>11, FillWarmStoreStep
<1>12. CASE Submit
  BY <1>12, SubmitStep
<1>13. CASE Release
  BY <1>13, ReleaseStep
<1>14. CASE int_exit
  BY <1>14, QuietStep DEF int_exit
<1>15. CASE NicRefill
  BY <1>15, NicRefillStep
<1>16. CASE NicReceive
  BY <1>16, NicReceiveStep
<1>17. CASE UNCHANGED vars
  BY <1>0, <1>17, QuietStep DEF vars
<1> QED
  BY <1>1, <1>2, <1>3, <1>4, <1>5, <1>6, <1>7, <1>8, <1>9, <1>10, <1>11, <1>12,
     <1>13, <1>14, <1>15, <1>16, <1>17 DEF Next, App, Kernel, Terminated

\* In every mode, whatever the interleaving with the driver, the variables have
\* their types and the pointers of both rings, their cached copies and the
\* locals of receive stay consistent.
THEOREM PointersCorrect == Spec => [](TypeOK /\ PointersOK)
<1>1. Init => TypeOK /\ PointersOK
  BY PointersInit
<1>2. (TypeOK /\ PointersOK) /\ [Next]_vars => (TypeOK /\ PointersOK)'
  BY PointersNext
<1> QED
  BY <1>1, <1>2, PTL DEF Spec

\* The variables of ToastyRx keep their types; in particular to_add, which
\* receive only ever adds to, never exceeds the number of frames.
THEOREM TypeCorrect == Spec => []TypeOK
BY PointersCorrect, PTL

\* The reservation in the fill ring is granted in full at the first attempt, in
\* every mode: receive never enters its retry loop.
THEOREM ReservationSufficient == Spec => []ReservationNeverShort
<1>1. PointersOK => ReservationNeverShort
  BY DEF PointersOK, BatchOK, ReservationNeverShort
<1> QED
  BY <1>1, PointersCorrect, PTL
=============================================================================
