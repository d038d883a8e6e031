--------------------------- MODULE ToastyRxFrames ---------------------------
(***************************************************************************)
(* Proof that receive and the driver conserve the frames, for every number *)
(* of frames, ring size and batch size, whenever -W is used with -B.       *)
(*                                                                         *)
(* The argument: the fill ring, including the entries the driver has       *)
(* already taken, always holds a permutation of the frames.  Behind the    *)
(* last entry written stand, in order, the frames that are now in the rx   *)
(* ring and in the NIC.  So appending a received frame overwrites an entry *)
(* with itself, and the exchange of -W is a transposition.                 *)
(***************************************************************************)
EXTENDS ToastyRxProofs

\* Masking a pointer that has wrapped, for the fill ring.
LEMMA MaskFill ==
    ASSUME NEW a \in Int, NEW b \in Int
    PROVE  (u32(a) + b) % NumFrames = (a + b) % NumFrames
<1>1. PICK m \in 1 .. U32 : U32 = m * NumFrames
  BY NumFramesAssumption
<1>2. NumFrames \in Nat \ {0} /\ U32 \in Nat \ {0} /\ m \in Int
  BY NumFramesAssumption, U32Assumption
<1> QED
  BY <1>1, <1>2, ModOfWrapped DEF u32

\* The same for the rx ring.
LEMMA MaskRx ==
    ASSUME NEW a \in Int, NEW b \in Int
    PROVE  (u32(a) + b) % RxSize = (a + b) % RxSize
<1>1. PICK m \in 1 .. U32 : U32 = m * RxSize
  BY RxAssumption
<1>2. RxSize \in Nat \ {0} /\ U32 \in Nat \ {0} /\ m \in Int
  BY RxAssumption, U32Assumption
<1> QED
  BY <1>1, <1>2, ModOfWrapped DEF u32

\* The array after one entry has been written.
LEMMA FillAddrRing ==
    ASSUME NEW r \in Rings(NumFrames, Frames), NEW x, NEW d
    PROVE  xsk_ring_prod__fill_addr(r, x, d).ring = [r.ring EXCEPT ![x % NumFrames] = d]
BY DEF xsk_ring_prod__fill_addr, Slot, Rings

\* A slot of the fill ring is named like a frame.
LEMMA FillSlot ==
    ASSUME NEW x \in Int
    PROVE  x % NumFrames \in Frames
BY NumFramesAssumption, DivMod DEF Frames

\* What the fill ring holds once a pending store is made.
LEMMA ContentsType ==
    ASSUME TypeOK
    PROVE  /\ FillContents \in [Frames -> Frames]
           /\ FillContents = IF pc = "store"
                             THEN [fq.ring EXCEPT ![idx_fq % NumFrames] = oldval]
                             ELSE fq.ring
<1>1. fq \in Rings(NumFrames, Frames) /\ fq.ring \in [Frames -> Frames]
  BY Numbers
<1>2. oldval \in Frames
  BY DEF TypeOK, FillTypeOK
<1>3. xsk_ring_prod__fill_addr(fq, idx_fq, oldval).ring
        = [fq.ring EXCEPT ![idx_fq % NumFrames] = oldval]
  BY <1>1, FillAddrRing
<1> QED
  BY <1>1, <1>2, <1>3 DEF FillContents

\* Entry j places behind the last one written is entry InFill + j from the
\* consumer on.
LEMMA EndSlot ==
    ASSUME TypeOK, NEW j \in Int
    PROVE  /\ (FillEnd + j) % NumFrames = (fq.consumer + (InFill + j)) % NumFrames
           /\ FillEnd % NumFrames = (fq.consumer + InFill) % NumFrames
<1>1. fq.consumer \in U32Values /\ FillEnd \in U32Values /\ InFill \in U32Values
  BY Numbers
<1>2. FillEnd = u32(fq.consumer + InFill)
  BY <1>1, AddDist DEF InFill
<1>3. fq.consumer \in Int /\ InFill \in Int
  BY <1>1, U32Nat
<1>4. (u32(fq.consumer + InFill) + j) % NumFrames = ((fq.consumer + InFill) + j) % NumFrames
  BY <1>3, MaskFill, fq.consumer + InFill \in Int
<1>5. (fq.consumer + InFill) + j = fq.consumer + (InFill + j)
  BY <1>3
<1>6. (u32(fq.consumer + InFill) + 0) % NumFrames = ((fq.consumer + InFill) + 0) % NumFrames
  BY <1>3, MaskFill, fq.consumer + InFill \in Int
<1>7. FillEnd \in Int
  BY <1>1, U32Nat
<1>8. FillEnd + 0 = FillEnd /\ (fq.consumer + InFill) + 0 = fq.consumer + InFill
  BY <1>3, <1>7
<1> QED
  BY <1>2, <1>4, <1>5, <1>6, <1>8

\* Counting from the consumer, the entries of the fill ring hold the frames in
\* the order in which they circulate.
LEMMA CirculatingEntry ==
    ASSUME TypeOK, PointersOK, ShadowOK, NEW j \in Frames
    PROVE  Circulating(j) = FillContents[(fq.consumer + j) % NumFrames]
<1>1. /\ j \in Nat /\ j < NumFrames /\ InFill \in Nat /\ InRx \in Nat /\ Len(nic) \in Nat
      /\ NumFrames \in Nat /\ InFill + InRx + Len(nic) = NumFrames
  BY Sizes DEF PointersOK, Frames
<1>2. CASE j < InFill
  BY <1>2, Numbers DEF Circulating, Slot
<1>3. CASE InFill <= j /\ j < InFill + InRx
  <2>1. j - InFill \in 0 .. InRx - 1 /\ InFill + (j - InFill) = j
    BY <1>1, <1>3
  <2>2. FillContents[(FillEnd + (j - InFill)) % NumFrames] = rx.ring[(idx_rx + (j - InFill)) % RxSize]
    BY <2>1 DEF ShadowOK
  <2>3. (FillEnd + (j - InFill)) % NumFrames = (fq.consumer + j) % NumFrames
    BY <2>1, EndSlot
  <2>4. idx_rx \in Int
    BY Numbers, U32Nat
  <2>5. idx_rx + j - InFill = idx_rx + (j - InFill)
    BY <1>1, <2>4
  <2>6. Circulating(j) = rx.ring[(idx_rx + j - InFill) % RxSize]
    BY <1>1, <1>3, Numbers DEF Circulating, xsk_ring_cons__desc, Slot
  <2> QED
    BY <2>2, <2>3, <2>5, <2>6
<1>4. CASE InFill + InRx <= j
  <2> DEFINE l == j - InFill - InRx + 1
  <2>1. /\ l \in 1 .. Len(nic) /\ InRx + l - 1 \in Int /\ InFill + (InRx + l - 1) = j
    BY <1>1, <1>4
  <2>2. FillContents[(FillEnd + InRx + l - 1) % NumFrames] = nic[l]
    BY <2>1 DEF ShadowOK
  <2>3. FillEnd \in Int
    BY Numbers, U32Nat
  <2>4. FillEnd + InRx + l - 1 = FillEnd + (InRx + l - 1)
    BY <1>1, <2>1, <2>3
  <2>5. (FillEnd + (InRx + l - 1)) % NumFrames = (fq.consumer + j) % NumFrames
    BY <2>1, EndSlot
  <2>6. Circulating(j) = nic[l]
    BY <1>1, <1>4 DEF Circulating
  <2> QED
    BY <2>2, <2>4, <2>5, <2>6
<1> QED
  BY <1>1, <1>2, <1>3, <1>4

\* The inductive invariant implies that the frames are conserved.
LEMMA InvariantConserves ==
    ASSUME TypeOK, PointersOK, PermutationOK, ShadowOK
    PROVE  FramesConserved
<1>1. InFill + InRx + Len(nic) = NumFrames
  BY DEF PointersOK
<1>2. NumFrames \in Nat \ {0} /\ fq.consumer \in U32Values
  BY Numbers
<1>3. fq.consumer \in Int
  BY <1>2, U32Nat
<1>4. ASSUME NEW f \in Frames
      PROVE  \E j \in Frames : Circulating(j) = f
  <2>1. PICK s \in Frames : FillContents[s] = f
    BY DEF PermutationOK
  <2>2. PICK j \in Frames : (fq.consumer + j) % NumFrames = s
    BY <1>2, <1>3, ModOnto DEF Frames
  <2> QED
    BY <2>1, <2>2, CirculatingEntry
<1>5. ASSUME NEW j \in Frames, NEW l \in Frames, Circulating(j) = Circulating(l)
      PROVE  j = l
  <2>1. FillContents[(fq.consumer + j) % NumFrames] = FillContents[(fq.consumer + l) % NumFrames]
    BY <1>5, CirculatingEntry
  <2>2. (fq.consumer + j) % NumFrames \in Frames /\ (fq.consumer + l) % NumFrames \in Frames
    BY <1>3, FillSlot, fq.consumer + j \in Int, fq.consumer + l \in Int DEF Frames
  <2>3. (fq.consumer + j) % NumFrames = (fq.consumer + l) % NumFrames
    BY <2>1, <2>2 DEF PermutationOK
  <2> QED
    BY <1>2, <1>3, <2>3, ModInjective DEF Frames
<1> QED
  BY <1>1, <1>4, <1>5 DEF FramesConserved

-----------------------------------------------------------------------------
(* Steps that move no frame. *)

\* A step that leaves the contents and the ends of the rings alone keeps the frames
\* where they are.
LEMMA SameFrames ==
    ASSUME PermutationOK, ShadowOK, FillContents' = FillContents,
           FillEnd' = FillEnd, InRx' = InRx, rx'.ring = rx.ring,
           idx_rx' = idx_rx, nic' = nic
    PROVE  PermutationOK' /\ ShadowOK'
<1>1. PermutationOK'
  BY DEF PermutationOK
<1>2. ShadowOK'
  BY DEF ShadowOK
<1> QED
  BY <1>1, <1>2

\* Peeking and reserving leave the array and the shared pointers alone.
LEMMA PeekKeeps ==
    ASSUME NEW size, NEW D, NEW r \in Rings(size, D), NEW nb
    PROVE  /\ xsk_ring_cons__peek(r, nb).ring = r.ring
           /\ xsk_ring_cons__peek(r, nb).producer = r.producer
BY DEF xsk_ring_cons__peek, ConsRefreshed, Rings

\* Reserving changes cached copies only.
LEMMA ReserveKeeps ==
    ASSUME NEW size, NEW D, NEW r \in Rings(size, D), NEW nb
    PROVE  /\ xsk_ring_prod__reserve(r, nb).ring = r.ring
           /\ xsk_ring_prod__reserve(r, nb).consumer = r.consumer
BY DEF xsk_ring_prod__reserve, ProdRefreshed, Rings

\* Steps outside the batch move no frame.
LEMMA QuietFrames ==
    ASSUME ExchangeOK, PermutationOK, ShadowOK,
           UNCHANGED <<fillVars, rx, nic, idx_rx>>,
           \/ pc' = pc
           \/ pc \in Quiet /\ pc' \in Quiet
    PROVE  ExchangeOK' /\ PermutationOK' /\ ShadowOK'
<1>1. ExchangeOK'
  BY DEF ExchangeOK, Quiet, fillVars
<1>2. FillContents' = FillContents /\ FillEnd' = FillEnd /\ InRx' = InRx
  BY DEF FillContents, FillEnd, InRx, Quiet, fillVars
<1> QED
  BY <1>1, <1>2, SameFrames

\* Peeking moves no frame.
LEMMA PeekFrames ==
    ASSUME TypeOK, PointersOK, PermutationOK, ShadowOK, Peek
    PROVE  ExchangeOK' /\ PermutationOK' /\ ShadowOK'
<1>1. pc = "peek" /\ pc' \in {"recvfrom", "returned", "reserve"} /\ nic' = nic
        /\ fq' = fq /\ idx_fq' = idx_fq /\ oldval' = oldval
        /\ idx_rx' \in {idx_rx, rx.cached_cons}
  BY DEF Peek
<1>2. rx.cached_cons = idx_rx
  BY <1>1 DEF PointersOK, RxPointersOK, Peeked, Processed, Written
<1>3. rx'.ring = rx.ring /\ rx'.producer = rx.producer
  BY Numbers, PeekKeeps DEF Peek
<1>4. FillContents' = FillContents /\ FillEnd' = FillEnd /\ InRx' = InRx
  BY <1>1, <1>2, <1>3 DEF FillContents, FillEnd, InRx
<1>5. ExchangeOK'
  BY <1>1 DEF ExchangeOK
<1> QED
  BY <1>1, <1>2, <1>3, <1>4, <1>5, SameFrames

\* Reserving moves no frame.
LEMMA ReserveFrames ==
    ASSUME TypeOK, PointersOK, PermutationOK, ShadowOK, Reserve
    PROVE  ExchangeOK' /\ PermutationOK' /\ ShadowOK'
<1>1. pc = "reserve" /\ pc' \in {"check", "recvfrom_fq", "reserve"} /\ nic' = nic
        /\ rx' = rx /\ idx_rx' = idx_rx /\ oldval' = oldval
        /\ idx_fq' \in {idx_fq, fq.cached_prod}
  BY DEF Reserve, ReserveFill
<1>2. fq.cached_prod = idx_fq
  BY <1>1 DEF PointersOK, FillPointersOK, ReservedPc, FillEnd, Written
<1>3. fq'.ring = fq.ring
  BY Numbers, ReserveKeeps DEF Reserve, ReserveFill
<1>4. FillContents' = FillContents /\ FillEnd' = FillEnd /\ InRx' = InRx
  BY <1>1, <1>2, <1>3 DEF FillContents, FillEnd, InRx
<1>5. ExchangeOK'
  BY <1>1 DEF ExchangeOK
<1> QED
  BY <1>1, <1>4, <1>5, SameFrames

\* After the test of the consumer, prev_consumer is where the driver stands.
LEMMA CheckFrames ==
    ASSUME PermutationOK, ShadowOK, Check
    PROVE  ExchangeOK' /\ PermutationOK' /\ ShadowOK'
<1>1. pc = "check" /\ pc' = "fill" /\ nic' = nic /\ rx' = rx /\ idx_rx' = idx_rx
        /\ fq' = fq /\ idx_fq' = idx_fq /\ prev_consumer' = fq.consumer
  BY DEF Check, CheckConsumer
<1>2. FillContents' = FillContents /\ FillEnd' = FillEnd /\ InRx' = InRx
  BY <1>1 DEF FillContents, FillEnd, InRx
<1>3. ExchangeOK'
  BY <1>1 DEF ExchangeOK
<1> QED
  BY <1>1, <1>2, <1>3, SameFrames

\* The load of the consumer aims the exchange at the entry the driver would take
\* after those already given back.
LEMMA FillWarmLoadFrames ==
    ASSUME ExchangeOK, PermutationOK, ShadowOK, FillWarmLoad
    PROVE  ExchangeOK' /\ PermutationOK' /\ ShadowOK'
<1>1. pc = "fill" /\ pc' = "exchange" /\ nic' = nic /\ rx' = rx /\ idx_rx' = idx_rx
        /\ fq' = fq /\ idx_fq' = idx_fq /\ prev_consumer' = prev_consumer
        /\ opt' = opt /\ to_add' = to_add /\ i' = i
        /\ target' = u32(fq.consumer + u32(to_add + i))
  BY DEF FillWarmLoad, LoadConsumer
<1>2. FillContents' = FillContents /\ FillEnd' = FillEnd /\ InRx' = InRx
  BY <1>1 DEF FillContents, FillEnd, InRx
<1>3. ExchangeOK'
  BY <1>1 DEF ExchangeOK
<1> QED
  BY <1>1, <1>2, <1>3, SameFrames

\* The store makes true what FillContents already counted as written.
LEMMA FillWarmStoreFrames ==
    ASSUME TypeOK, ExchangeOK, PermutationOK, ShadowOK, FillWarmStore
    PROVE  ExchangeOK' /\ PermutationOK' /\ ShadowOK'
<1>1. pc = "store" /\ pc' \in {"fill", "submit"} /\ nic' = nic /\ rx' = rx
        /\ idx_rx' = idx_rx /\ idx_fq' = u32(idx_fq + 1)
        /\ prev_consumer' = prev_consumer /\ opt' = opt
        /\ fq' = xsk_ring_prod__fill_addr(fq, idx_fq, oldval)
  BY DEF FillWarmStore, StoreOld, NextFill
<1>2. oldval \in Frames
  BY DEF TypeOK, FillTypeOK
<1>3. fq'.ring = [fq.ring EXCEPT ![idx_fq % NumFrames] = oldval] /\ fq'.consumer = fq.consumer
  BY <1>1, <1>2, WriteFill
<1>4. FillContents' = FillContents
  BY <1>1, <1>3, ContentsType DEF FillContents
<1>5. FillEnd' = FillEnd /\ InRx' = InRx
  BY <1>1 DEF FillEnd, InRx
<1>6. ExchangeOK'
  BY <1>1, <1>3 DEF ExchangeOK
<1> QED
  BY <1>1, <1>4, <1>5, <1>6, SameFrames

\* Publishing moves no frame: the entries were written before.
LEMMA SubmitFrames ==
    ASSUME TypeOK, PermutationOK, ShadowOK, Submit
    PROVE  ExchangeOK' /\ PermutationOK' /\ ShadowOK'
<1>1. pc = "submit" /\ pc' = "release" /\ nic' = nic /\ rx' = rx /\ idx_rx' = idx_rx
        /\ idx_fq' = idx_fq /\ fq' = xsk_ring_prod__submit(fq, rcvd)
  BY DEF Submit, SubmitFill
<1>2. fq'.ring = fq.ring
  BY <1>1, Numbers DEF xsk_ring_prod__submit, Rings
<1>3. FillContents' = FillContents /\ FillEnd' = FillEnd /\ InRx' = InRx
  BY <1>1, <1>2 DEF FillContents, FillEnd, InRx
<1>4. ExchangeOK'
  BY <1>1 DEF ExchangeOK
<1> QED
  BY <1>1, <1>3, <1>4, SameFrames

\* Releasing moves no frame: they were given back before.
LEMMA ReleaseFrames ==
    ASSUME TypeOK, PermutationOK, ShadowOK, Release
    PROVE  ExchangeOK' /\ PermutationOK' /\ ShadowOK'
<1>1. pc = "release" /\ pc' = "returned" /\ nic' = nic /\ fq' = fq /\ idx_rx' = idx_rx
        /\ idx_fq' = idx_fq /\ rx' = xsk_ring_cons__release(rx, rcvd)
  BY DEF Release, fillVars
<1>2. rx'.ring = rx.ring /\ rx'.producer = rx.producer
  BY <1>1, Numbers DEF xsk_ring_cons__release, Rings
<1>3. FillContents' = FillContents /\ FillEnd' = FillEnd /\ InRx' = InRx
  BY <1>1, <1>2 DEF FillContents, FillEnd, InRx
<1>4. ExchangeOK'
  BY <1>1 DEF ExchangeOK
<1> QED
  BY <1>1, <1>2, <1>3, <1>4, SameFrames

-----------------------------------------------------------------------------
(* Steps that give a frame back. *)

\* The frame about to be given back already stands in the entry that is about
\* to be appended.
LEMMA NextEntry ==
    ASSUME TypeOK, PointersOK, ShadowOK, pc \in {"fill", "exchange"}
    PROVE  FillContents[idx_fq % NumFrames] = xsk_ring_cons__desc(rx, idx_rx)
<1>1. InRx >= 1 /\ FillEnd = idx_fq
  BY MoveOne
<1>2. 0 \in 0 .. InRx - 1
  BY <1>1, Sizes
<1>3. FillContents[(FillEnd + 0) % NumFrames] = rx.ring[(idx_rx + 0) % RxSize]
  BY <1>2 DEF ShadowOK
<1>4. idx_fq \in Int /\ idx_rx \in Int
  BY Numbers, U32Nat
<1>5. idx_fq + 0 = idx_fq /\ idx_rx + 0 = idx_rx
  BY <1>4
<1> QED
  BY <1>1, <1>3, <1>5, Numbers DEF xsk_ring_cons__desc, Slot

\* Giving a frame back leaves the entries behind it, if they are not written,
\* in step with the rx ring and the NIC.
LEMMA ShadowShift ==
    ASSUME TypeOK, PointersOK, ShadowOK, pc \in {"fill", "exchange"},
           FillEnd' = u32(idx_fq + 1), InRx' = InRx - 1,
           idx_rx' = u32(idx_rx + 1), rx' = rx, nic' = nic,
           \A x \in 1 .. (InRx + Len(nic) - 1) :
               FillContents'[(idx_fq + x) % NumFrames] = FillContents[(idx_fq + x) % NumFrames]
    PROVE  ShadowOK'
<1>1. InRx \in Nat /\ Len(nic) \in Nat /\ InRx >= 1 /\ FillEnd = idx_fq
  BY MoveOne, Sizes
<1>2. idx_fq \in Int /\ idx_rx \in Int
  BY Numbers, U32Nat
<1>3. ASSUME NEW j \in 0 .. InRx' - 1
      PROVE  FillContents'[(FillEnd' + j) % NumFrames] = rx'.ring[(idx_rx' + j) % RxSize]
  <2>1. j + 1 \in 0 .. InRx - 1 /\ j + 1 \in 1 .. (InRx + Len(nic) - 1) /\ j \in Int
    BY <1>1
  <2>2. (u32(idx_fq + 1) + j) % NumFrames = ((idx_fq + 1) + j) % NumFrames
    BY <1>2, <2>1, MaskFill, idx_fq + 1 \in Int
  <2>3. (u32(idx_rx + 1) + j) % RxSize = ((idx_rx + 1) + j) % RxSize
    BY <1>2, <2>1, MaskRx, idx_rx + 1 \in Int
  <2>4. (idx_fq + 1) + j = idx_fq + (j + 1) /\ (idx_rx + 1) + j = idx_rx + (j + 1)
    BY <1>2, <2>1
  <2>5. FillContents[(idx_fq + (j + 1)) % NumFrames] = rx.ring[(idx_rx + (j + 1)) % RxSize]
    BY <1>1, <2>1 DEF ShadowOK
  <2>6. FillContents'[(idx_fq + (j + 1)) % NumFrames] = FillContents[(idx_fq + (j + 1)) % NumFrames]
    BY <2>1
  <2> QED
    BY <2>2, <2>3, <2>4, <2>5, <2>6
<1>4. ASSUME NEW j \in 1 .. Len(nic')
      PROVE  FillContents'[(FillEnd' + InRx' + j - 1) % NumFrames] = nic'[j]
  <2>1. /\ InRx + j - 1 \in 1 .. (InRx + Len(nic) - 1) /\ j \in Int /\ j \in 1 .. Len(nic)
        /\ InRx' + j - 1 \in Int
    BY <1>1
  <2>2. (u32(idx_fq + 1) + (InRx' + j - 1)) % NumFrames
          = ((idx_fq + 1) + (InRx' + j - 1)) % NumFrames
    BY <1>2, <2>1, MaskFill, idx_fq + 1 \in Int
  <2>3. u32(idx_fq + 1) \in Int
    BY <1>2, U32Type, U32Nat, idx_fq + 1 \in Int
  <2>4. /\ (idx_fq + 1) + (InRx' + j - 1) = idx_fq + (InRx + j - 1)
        /\ FillEnd' + InRx' + j - 1 = u32(idx_fq + 1) + (InRx' + j - 1)
        /\ FillEnd + InRx + j - 1 = idx_fq + (InRx + j - 1)
    BY <1>1, <1>2, <2>1, <2>3
  <2>5. FillContents[(FillEnd + InRx + j - 1) % NumFrames] = nic[j]
    BY <2>1 DEF ShadowOK
  <2>6. FillContents'[(idx_fq + (InRx + j - 1)) % NumFrames]
          = FillContents[(idx_fq + (InRx + j - 1)) % NumFrames]
    BY <2>1
  <2> QED
    BY <2>2, <2>4, <2>5, <2>6
<1> QED
  BY <1>3, <1>4 DEF ShadowOK

\* Appending writes the frame over itself.
LEMMA FillFifoFrames ==
    ASSUME TypeOK, PointersOK, PermutationOK, ShadowOK, FillFifo
    PROVE  ExchangeOK' /\ PermutationOK' /\ ShadowOK'
<1> DEFINE d == xsk_ring_cons__desc(rx, idx_rx)
<1>1. /\ pc = "fill" /\ pc' \in {"fill", "submit"} /\ ~opt.warm_buffers /\ opt' = opt
      /\ nic' = nic /\ rx' = rx /\ idx_rx' = u32(idx_rx + 1) /\ idx_fq' = u32(idx_fq + 1)
      /\ fq' = xsk_ring_prod__fill_addr(fq, idx_fq, d)
  BY DEF FillFifo, FillPlain, NextFill
<1>2. fq'.ring = [fq.ring EXCEPT ![idx_fq % NumFrames] = d]
  BY <1>1, DescType, WriteFill
<1>3. FillContents = fq.ring /\ fq.ring \in [Frames -> Frames]
  BY <1>1, Numbers DEF FillContents
<1>4. fq.ring[idx_fq % NumFrames] = d
  BY <1>1, <1>3, NextEntry
<1>5. FillContents' = FillContents
  BY <1>1, <1>2, <1>3, <1>4 DEF FillContents
<1>6. FillEnd' = u32(idx_fq + 1) /\ InRx' = InRx - 1
  BY <1>1, MoveOne DEF FillEnd, InRx
<1>7. PermutationOK'
  BY <1>5 DEF PermutationOK
<1>8. ShadowOK'
  BY <1>1, <1>5, <1>6, ShadowShift
<1>9. ExchangeOK'
  BY <1>1 DEF ExchangeOK
<1> QED
  BY <1>7, <1>8, <1>9

\* The entry the exchange is aimed at lies between the consumer and the entry
\* about to be appended.
LEMMA TargetSlot ==
    ASSUME TypeOK, PointersOK, ExchangeOK, opt.warm_buffers, pc = "exchange"
    PROVE  /\ to_add + i \in 0 .. InFill
           /\ target % NumFrames = (fq.consumer + (to_add + i)) % NumFrames
<1>1. /\ prev_consumer = fq.consumer /\ target = u32(fq.consumer + u32(to_add + i))
  BY DEF ExchangeOK
<1>2. to_add # -1 /\ to_add <= u32(fq.producer - prev_consumer)
  BY DEF PointersOK, ToAddOK
<1>3. InFill = Used(fq) + i
  BY Distances DEF Written
<1>4. to_add \in -1 .. NumFrames /\ to_add <= Used(fq) /\ Used(fq) \in Nat /\ i \in Nat
        /\ InFill \in U32Values /\ NumFrames \in Nat
  BY <1>1, <1>2, Numbers, Sizes
<1>5. to_add + i \in 0 .. InFill
  BY <1>2, <1>3, <1>4
<1>6. to_add + i \in U32Values
  BY <1>4, <1>5, U32Assumption DEF U32Values
<1>7. target = u32(fq.consumer + (to_add + i))
  BY <1>1, <1>6, U32Small
<1>8. fq.consumer + (to_add + i) \in Int
  <2>1. fq.consumer \in Int
    BY Numbers, U32Nat
  <2> QED
    BY <1>4, <2>1
<1>9. (u32(fq.consumer + (to_add + i)) + 0) % NumFrames
        = ((fq.consumer + (to_add + i)) + 0) % NumFrames
  BY <1>8, MaskFill
<1>10. target \in Int
  BY Numbers, U32Nat
<1>11. /\ u32(fq.consumer + (to_add + i)) + 0 = target
       /\ (fq.consumer + (to_add + i)) + 0 = fq.consumer + (to_add + i)
  BY <1>7, <1>8, <1>10
<1> QED
  BY <1>5, <1>9, <1>11

IsPermutation(F) ==
    /\ F \in [Frames -> Frames]
    /\ \A f \in Frames : \E s \in Frames : F[s] = f
    /\ \A s, t \in Frames : F[s] = F[t] => s = t

IsSwap(F, G, a, b) ==
    /\ G \in [Frames -> Frames]
    /\ \A s \in Frames : G[s] = IF s = a THEN F[b] ELSE IF s = b THEN F[a] ELSE F[s]

\* Exchanging two entries of a permutation gives a permutation.
LEMMA SwapPermutation ==
    ASSUME NEW F, NEW G, NEW a \in Frames, NEW b \in Frames,
           IsPermutation(F), IsSwap(F, G, a, b)
    PROVE  IsPermutation(G)
<1>1. ASSUME NEW f \in Frames
      PROVE  \E s \in Frames : G[s] = f
  <2>1. PICK s \in Frames : F[s] = f
    BY DEF IsPermutation
  <2>2. G[a] = f \/ G[b] = f \/ G[s] = f
    BY <2>1 DEF IsSwap
  <2> QED
    BY <2>2
<1>2. ASSUME NEW s \in Frames, NEW t \in Frames, G[s] = G[t]
      PROVE  s = t
  BY <1>2 DEF IsPermutation, IsSwap
<1> QED
  BY <1>1, <1>2 DEF IsPermutation, IsSwap

\* The exchange swaps two entries of a permutation: the one aimed at and the one
\* the store will write.
LEMMA FillWarmExchangeFrames ==
    ASSUME TypeOK, PointersOK, ExchangeOK, PermutationOK, ShadowOK, FillWarmExchange
    PROVE  ExchangeOK' /\ PermutationOK' /\ ShadowOK'
<1> DEFINE d == xsk_ring_cons__desc(rx, idx_rx)
           t == target % NumFrames
           e == idx_fq % NumFrames
<1>1. /\ pc = "exchange" /\ pc' = "store" /\ opt' = opt /\ opt.warm_buffers
      /\ nic' = nic /\ rx' = rx /\ idx_rx' = u32(idx_rx + 1) /\ idx_fq' = idx_fq
      /\ prev_consumer' = prev_consumer /\ oldval' = fq.ring[Slot(fq, target)]
      /\ fq' = xsk_ring_prod__fill_addr(fq, target, d)
  BY DEF FillWarmExchange, Exchange, PointersOK, BatchOK
<1>2. /\ fq'.ring = [fq.ring EXCEPT ![t] = d] /\ fq'.consumer = fq.consumer
      /\ fq' \in Rings(NumFrames, Frames)
  BY <1>1, DescType, WriteFill
<1>3. FillContents = fq.ring /\ fq.ring \in [Frames -> Frames] /\ oldval' = fq.ring[t]
  BY <1>1, Numbers DEF FillContents, Slot
<1>4. fq.ring[e] = d
  BY <1>1, <1>3, NextEntry
<1>5. t \in Frames /\ e \in Frames
  <2>1. target \in Int /\ idx_fq \in Int
    BY Numbers, U32Nat
  <2> QED
    BY <2>1, FillSlot
<1>6. d \in Frames
  BY DescType
<1>7. FillContents' = [fq'.ring EXCEPT ![e] = oldval']
  <2>1. xsk_ring_prod__fill_addr(fq', idx_fq', oldval').ring
          = [fq'.ring EXCEPT ![idx_fq' % NumFrames] = oldval']
    BY <1>2, FillAddrRing
  <2> QED
    BY <1>1, <2>1 DEF FillContents
<1> HIDE DEF d, t, e
<1>8. IsSwap(fq.ring, FillContents', e, t)
  BY <1>2, <1>3, <1>4, <1>5, <1>6, <1>7 DEF IsSwap
<1>9. PermutationOK'
  <2>1. IsPermutation(fq.ring)
    BY <1>3 DEF PermutationOK, IsPermutation
  <2>2. IsPermutation(FillContents')
    BY <1>5, <1>8, <2>1, SwapPermutation
  <2> QED
    BY <2>2 DEF PermutationOK, IsPermutation
<1>10. FillEnd' = u32(idx_fq + 1) /\ InRx' = InRx - 1
  BY <1>1, MoveOne DEF FillEnd, InRx
<1>11. ASSUME NEW x \in 1 .. (InRx + Len(nic) - 1)
       PROVE  FillContents'[(idx_fq + x) % NumFrames] = FillContents[(idx_fq + x) % NumFrames]
  <2>1. /\ InFill \in Nat /\ InRx \in Nat /\ Len(nic) \in Nat /\ InRx >= 1
        /\ InFill + InRx + Len(nic) = NumFrames /\ FillEnd = idx_fq
        /\ NumFrames \in Nat \ {0} /\ to_add + i \in 0 .. InFill
    BY <1>1, MoveOne, Sizes, TargetSlot, NumFramesAssumption
  <2>2. /\ InFill + x \in 0 .. (NumFrames - 1) /\ to_add + i \in 0 .. (NumFrames - 1)
        /\ InFill \in 0 .. (NumFrames - 1)
        /\ InFill + x # to_add + i /\ InFill + x # InFill + 0 /\ x \in Int
        /\ InFill + 0 = InFill
    BY <2>1
  <2>3. fq.consumer \in Int /\ idx_fq \in Int
    BY Numbers, U32Nat
  <2>4. (idx_fq + x) % NumFrames = (fq.consumer + (InFill + x)) % NumFrames
    BY <2>1, <2>2, EndSlot
  <2>5. e = (fq.consumer + InFill) % NumFrames
    BY <2>1, EndSlot, 1 \in Int DEF e
  <2>6. t = (fq.consumer + (to_add + i)) % NumFrames
    BY <1>1, TargetSlot DEF t
  <2>7. (idx_fq + x) % NumFrames # e
    BY <2>1, <2>2, <2>3, <2>4, <2>5, ModInjective
  <2>8. (idx_fq + x) % NumFrames # t
    BY <2>1, <2>2, <2>3, <2>4, <2>6, ModInjective
  <2>9. (idx_fq + x) % NumFrames \in Frames
    BY <2>2, <2>3, FillSlot, idx_fq + x \in Int
  <2> QED
    BY <1>3, <1>8, <2>7, <2>8, <2>9 DEF IsSwap
<1>12. ShadowOK'
  BY <1>1, <1>10, <1>11, ShadowShift
<1>13. ExchangeOK'
  BY <1>1, <1>2 DEF ExchangeOK
<1> QED
  BY <1>9, <1>12, <1>13

-----------------------------------------------------------------------------
(* Steps of the driver. *)

\* The driver never runs inside an exchange.
LEMMA KernelOutside ==
    ASSUME SafeMode, KernelRuns, opt.warm_buffers
    PROVE  pc \notin {"fill", "exchange", "store"}
BY DEF SafeMode, KernelRuns, InSyscall

\* Going once around the ring leads back to the consumer.
LEMMA FullCircle ==
    ASSUME TypeOK, InFill + InRx + Len(nic) = NumFrames
    PROVE  (FillEnd + InRx + (Len(nic) + 1) - 1) % NumFrames = fq.consumer % NumFrames
<1>1. /\ InFill \in Nat /\ InRx \in Nat /\ Len(nic) \in Nat /\ NumFrames \in Nat \ {0}
  BY Sizes, NumFramesAssumption
<1>2. fq.consumer \in Int /\ FillEnd \in Int
  BY Numbers, U32Nat
<1>3. FillEnd + InRx + (Len(nic) + 1) - 1 = FillEnd + (InRx + Len(nic)) /\ InRx + Len(nic) \in Int
  BY <1>1, <1>2
<1>4. (FillEnd + (InRx + Len(nic))) % NumFrames
        = (fq.consumer + (InFill + (InRx + Len(nic)))) % NumFrames
  BY <1>3, EndSlot
<1>5. InFill + (InRx + Len(nic)) = NumFrames
  BY <1>1
<1>6. (fq.consumer + NumFrames) % NumFrames = fq.consumer % NumFrames
  BY <1>1, <1>2, ModAddOnce
<1> QED
  BY <1>3, <1>4, <1>5, <1>6

\* The entry the driver takes becomes the last of those that shadow the NIC.
LEMMA NicRefillFrames ==
    ASSUME TypeOK, PointersOK, SafeMode, PermutationOK, ShadowOK, NicRefill
    PROVE  ExchangeOK' /\ PermutationOK' /\ ShadowOK'
<1>1. /\ KernelRuns /\ opt' = opt /\ pc' = pc /\ nic' = Append(nic, KernelTaken(fq))
      /\ rx' = rx /\ idx_rx' = idx_rx /\ idx_fq' = idx_fq /\ oldval' = oldval
      /\ fq' = KernelTake(fq)
  BY DEF NicRefill
<1>2. pc # "store"
  BY <1>1, KernelOutside DEF PointersOK, BatchOK
<1>3. fq'.ring = fq.ring
  BY <1>1, Numbers DEF KernelTake, Rings
<1>4. FillContents' = FillContents /\ FillEnd' = FillEnd /\ InRx' = InRx
  BY <1>1, <1>2, <1>3 DEF FillContents, FillEnd, InRx
<1>5. PermutationOK'
  BY <1>4 DEF PermutationOK
<1>6. ExchangeOK'
  BY <1>1, KernelOutside DEF ExchangeOK
<1>7. FillContents[fq.consumer % NumFrames] = KernelTaken(fq)
  BY <1>2, Numbers DEF FillContents, KernelTaken, Slot
<1>8. Len(nic) \in Nat /\ nic \in Seq(Frames)
  BY Numbers
<1>9. ASSUME NEW j \in 1 .. Len(nic')
      PROVE  FillContents[(FillEnd + InRx + j - 1) % NumFrames] = nic'[j]
  <2>1. CASE j \in 1 .. Len(nic)
    <3>1. nic'[j] = nic[j]
      BY <1>1, <1>8, <2>1
    <3> QED
      BY <2>1, <3>1 DEF ShadowOK
  <2>2. CASE j = Len(nic) + 1
    <3>1. nic'[j] = KernelTaken(fq)
      BY <1>1, <1>8, <2>2
    <3>2. (FillEnd + InRx + (Len(nic) + 1) - 1) % NumFrames = fq.consumer % NumFrames
      BY FullCircle DEF PointersOK
    <3> QED
      BY <1>7, <2>2, <3>1, <3>2
  <2>3. Len(nic') = Len(nic) + 1
    BY <1>1, <1>8
  <2> QED
    BY <1>8, <2>1, <2>2, <2>3
<1>10. ShadowOK'
  BY <1>1, <1>4, <1>9 DEF ShadowOK
<1> QED
  BY <1>5, <1>6, <1>10

\* The first frame of the NIC becomes the last of the rx ring; the entry that
\* shadows it stays the same.
LEMMA NicReceiveFrames ==
    ASSUME TypeOK, PointersOK, SafeMode, PermutationOK, ShadowOK, NicReceive
    PROVE  ExchangeOK' /\ PermutationOK' /\ ShadowOK'
<1>1. /\ KernelRuns /\ nic # <<>> /\ nic' = Tail(nic) /\ rx' = KernelPut(rx, Head(nic))
      /\ UNCHANGED <<fillVars, pc, idx_rx>> /\ Used(rx) < RxSize
  BY Numbers DEF NicReceive, KernelCanPut
<1>2. /\ rx'.ring = [rx.ring EXCEPT ![rx.producer % RxSize] = Head(nic)]
      /\ rx'.producer = u32(rx.producer + 1)
  BY <1>1, Numbers DEF KernelPut, Slot, Rings
<1>3. FillContents' = FillContents /\ FillEnd' = FillEnd
  BY <1>1 DEF FillContents, FillEnd, fillVars
<1>4. PermutationOK'
  BY <1>3 DEF PermutationOK
<1>5. ExchangeOK'
  BY <1>1, KernelOutside DEF ExchangeOK, fillVars
<1>6. /\ InRx \in Nat /\ InRx < RxSize /\ RxSize \in Nat \ {0} /\ RxSize < U32 /\ U32 \in Nat
  <2>1. /\ InRx \in Nat /\ Used(rx) \in Nat /\ RxSize \in Nat \ {0} /\ RxSize < U32
        /\ U32 \in Nat
    BY Sizes
  <2>2. InRx = Used(rx) - Processed /\ Processed \in Nat
    BY Distances
  <2>3. Used(rx) < RxSize
    BY <1>1
  <2> QED
    BY <2>1, <2>2, <2>3
<1>7. InRx' = InRx + 1
  <2>1. InRx + 1 < U32 /\ 1 \in Nat
    BY <1>6
  <2> QED
    BY <1>1, <1>2, <2>1, Numbers, DistAdd DEF InRx
<1>8. rx.producer % RxSize = (idx_rx + InRx) % RxSize
  <2>1. rx.producer = u32(idx_rx + InRx)
    BY Numbers, AddDist DEF InRx
  <2>2. idx_rx \in Int /\ rx.producer \in Int
    BY Numbers, U32Nat
  <2>3. (u32(idx_rx + InRx) + 0) % RxSize = ((idx_rx + InRx) + 0) % RxSize
    BY <1>6, <2>2, MaskRx, idx_rx + InRx \in Int
  <2>4. rx.producer + 0 = rx.producer /\ (idx_rx + InRx) + 0 = idx_rx + InRx
    BY <1>6, <2>2
  <2> QED
    BY <2>1, <2>3, <2>4
<1>9. /\ nic \in Seq(Frames) /\ Len(nic) \in Nat /\ Len(nic) >= 1
      /\ Len(nic') = Len(nic) - 1 /\ Head(nic) = nic[1]
      /\ \A j \in 1 .. Len(nic) - 1 : nic'[j] = nic[j + 1]
  BY <1>1, Numbers
<1>10. rx.ring \in [Slots(RxSize) -> Frames] /\ idx_rx \in Int
  BY Numbers, U32Nat
<1>11. ASSUME NEW j \in 0 .. InRx' - 1
       PROVE  FillContents[(FillEnd + j) % NumFrames] = rx'.ring[(idx_rx + j) % RxSize]
  <2>1. j \in Nat /\ (j \in 0 .. InRx - 1 \/ j = InRx)
    BY <1>6, <1>7
  <2>2. CASE j \in 0 .. InRx - 1
    <3>1. (idx_rx + j) % RxSize # (idx_rx + InRx) % RxSize
      <4>1. j \in 0 .. (RxSize - 1) /\ InRx \in 0 .. (RxSize - 1) /\ j # InRx
        BY <1>6, <2>2
      <4> QED
        BY <1>6, <1>10, <4>1, ModInjective
    <3>2. (idx_rx + j) % RxSize \in Slots(RxSize)
      BY <1>6, <1>10, <2>1, DivMod, idx_rx + j \in Int DEF Slots
    <3>3. rx'.ring[(idx_rx + j) % RxSize] = rx.ring[(idx_rx + j) % RxSize]
      BY <1>2, <1>8, <1>10, <3>1, <3>2
    <3> QED
      BY <2>2, <3>3 DEF ShadowOK
  <2>3. CASE j = InRx
    <3>1. (idx_rx + InRx) % RxSize \in Slots(RxSize)
      BY <1>6, <1>10, DivMod, idx_rx + InRx \in Int DEF Slots
    <3>2. rx'.ring[(idx_rx + InRx) % RxSize] = nic[1]
      BY <1>2, <1>8, <1>9, <1>10, <3>1
    <3>3. 1 \in 1 .. Len(nic)
      BY <1>9
    <3>4. FillContents[(FillEnd + InRx + 1 - 1) % NumFrames] = nic[1]
      BY <3>3 DEF ShadowOK
    <3>5. FillEnd \in Int
      BY Numbers, U32Nat
    <3>6. FillEnd + InRx + 1 - 1 = FillEnd + InRx
      BY <1>6, <3>5
    <3> QED
      BY <2>3, <3>2, <3>4, <3>6
  <2> QED
    BY <2>1, <2>2, <2>3
<1>12. ASSUME NEW j \in 1 .. Len(nic')
       PROVE  FillContents[(FillEnd + (InRx + 1) + j - 1) % NumFrames] = nic'[j]
  <2>1. j + 1 \in 1 .. Len(nic) /\ nic'[j] = nic[j + 1] /\ j \in Int
    BY <1>9
  <2>2. FillContents[(FillEnd + InRx + (j + 1) - 1) % NumFrames] = nic[j + 1]
    BY <2>1 DEF ShadowOK
  <2>3. FillEnd \in Int
    BY Numbers, U32Nat
  <2>4. FillEnd + InRx + (j + 1) - 1 = FillEnd + (InRx + 1) + j - 1
    BY <1>6, <2>1, <2>3
  <2> QED
    BY <2>1, <2>2, <2>4
<1>13. ShadowOK'
  BY <1>1, <1>3, <1>7, <1>11, <1>12 DEF ShadowOK
<1> QED
  BY <1>4, <1>5, <1>13

-----------------------------------------------------------------------------

\* Populating the fill ring writes every frame once.
LEMMA FramesInit ==
    ASSUME Init
    PROVE  FramesOK
<1>1. TypeOK /\ PointersOK
  BY PointersInit
<1>2. FillContents = [f \in Frames |-> f]
  BY DEF Init, FillInit, PopulatedFillRing, FillContents
<1>3. PermutationOK
  BY <1>2 DEF PermutationOK
<1>4. ExchangeOK
  BY DEF Init, ExchangeOK
<1>5. 0 .. InRx - 1 = {} /\ 1 .. Len(nic) = {}
  <2>1. nic = <<>> /\ rx.producer = 0 /\ idx_rx = 0
    BY DEF Init, EmptyConsRing, EmptyProdRing
  <2>2. InRx = 0
    BY <2>1, U32Nat, DistZero DEF InRx
  <2> QED
    BY <2>1, <2>2
<1>6. ShadowOK
  BY <1>5 DEF ShadowOK
<1> QED
  BY <1>3, <1>4, <1>6 DEF FramesOK

\* Every step keeps the frames in order when -W is used with -B.
LEMMA FramesNext ==
    ASSUME TypeOK, PointersOK, FramesOK, [Next]_vars
    PROVE  FramesOK'
<1>1. opt' = opt
  BY DEF Next, vars, fillVars, App, Kernel, Terminated, int_exit, LoopTop, PollReturns,
         Returned, Peek, RecvfromReturns, Reserve, Check, FillFifo, FillWarmLoad,
         FillWarmExchange, FillWarmStore, Submit, Release, NicRefill, NicReceive
<1> SUFFICES ASSUME SafeMode, ExchangeOK, PermutationOK, ShadowOK
             PROVE  ExchangeOK' /\ PermutationOK' /\ ShadowOK'
  BY <1>1 DEF FramesOK, SafeMode
<1>2. CASE LoopTop
  BY <1>2, QuietFrames DEF LoopTop, Quiet
<1>3. CASE PollReturns
  BY <1>3, QuietFrames DEF PollReturns, Quiet
<1>4. CASE Returned
  BY <1>4, QuietFrames DEF Returned, Quiet
<1>5. CASE RecvfromReturns
  BY <1>5, QuietFrames DEF RecvfromReturns, Quiet, PointersOK, BatchOK
<1>6. CASE Peek
  BY <1>6, PeekFrames
<1>7. CASE Reserve
  BY <1>7, ReserveFrames
<1>8. CASE Check
  BY <1>8, CheckFrames
<1>9. CASE FillFifo
  BY <1>9, FillFifoFrames
<1>10. CASE FillWarmLoad
  BY <1>10, FillWarmLoadFrames
<1>11. CASE FillWarmExchange
  BY <1>11, FillWarmExchangeFrames
<1>12. CASE FillWarmStore
  BY <1>12, FillWarmStoreFrames
<1>13. CASE Submit
  BY <1>13, SubmitFrames
<1>14. CASE Release
  BY <1>14, ReleaseFrames
<1>15. CASE int_exit
  BY <1>15, QuietFrames DEF int_exit
<1>16. CASE NicRefill
  BY <1>16, NicRefillFrames
<1>17. CASE NicReceive
  BY <1>17, NicReceiveFrames
<1>18. CASE UNCHANGED vars
  BY <1>18, QuietFrames DEF vars
<1> QED
  BY <1>2, <1>3, <1>4, <1>5, <1>6, <1>7, <1>8, <1>9, <1>10, <1>11, <1>12, <1>13,
     <1>14, <1>15, <1>16, <1>17, <1>18 DEF Next, App, Kernel, Terminated

\* The fill ring always holds a permutation of the frames, with those in the rx
\* ring and in the NIC behind the last entry written, when -W is used with -B.
THEOREM FramesInvariant == Spec => []FramesOK
<1>1. Init => FramesOK
  BY FramesInit
<1>2. (TypeOK /\ PointersOK) /\ FramesOK /\ [Next]_vars => FramesOK'
  BY FramesNext
<1> QED
  BY <1>1, <1>2, PointersCorrect, PTL DEF Spec

\* receive never loses a frame and never has one in two places, however its
\* steps interleave with the driver's, whatever the number of frames, the sizes
\* of the rings, the batch size and the width of the pointers, provided that -W
\* is used only with -B.
THEOREM FramesAreConserved == Spec => [](SafeMode => FramesConserved)
<1>1. (TypeOK /\ PointersOK) /\ FramesOK => (SafeMode => FramesConserved)
  BY InvariantConserves DEF FramesOK
<1> QED
  BY <1>1, PointersCorrect, FramesInvariant, PTL
=============================================================================
