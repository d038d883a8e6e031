------------------------------ MODULE FillRing ------------------------------
(***************************************************************************)
(* How toasty.c gives frames back to the kernel through the fill ring.     *)
(* receive and complete_tx_forward hold the same code: reserve rcvd        *)
(* entries, look whether the kernel has consumed anything since the last   *)
(* batch, write one address per frame, submit.                             *)
(*                                                                         *)
(* With -W (opt.warm_buffers) a frame is not appended.  Its address is     *)
(* exchanged with the entry to_add + i places behind the consumer, which   *)
(* the kernel will take next, and the address found there is what is       *)
(* appended.  Each access to memory shared with the kernel is an operator  *)
(* of its own, so that a specification can interleave the kernel between   *)
(* any two of them.                                                        *)
(*                                                                         *)
(* A frame is named by its number: address i * multiplier is frame i.      *)
(***************************************************************************)
EXTENDS XskRing

CONSTANTS
    NumFrames,      \* umem_size = fq_size = num_fq_desc
    Options         \* the combinations of command-line options considered

ASSUME NumFramesAssumption ==
    /\ NumFrames \in Nat \ {0}
    /\ NumFrames < U32
    /\ \E m \in 1 .. U32 : U32 = m * NumFrames      \* a power of two in the code

\* -W, -B, -p, and -c or -S (XDP_COPY).
OptionRecords ==
    [warm_buffers : BOOLEAN, busy_poll : BOOLEAN, poll : BOOLEAN, copy : BOOLEAN]

ASSUME OptionsAssumption == Options \subseteq OptionRecords

VARIABLES
    opt,                \* the options, fixed at start
    fq,                 \* umem->fq
    to_add,             \* frames given back since the consumer last moved
    prev_consumer,      \* *fq.consumer as the last batch saw it
    rcvd, i,            \* size of the batch, frames of it given back
    idx_fq,             \* next reserved entry to write
    target,             \* the entry the exchange has been aimed at
    oldval              \* the address the exchange returned

fillVars == <<opt, fq, to_add, prev_consumer, rcvd, i, idx_fq, target, oldval>>

Frames == 0 .. NumFrames - 1

\* xsk_populate_fill_ring: every frame is in the fill ring, in order.
PopulatedFillRing ==
    [cached_prod |-> NumFrames, cached_cons |-> NumFrames,
     producer |-> NumFrames, consumer |-> 0, size |-> NumFrames,
     ring |-> [f \in Frames |-> f]]

\* The C locals are dead between batches; they keep their last value here.
FillInit ==
    /\ opt \in Options
    /\ fq = PopulatedFillRing
    /\ to_add = -1
    /\ prev_consumer = 0
    /\ rcvd = 0
    /\ i = 0
    /\ idx_fq = NumFrames
    /\ target = 0
    /\ oldval = 0

FillTypeOK ==
    /\ opt \in Options
    /\ fq \in Rings(NumFrames, Frames)
    /\ to_add \in -1 .. NumFrames
    /\ prev_consumer \in U32Values
    /\ rcvd \in Nat
    /\ i \in Nat
    /\ idx_fq \in U32Values
    /\ target \in U32Values
    /\ oldval \in Frames

-----------------------------------------------------------------------------

\* ret = xsk_ring_prod__reserve(&umem->fq, rcvd, &idx_fq)
ReserveFill ==
    /\ fq' = xsk_ring_prod__reserve(fq, rcvd)
    /\ idx_fq' = IF Reserved(fq, rcvd) > 0 THEN fq.cached_prod ELSE idx_fq

\* Faulty variants: to_add is never reset; the consumer seen is not remembered.
CheckWithoutReset ==
    /\ to_add' = IF to_add = -1 THEN 0 ELSE to_add
    /\ prev_consumer' = fq.consumer

CheckWithoutMemory ==
    /\ to_add' = IF fq.consumer # prev_consumer THEN 0 ELSE to_add
    /\ prev_consumer' = prev_consumer

\* "check if consumer has changed"
CheckConsumer ==
    /\ to_add' = IF fq.consumer # prev_consumer THEN 0 ELSE to_add
    /\ prev_consumer' = fq.consumer

\* Faulty variants: earlier batches are not skipped; the exchange is a plain
\* store, after which the old address is gone; the old address is written one
\* entry too far.
LoadWithoutToAdd == target' = u32(fq.consumer + i)

PlainStore(orig) ==
    /\ oldval' = orig
    /\ fq' = xsk_ring_prod__fill_addr(fq, target, orig)

StoreTooFar ==
    /\ fq' = xsk_ring_prod__fill_addr(fq, idx_fq + 1, oldval)
    /\ idx_fq' = u32(idx_fq + 1)
    /\ i' = i + 1
    /\ target' = 0
    /\ oldval' = 0

\* The three shared accesses of custom_xsk_ring_prod__fill_addr(idx_fq++, orig,
\* to_add + i): read the consumer, exchange, append what came out.  Its own
\* locals are gone when it returns.
LoadConsumer == target' = u32(fq.consumer + u32(to_add + i))

Exchange(orig) ==
    /\ oldval' = fq.ring[Slot(fq, target)]
    /\ fq' = xsk_ring_prod__fill_addr(fq, target, orig)

StoreOld ==
    /\ fq' = xsk_ring_prod__fill_addr(fq, idx_fq, oldval)
    /\ idx_fq' = u32(idx_fq + 1)
    /\ i' = i + 1
    /\ target' = 0
    /\ oldval' = 0

\* A faulty variant: the entry is advanced before it is written.
FillPlainTooFar(orig) ==
    /\ fq' = xsk_ring_prod__fill_addr(fq, idx_fq + 1, orig)
    /\ idx_fq' = u32(idx_fq + 1)
    /\ i' = i + 1

\* Without -W the frame is simply appended.
FillPlain(orig) ==
    /\ fq' = xsk_ring_prod__fill_addr(fq, idx_fq, orig)
    /\ idx_fq' = u32(idx_fq + 1)
    /\ i' = i + 1

\* to_add += rcvd; xsk_ring_prod__submit(&umem->fq, rcvd)
SubmitFill ==
    /\ to_add' = to_add + rcvd
    /\ fq' = xsk_ring_prod__submit(fq, rcvd)
=============================================================================
