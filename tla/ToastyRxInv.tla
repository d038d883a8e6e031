---------------------------- MODULE ToastyRxInv ----------------------------
(***************************************************************************)
(* The inductive invariant behind the safety properties of ToastyRx.       *)
(*                                                                         *)
(* PointersOK relates the pointers of the two rings, their cached copies   *)
(* and the local variables of receive; it holds in every mode.  FramesOK   *)
(* says where the frames are; it needs the driver to stay out of an        *)
(* exchange, which -B guarantees and -W without -B does not.               *)
(***************************************************************************)
EXTENDS ToastyRx

\* A batch has been peeked and not released / reserved and not submitted.
Peeked == pc \in {"reserve", "check", "fill", "exchange", "store", "submit", "release"}

ReservedPc == pc \in {"check", "fill", "exchange", "store", "submit"}

\* Frames of the batch whose entry in the fill ring is written, not submitted.
Written ==
    IF pc \in {"fill", "exchange", "submit"} THEN i
    ELSE IF pc = "store" THEN i + 1 ELSE 0

\* Frames of the batch the application is done with.
Processed == IF pc = "release" THEN i ELSE Written

\* A reservation never reaches an entry that the kernel still owns: cached_cons
\* never runs ahead of the consumer plus the size of the ring.
FillPointersOK ==
    /\ fq.cached_prod = u32(fq.producer + (IF ReservedPc THEN rcvd ELSE 0))
    /\ u32(fq.cached_cons - fq.producer) + Used(fq) <= NumFrames
    /\ ReservedPc => rcvd <= u32(fq.cached_cons - fq.producer)
    /\ FillEnd = u32(fq.producer + Written)

RxPointersOK ==
    /\ Used(rx) <= RxSize
    /\ rx.cached_cons = u32(rx.consumer + (IF Peeked THEN rcvd ELSE 0))
    /\ u32(rx.cached_prod - rx.consumer) <= Used(rx)
    /\ Peeked => rcvd <= u32(rx.cached_prod - rx.consumer)
    /\ idx_rx = u32(rx.consumer + Processed)

BatchOK ==
    /\ pc # "recvfrom_fq"
    /\ Peeked => rcvd > 0
    /\ pc \in {"reserve", "check"} => i = 0
    /\ pc \in {"fill", "exchange", "store"} => i < rcvd
    /\ pc \in {"submit", "release"} => i = rcvd
    /\ pc \in {"exchange", "store"} => opt.warm_buffers

\* to_add never exceeds the entries behind the consumer the batch has seen.
ToAddOK ==
    /\ to_add = -1 => /\ pc \notin {"fill", "exchange", "store", "submit", "release"}
                      /\ prev_consumer = 0
                      /\ fq.producer = NumFrames
    /\ to_add <= u32(fq.producer - prev_consumer)
    /\ u32(fq.producer - prev_consumer) <= NumFrames
    /\ pc \in {"fill", "exchange", "store", "submit"} =>
           u32(fq.producer - prev_consumer) + rcvd <= NumFrames

\* The pointers, the cached copies and the locals agree with one another at
\* every step of receive, and together they account for all the frames.
PointersOK ==
    /\ FillPointersOK
    /\ RxPointersOK
    /\ BatchOK
    /\ ToAddOK
    /\ InFill + InRx + Len(nic) = NumFrames

\* The driver has not moved since the consumer was looked at, and the exchange
\* is aimed at the entry it computed from that.
ExchangeOK ==
    opt.warm_buffers =>
        /\ pc \in {"fill", "exchange", "store"} => prev_consumer = fq.consumer
        /\ pc = "exchange" => target = u32(fq.consumer + u32(to_add + i))

PermutationOK ==
    /\ \A f \in Frames : \E s \in Frames : FillContents[s] = f
    /\ \A s, t \in Frames : FillContents[s] = FillContents[t] => s = t

\* The entries of the fill ring that the kernel has taken still hold the frames
\* that are now in the rx ring and, after them, in the NIC.
ShadowOK ==
    /\ \A j \in 0 .. InRx - 1 :
           FillContents[(FillEnd + j) % NumFrames] = rx.ring[(idx_rx + j) % RxSize]
    /\ \A j \in 1 .. Len(nic) :
           FillContents[(FillEnd + InRx + j - 1) % NumFrames] = nic[j]

\* -W is used only together with -B.
SafeMode == opt.warm_buffers => opt.busy_poll

\* The fill ring always holds a permutation of the frames: what the kernel has
\* taken from it is overwritten only with the same frame, or exchanged.
FramesOK == SafeMode => ExchangeOK /\ PermutationOK /\ ShadowOK
=============================================================================
