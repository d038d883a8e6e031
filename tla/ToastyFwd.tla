----------------------------- MODULE ToastyFwd -----------------------------
(***************************************************************************)
(* The l2fwd and MICA applications of toasty.c: forward completes what has *)
(* been sent, takes a batch from the rx ring, processes it and moves its   *)
(* frames to the tx ring.                                                  *)
(*                                                                         *)
(* forward does not look at how many tx entries it was granted.  TxFirst   *)
(* is the assumption on the driver under which it need not.                *)
(***************************************************************************)
EXTENDS ToastyTx

ForwardSteps == {"rx_peek", "tx_reserve", "tx_submit", "rx_release"}

\* The entries from index a on hold the batch, which is no longer than the ring.
BatchWritten(a) ==
    [s \in Slots(QueueSize) |->
        LET k == (s - a) % QueueSize IN
        IF k < batch THEN xsk_ring_cons__desc(rx, idx_rx + k) ELSE tx.ring[s]]

\* A faulty variant: all of the batch is written to the first entry.
BatchOverwritten ==
    /\ pc = "tx_reserve"
    /\ tx' = [xsk_ring_prod__reserve(tx, batch) EXCEPT
                 !.ring[Slot(tx, tx.cached_prod)] = xsk_ring_cons__desc(rx, idx_rx)]
    /\ idx_rx' = u32(idx_rx + batch)
    /\ pc' = "tx_submit"
    /\ UNCHANGED <<fillVars, rx, cq, kernelVars, outstanding_tx, back, idx_cq,
                   batch, benchmark_done>>

\* The reservation and the loop over the batch.  Entries that are not submitted
\* are private, so the loop is one step.  When nothing is granted idx_tx keeps
\* its initial value 0; in every case the whole batch is written.
ForwardBatch ==
    /\ pc = "tx_reserve"
    /\ LET idx_tx == IF Reserved(tx, batch) > 0 THEN tx.cached_prod ELSE 0 IN
          tx' = [xsk_ring_prod__reserve(tx, batch) EXCEPT !.ring = BatchWritten(idx_tx)]
    /\ idx_rx' = u32(idx_rx + batch)
    /\ pc' = "tx_submit"
    /\ UNCHANGED <<fillVars, rx, cq, kernelVars, outstanding_tx, back, idx_cq,
                   batch, benchmark_done>>

TxSubmit ==
    /\ pc = "tx_submit"
    /\ tx' = xsk_ring_prod__submit(tx, batch)
    /\ pc' = "rx_release"
    /\ UNCHANGED <<fillVars, rx, cq, kernelVars, appVars>>

\* A faulty variant: the batch is not added to what is outstanding.
RxReleaseUncounted ==
    /\ pc = "rx_release"
    /\ rx' = xsk_ring_cons__release(rx, batch)
    /\ batch' = 0
    /\ pc' = "returned"
    /\ UNCHANGED <<fillVars, tx, cq, kernelVars, outstanding_tx, back, idx_cq,
                   idx_rx, benchmark_done>>

RxRelease ==
    /\ pc = "rx_release"
    /\ rx' = xsk_ring_cons__release(rx, batch)
    /\ outstanding_tx' = outstanding_tx + batch
    /\ batch' = 0
    /\ pc' = "returned"
    /\ UNCHANGED <<fillVars, tx, cq, kernelVars, back, idx_cq, idx_rx, benchmark_done>>

App == Loop \/ CompleteTx \/ RxPeek \/ ForwardBatch \/ TxSubmit \/ RxRelease

Next == App \/ int_exit \/ Kernel \/ Terminated

Spec == TxInit /\ [][Next]_txVars

\* The application's thread keeps running.
FairSpec == Spec /\ WF_txVars(App)

\* So does the driver: whatever it can do again and again it does.
FairDriverSpec ==
    /\ FairSpec
    /\ SF_txVars(NicRefill)
    /\ SF_txVars(NicReceive)
    /\ SF_txVars(NicSend)
    /\ SF_txVars(NicSent)

-----------------------------------------------------------------------------

TypeOK ==
    /\ FillTypeOK
    /\ rx \in Rings(QueueSize, Frames)
    /\ tx \in Rings(QueueSize, Frames)
    /\ cq \in Rings(QueueSize, Frames)
    /\ nic \in Seq(Frames)
    /\ wire \in Seq(Frames)
    /\ outstanding_tx \in 0 .. NumFrames
    /\ pc \in CompleteSteps \cup LoopSteps \cup ForwardSteps
    /\ back \in {"loop", "rx_peek"}
    /\ idx_cq \in U32Values
    /\ idx_rx \in U32Values
    /\ batch \in 0 .. BatchSize
    /\ benchmark_done \in BOOLEAN

\* All the frames, in the order in which they go round: the ones that will reach
\* the fill ring first come first.
Circulating == FreeFrames \o ReceivedFrames \o SendingFrames \o CompletedFrames

\* No frame is lost or in two places on its way through the fill ring, the NIC,
\* the rx ring, the tx ring, the wire and the completion ring ("process each
\* packets and put back the addresses of buffers").
FramesConserved ==
    /\ Len(Circulating) = NumFrames
    /\ {Circulating[j] : j \in DOMAIN Circulating} = Frames

\* outstanding_tx counts exactly the frames that complete_tx_forward still has
\* to give back, except while forward is between submitting a batch and counting
\* it.  If it counted less, frames would stay in the completion ring for ever.
OutstandingExact ==
    Used(tx) + Len(wire) + Used(cq) =
        outstanding_tx + (IF pc = "rx_release" THEN batch ELSE 0)

\* Neither reservation is ever granted in part: the tx ring has room for every
\* batch that forward has in hand, and the fill ring for every batch of
\* completions.
ReservationsNeverShort ==
    /\ pc # "recvfrom_fq"
    /\ pc = "tx_reserve" => Reserved(tx, batch) = batch

\* Frames given back since the driver last took one.
Recent ==
    IF ~opt.warm_buffers \/ fq.consumer # prev_consumer \/ to_add = -1 THEN 0
    ELSE CASE pc \in {"fill", "exchange", "submit"} -> to_add + i
           [] pc = "store" -> to_add + i + 1
           [] OTHER -> to_add

Pool == INSTANCE WarmPool WITH
            warm   <- opt.warm_buffers,
            free   <- FreeFrames,
            recent <- Recent,
            filled <- CompletedFrames,
            posted <- SendingFrames \o ReceivedFrames

\* Seen from the fill ring, all that happens between the driver's taking a frame
\* and its completion is a queue: forwarding implements the same pool of free
\* frames as receiving, with the completion ring in place of the rx ring.
ImplementsWarmPool == Pool!Spec

IsCompleted(f) == \E j \in DOMAIN CompletedFrames : CompletedFrames[j] = f

IsFree(f) == \E j \in DOMAIN FreeFrames : FreeFrames[j] = f

\* A frame that has been sent is given back, unless the application stops first
\* ("re-add completed Tx buffers").
CompletionReturned ==
    \A f \in Frames : IsCompleted(f) ~> (IsFree(f) \/ pc = "exit")

\* Without -p it is: complete_tx_forward never leaves a completion behind, however
\* the completions are spread over its calls and whatever the driver does.
CompletionReturnedWithoutPoll ==
    \A f \in Frames : (IsCompleted(f) /\ ~opt.poll) ~> (IsFree(f) \/ pc = "exit")
=============================================================================
