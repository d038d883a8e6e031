------------------------------ MODULE ToastyL3 ------------------------------
(***************************************************************************)
(* The l3fwd application of toasty.c: l3forward reserves room for the      *)
(* whole batch in the tx ring and in the fill ring, sends each packet of   *)
(* the batch to one of the two, and submits what it wrote to each.         *)
(***************************************************************************)
EXTENDS ToastyTx, FiniteSets

VARIABLES
    idx_tx,         \* first tx entry of the last reservation
    idx_drop,       \* idx_fq of l3forward
    fwd             \* the packets of the batch, by position, that are forwarded

l3Vars == <<idx_tx, idx_drop, fwd>>
vars == <<txVars, l3Vars>>

Init ==
    /\ TxInit
    /\ idx_tx = 0
    /\ idx_drop = 0
    /\ fwd = {}

\* A reservation granted in part is abandoned, and tried again after completing.
ReserveTx ==
    /\ pc = "tx_reserve"
    /\ tx' = xsk_ring_prod__reserve(tx, batch)
    /\ idx_tx' = IF Reserved(tx, batch) > 0 THEN tx.cached_prod ELSE idx_tx
    /\ IF Reserved(tx, batch) = batch
       THEN pc' = "fq_reserve" /\ UNCHANGED back
       ELSE Call("tx_reserve")
    /\ UNCHANGED <<fillVars, rx, cq, kernelVars, outstanding_tx, idx_cq, idx_rx,
                   batch, benchmark_done, idx_drop, fwd>>

\* The second loop spins: it neither completes nor calls the kernel.
ReserveDrop ==
    /\ pc = "fq_reserve"
    /\ fq' = xsk_ring_prod__reserve(fq, batch)
    /\ idx_drop' = IF Reserved(fq, batch) > 0 THEN fq.cached_prod ELSE idx_drop
    /\ pc' = IF Reserved(fq, batch) = batch THEN "process" ELSE "fq_reserve"
    /\ UNCHANGED <<opt, to_add, prev_consumer, rcvd, i, idx_fq, target, oldval,
                   ringVars, kernelVars, appVars, idx_tx, fwd>>

\* The ring r with the packets at positions P written from index a on, in order.
Written(r, a, P) ==
    LET n(k) == a + Cardinality({l \in P : l < k}) IN
    [r EXCEPT !.ring = [s \in Slots(r.size) |->
        IF \E k \in P : Slot(r, n(k)) = s
        THEN xsk_ring_cons__desc(rx, idx_rx + CHOOSE k \in P : Slot(r, n(k)) = s)
        ELSE r.ring[s]]]

Positions == 0 .. batch - 1

\* process_packet_l3fwd_same_port forwards a packet or drops it.
Process ==
    /\ pc = "process"
    /\ \E P \in SUBSET Positions :
          /\ fwd' = P
          /\ tx' = Written(tx, idx_tx, P)
          /\ fq' = Written(fq, idx_drop, Positions \ P)
    /\ idx_rx' = u32(idx_rx + batch)
    /\ pc' = "tx_submit"
    /\ UNCHANGED <<opt, to_add, prev_consumer, rcvd, i, idx_fq, target, oldval, rx,
                   cq, kernelVars, outstanding_tx, back, idx_cq, batch,
                   benchmark_done, idx_tx, idx_drop>>

SubmitTx ==
    /\ pc = "tx_submit"
    /\ tx' = xsk_ring_prod__submit(tx, Cardinality(fwd))
    /\ pc' = "drop_submit"
    /\ UNCHANGED <<fillVars, rx, cq, kernelVars, appVars, l3Vars>>

SubmitDrop ==
    /\ pc = "drop_submit"
    /\ fq' = xsk_ring_prod__submit(fq, batch - Cardinality(fwd))
    /\ pc' = "rx_release"
    /\ UNCHANGED <<opt, to_add, prev_consumer, rcvd, i, idx_fq, target, oldval,
                   ringVars, kernelVars, appVars, l3Vars>>

RxRelease ==
    /\ pc = "rx_release"
    /\ rx' = xsk_ring_cons__release(rx, batch)
    /\ outstanding_tx' = outstanding_tx + Cardinality(fwd)
    /\ batch' = 0
    /\ fwd' = {}
    /\ idx_tx' = 0
    /\ idx_drop' = 0
    /\ pc' = "returned"
    /\ UNCHANGED <<fillVars, tx, cq, kernelVars, back, idx_cq, idx_rx, benchmark_done>>

L3 == ReserveTx \/ ReserveDrop \/ Process \/ SubmitTx \/ SubmitDrop \/ RxRelease

Shared == Loop \/ CompleteTx \/ RxPeek

App == L3 \/ (Shared /\ UNCHANGED l3Vars)

Next == App \/ ((int_exit \/ Kernel \/ Terminated) /\ UNCHANGED l3Vars)

Spec == Init /\ [][Next]_vars

-----------------------------------------------------------------------------

\* Between two rounds of the loop, all the frames that have been published: the
\* fill ring, the NIC, the rx, tx and completion rings and the wire hold each of
\* them once ("MOVE DIRECTLY TO FILL RING", "Submit what we produced").
FramesConserved ==
    pc = "loop" =>
        LET all == Entries(fq, fq.consumer, fq.producer) \o ReceivedFrames
                       \o SendingFrames \o CompletedFrames
        IN  /\ Len(all) = NumFrames
            /\ {all[j] : j \in DOMAIN all} = Frames
=============================================================================
