------------------------------ MODULE ToastyTx ------------------------------
(***************************************************************************)
(* What the forwarding applications of toasty.c share.  A frame goes round *)
(* the fill ring, the NIC, the rx ring, the tx ring, the wire and the      *)
(* completion ring; complete_tx_forward takes it out of the completion     *)
(* ring and puts it into the fill ring with the code of FillRing.          *)
(*                                                                         *)
(* forward and l3forward themselves are in ToastyFwd and ToastyL3.         *)
(***************************************************************************)
EXTENDS FillRing, Sequences

CONSTANTS
    QueueSize,      \* rx_queue_size = tx_queue_size = cq_size = umem_size / 2
    BatchSize,      \* opt_batch_size
    NicSize,        \* descriptors of the NIC's own receive ring
    TxFirst,        \* the driver empties the tx ring before it delivers packets
    Signals         \* the command lines under which a signal may arrive

ASSUME TxAssumption ==
    /\ QueueSize \in Nat \ {0}
    /\ QueueSize < U32
    /\ \E m \in 1 .. U32 : U32 = m * QueueSize
    /\ BatchSize \in Nat \ {0}
    /\ NicSize \in Nat \ {0}
    /\ TxFirst \in BOOLEAN
    /\ Signals \subseteq Options

VARIABLES
    rx, tx, cq,         \* xsk->rx, xsk->tx, umem->cq
    nic,                \* frames posted to the NIC, in the order it fills them
    wire,               \* frames the driver has taken from the tx ring
    outstanding_tx,     \* xsk->outstanding_tx
    pc,                 \* where the application is
    back,               \* where complete_tx_forward returns to
    idx_cq,             \* next completion to give back
    idx_rx,             \* next rx descriptor to process
    batch,              \* rcvd of forward and l3forward
    benchmark_done      \* set by the signal handler

kernelVars == <<nic, wire>>
ringVars == <<rx, tx, cq>>
appVars == <<outstanding_tx, back, idx_cq, idx_rx, batch, benchmark_done>>
txVars == <<fillVars, ringVars, kernelVars, appVars, pc>>

CompleteSteps == {"complete", "kick", "cq_peek", "reserve", "recvfrom_fq", "check",
                  "fill", "exchange", "store", "submit", "cq_release"}

LoopSteps == {"loop", "poll", "recvfrom", "returned", "exit"}

TxInit ==
    /\ FillInit
    /\ rx = EmptyConsRing(QueueSize, 0)
    /\ tx = EmptyProdRing(QueueSize, 0)
    /\ cq = EmptyConsRing(QueueSize, 0)
    /\ nic = <<>>
    /\ wire = <<>>
    /\ outstanding_tx = 0
    /\ pc = "loop"
    /\ back = "loop"
    /\ idx_cq = 0
    /\ idx_rx = 0
    /\ batch = 0
    /\ benchmark_done = FALSE

-----------------------------------------------------------------------------
(* receive_all; forward and l3forward begin with complete_tx_forward *)

\* complete_tx_forward(xsk), to continue at step s.
Call(s) ==
    /\ pc' = "complete"
    /\ back' = s

LoopTop ==
    /\ pc = "loop"
    /\ IF opt.poll THEN pc' = "poll" /\ UNCHANGED back ELSE Call("rx_peek")
    /\ UNCHANGED <<fillVars, ringVars, kernelVars, outstanding_tx, idx_cq,
                   idx_rx, batch, benchmark_done>>

\* POLLIN | POLLOUT: the socket is ready when packets wait or when at most half
\* of the tx ring is in use.
PollReturns ==
    /\ pc = "poll"
    /\ IF Used(rx) > 0 \/ 2 * Used(tx) <= QueueSize
       THEN Call("rx_peek")
       ELSE pc' = "loop" /\ UNCHANGED back
    /\ UNCHANGED <<fillVars, ringVars, kernelVars, outstanding_tx, idx_cq,
                   idx_rx, batch, benchmark_done>>

Returned ==
    /\ pc = "returned"
    /\ pc' = IF benchmark_done THEN "exit" ELSE "loop"
    /\ UNCHANGED <<fillVars, ringVars, kernelVars, appVars>>

\* recvfrom, because no packet waits or the fill ring has no room; and sendto, after
\* which kick_tx goes on or, for an error it does not expect, ends the program.
SyscallReturns ==
    /\ \/ pc = "recvfrom" /\ pc' = "returned"
       \/ pc = "recvfrom_fq" /\ pc' = "reserve"
       \/ pc = "kick" /\ pc' \in {"cq_peek", "exit"}
    /\ UNCHANGED <<fillVars, ringVars, kernelVars, appVars>>

int_exit ==
    /\ opt \in Signals
    /\ ~benchmark_done
    /\ benchmark_done' = TRUE
    /\ UNCHANGED <<fillVars, ringVars, kernelVars, outstanding_tx, pc, back,
                   idx_cq, idx_rx, batch>>

-----------------------------------------------------------------------------
(* complete_tx_forward *)

\* Nothing to complete, or kick_tx for a socket bound with XDP_COPY.
Complete ==
    /\ pc = "complete"
    /\ pc' = IF outstanding_tx = 0 THEN back
             ELSE IF opt.copy THEN "kick" ELSE "cq_peek"
    /\ UNCHANGED <<fillVars, ringVars, kernelVars, appVars>>

\* A faulty variant: the last outstanding frame is not asked for.
CompletableLess == IF outstanding_tx > BatchSize THEN BatchSize ELSE outstanding_tx - 1

\* ndescs
Completable == IF outstanding_tx > BatchSize THEN BatchSize ELSE outstanding_tx

CqPeek ==
    /\ pc = "cq_peek"
    /\ cq' = xsk_ring_cons__peek(cq, Completable)
    /\ LET n == xsk_cons_nb_avail(cq, Completable) IN
          IF n = 0
          THEN /\ pc' = back
               /\ UNCHANGED <<rcvd, i, idx_cq>>
          ELSE /\ pc' = "reserve"
               /\ rcvd' = n
               /\ i' = 0
               /\ idx_cq' = cq.cached_cons
    /\ UNCHANGED <<opt, fq, to_add, prev_consumer, idx_fq, target, oldval, rx, tx,
                   kernelVars, outstanding_tx, back, idx_rx, batch, benchmark_done>>

Reserve ==
    /\ pc = "reserve"
    /\ ReserveFill
    /\ IF Reserved(fq, rcvd) = rcvd
       THEN pc' = "check"
       ELSE pc' \in {"recvfrom_fq"} \cup (IF opt.busy_poll THEN {} ELSE {"reserve"})
    /\ UNCHANGED <<opt, to_add, prev_consumer, rcvd, i, target, oldval,
                   ringVars, kernelVars, appVars>>

Check ==
    /\ pc = "check"
    /\ CheckConsumer
    /\ pc' = "fill"
    /\ UNCHANGED <<opt, fq, rcvd, i, idx_fq, target, oldval,
                   ringVars, kernelVars, appVars>>

NextFill == IF i' < rcvd THEN "fill" ELSE "submit"

\* orig = *xsk_ring_cons__comp_addr(&umem->cq, idx_cq++)
NextCompletion ==
    /\ idx_cq' = u32(idx_cq + 1)
    /\ UNCHANGED <<outstanding_tx, back, idx_rx, batch, benchmark_done>>

FillFifo ==
    /\ pc = "fill"
    /\ ~opt.warm_buffers
    /\ FillPlain(xsk_ring_cons__desc(cq, idx_cq))
    /\ NextCompletion
    /\ pc' = NextFill
    /\ UNCHANGED <<opt, to_add, prev_consumer, rcvd, target, oldval,
                   ringVars, kernelVars>>

FillWarmLoad ==
    /\ pc = "fill"
    /\ opt.warm_buffers
    /\ LoadConsumer
    /\ pc' = "exchange"
    /\ UNCHANGED <<opt, fq, to_add, prev_consumer, rcvd, i, idx_fq, oldval,
                   ringVars, kernelVars, appVars>>

FillWarmExchange ==
    /\ pc = "exchange"
    /\ Exchange(xsk_ring_cons__desc(cq, idx_cq))
    /\ NextCompletion
    /\ pc' = "store"
    /\ UNCHANGED <<opt, to_add, prev_consumer, rcvd, i, idx_fq, target,
                   ringVars, kernelVars>>

FillWarmStore ==
    /\ pc = "store"
    /\ StoreOld
    /\ pc' = NextFill
    /\ UNCHANGED <<opt, to_add, prev_consumer, rcvd, ringVars, kernelVars, appVars>>

Submit ==
    /\ pc = "submit"
    /\ SubmitFill
    /\ pc' = "cq_release"
    /\ UNCHANGED <<opt, prev_consumer, rcvd, i, idx_fq, target, oldval,
                   ringVars, kernelVars, appVars>>

\* A faulty variant: the whole batch is subtracted even if less was completed.
CqReleaseBatch ==
    /\ pc = "cq_release"
    /\ cq' = xsk_ring_cons__release(cq, rcvd)
    /\ outstanding_tx' = outstanding_tx - BatchSize
    /\ rcvd' = 0
    /\ i' = 0
    /\ pc' = back
    /\ UNCHANGED <<opt, fq, to_add, prev_consumer, idx_fq, target, oldval, rx, tx,
                   kernelVars, back, idx_cq, idx_rx, batch, benchmark_done>>

\* The locals of complete_tx_forward are gone when it returns.
CqRelease ==
    /\ pc = "cq_release"
    /\ cq' = xsk_ring_cons__release(cq, rcvd)
    /\ outstanding_tx' = outstanding_tx - rcvd
    /\ rcvd' = 0
    /\ i' = 0
    /\ pc' = back
    /\ UNCHANGED <<opt, fq, to_add, prev_consumer, idx_fq, target, oldval, rx, tx,
                   kernelVars, back, idx_cq, idx_rx, batch, benchmark_done>>

CompleteTx ==
    \/ Complete \/ CqPeek \/ Reserve \/ Check
    \/ FillFifo \/ FillWarmLoad \/ FillWarmExchange \/ FillWarmStore
    \/ Submit \/ CqRelease

-----------------------------------------------------------------------------
(* The beginning of forward and of l3forward, after complete_tx_forward *)

RxPeek ==
    /\ pc = "rx_peek"
    /\ rx' = xsk_ring_cons__peek(rx, BatchSize)
    /\ LET n == xsk_cons_nb_avail(rx, BatchSize) IN
          IF n = 0
          THEN /\ pc' \in {"recvfrom"} \cup (IF opt.busy_poll THEN {} ELSE {"returned"})
               /\ UNCHANGED <<batch, idx_rx>>
          ELSE /\ pc' = "tx_reserve"
               /\ batch' = n
               /\ idx_rx' = rx.cached_cons
    /\ UNCHANGED <<fillVars, tx, cq, kernelVars, outstanding_tx, back, idx_cq,
                   benchmark_done>>

-----------------------------------------------------------------------------
(* The driver and the NIC (external).  An entry of the completion ring is   *)
(* set aside before a frame is sent.                                        *)

InSyscall == pc \in {"poll", "recvfrom", "recvfrom_fq", "kick"}

KernelRuns == pc # "exit" /\ (opt.busy_poll => InSyscall)

NicRefill ==
    /\ KernelRuns
    /\ KernelCanTake(fq)
    /\ Len(nic) < NicSize
    /\ nic' = Append(nic, KernelTaken(fq))
    /\ fq' = KernelTake(fq)
    /\ UNCHANGED <<opt, to_add, prev_consumer, rcvd, i, idx_fq, target, oldval,
                   ringVars, wire, appVars, pc>>

NicReceive ==
    /\ KernelRuns
    /\ nic # <<>>
    /\ KernelCanPut(rx)
    /\ TxFirst => ~KernelCanTake(tx)
    /\ rx' = KernelPut(rx, Head(nic))
    /\ nic' = Tail(nic)
    /\ UNCHANGED <<fillVars, tx, cq, wire, appVars, pc>>

NicSend ==
    /\ KernelRuns
    /\ KernelCanTake(tx)
    /\ Len(wire) + Used(cq) < QueueSize
    /\ wire' = Append(wire, KernelTaken(tx))
    /\ tx' = KernelTake(tx)
    /\ UNCHANGED <<fillVars, rx, cq, nic, appVars, pc>>

NicSent ==
    /\ KernelRuns
    /\ wire # <<>>
    /\ cq' = KernelPut(cq, Head(wire))
    /\ wire' = Tail(wire)
    /\ UNCHANGED <<fillVars, rx, tx, nic, appVars, pc>>

Kernel == NicRefill \/ NicReceive \/ NicSend \/ NicSent

Loop == LoopTop \/ PollReturns \/ Returned \/ SyscallReturns

Terminated == pc = "exit" /\ UNCHANGED txVars

-----------------------------------------------------------------------------
(* Where the frames are: the entries of ring r from index a up to index b. *)

Entries(r, a, b) == [j \in 1 .. u32(b - a) |-> r.ring[Slot(r, a + j - 1)]]

FillEnd == IF pc = "store" THEN u32(idx_fq + 1) ELSE idx_fq

\* Between the exchange and the store the address in oldval counts as written.
FreeFrames ==
    LET r == IF pc = "store" THEN xsk_ring_prod__fill_addr(fq, idx_fq, oldval) ELSE fq
    IN  Entries(r, fq.consumer, FillEnd)

CompletedFrames == Entries(cq, idx_cq, cq.producer)

\* Frames of a batch that is written to the tx ring but not submitted.
Unsubmitted == IF pc = "tx_submit" THEN batch ELSE 0

SendingFrames == wire \o Entries(tx, tx.consumer, tx.producer + Unsubmitted)

ReceivedFrames == Entries(rx, idx_rx, rx.producer) \o nic
=============================================================================
