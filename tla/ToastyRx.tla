------------------------------ MODULE ToastyRx ------------------------------
(***************************************************************************)
(* The receiving applications of toasty.c (NAT, IDS, decryption, Maglev):  *)
(* receive_all calls receive, which peeks at the rx ring, processes the    *)
(* packets and gives their frames back through the fill ring; the driver   *)
(* moves frames from the fill ring to the NIC and from the NIC, filled,    *)
(* to the rx ring.                                                         *)
(*                                                                         *)
(* With option -B the driver runs only while the application is inside a   *)
(* system call ("the kernel driver is explicitly invoked by the            *)
(* application", README.org).  Without it the driver's steps interleave    *)
(* with every access the application makes.                                *)
(***************************************************************************)
EXTENDS FillRing, Sequences

CONSTANTS
    RxSize,         \* rx_queue_size: umem_size / 2 in the code
    BatchSize,      \* opt_batch_size
    NicSize         \* descriptors of the NIC's own receive ring

ASSUME RxAssumption ==
    /\ RxSize \in Nat \ {0}
    /\ RxSize < U32
    /\ \E m \in 1 .. U32 : U32 = m * RxSize
    /\ BatchSize \in Nat \ {0}
    /\ NicSize \in Nat \ {0}

VARIABLES
    rx,                 \* xsk->rx
    nic,                \* frames posted to the NIC, in the order it fills them
    pc,                 \* where the application is
    idx_rx,             \* next rx descriptor to process
    benchmark_done      \* set by the signal handler

vars == <<fillVars, rx, nic, pc, idx_rx, benchmark_done>>

AppSteps == {"loop", "poll", "peek", "recvfrom", "reserve", "recvfrom_fq",
             "check", "fill", "exchange", "store", "submit", "release",
             "returned", "exit"}

Init ==
    /\ FillInit
    /\ rx = EmptyConsRing(RxSize, 0)
    /\ nic = <<>>
    /\ pc = "loop"
    /\ idx_rx = 0
    /\ benchmark_done = FALSE

-----------------------------------------------------------------------------
(* receive_all *)

LoopTop ==
    /\ pc = "loop"
    /\ pc' = IF opt.poll THEN "poll" ELSE "peek"
    /\ UNCHANGED <<fillVars, rx, nic, idx_rx, benchmark_done>>

\* A socket without a tx ring is ready when its rx ring holds something;
\* otherwise poll ends by a timeout or a signal, and "continue" skips the rest.
PollReturns ==
    /\ pc = "poll"
    /\ pc' = IF Used(rx) > 0 THEN "peek" ELSE "loop"
    /\ UNCHANGED <<fillVars, rx, nic, idx_rx, benchmark_done>>

\* A faulty variant: the flag is looked at only when packets are waiting.
ReturnedIfBusy ==
    /\ pc = "returned"
    /\ pc' = IF benchmark_done /\ Used(rx) > 0 THEN "exit" ELSE "loop"
    /\ UNCHANGED <<fillVars, rx, nic, idx_rx, benchmark_done>>

\* receive has returned; the flag is looked at once per round.
Returned ==
    /\ pc = "returned"
    /\ pc' = IF benchmark_done THEN "exit" ELSE "loop"
    /\ UNCHANGED <<fillVars, rx, nic, idx_rx, benchmark_done>>

(* receive *)

\* Without -B the need-wakeup flag of the fill ring decides whether recvfrom is
\* called; it is the driver's, and may have either value.
Peek ==
    /\ pc = "peek"
    /\ rx' = xsk_ring_cons__peek(rx, BatchSize)
    /\ LET n == xsk_cons_nb_avail(rx, BatchSize) IN
          IF n = 0
          THEN /\ pc' \in {"recvfrom"} \cup (IF opt.busy_poll THEN {} ELSE {"returned"})
               /\ UNCHANGED <<rcvd, i, idx_rx>>
          ELSE /\ pc' = "reserve"
               /\ rcvd' = n
               /\ i' = 0
               /\ idx_rx' = rx.cached_cons
    /\ UNCHANGED <<opt, fq, to_add, prev_consumer, idx_fq, target,
                   oldval, nic, benchmark_done>>

\* recvfrom on an empty rx ring ends the call of receive; in the retry loop of
\* the reservation it leads back to the reservation.
RecvfromReturns ==
    /\ pc \in {"recvfrom", "recvfrom_fq"}
    /\ pc' = IF pc = "recvfrom" THEN "returned" ELSE "reserve"
    /\ UNCHANGED <<fillVars, rx, nic, idx_rx, benchmark_done>>

Reserve ==
    /\ pc = "reserve"
    /\ ReserveFill
    /\ IF Reserved(fq, rcvd) = rcvd
       THEN pc' = "check"
       ELSE pc' \in {"recvfrom_fq"} \cup (IF opt.busy_poll THEN {} ELSE {"reserve"})
    /\ UNCHANGED <<opt, to_add, prev_consumer, rcvd, i, target,
                   oldval, rx, nic, idx_rx, benchmark_done>>

Check ==
    /\ pc = "check"
    /\ CheckConsumer
    /\ pc' = "fill"
    /\ UNCHANGED <<opt, fq, rcvd, i, idx_fq, target, oldval, rx,
                   nic, idx_rx, benchmark_done>>

\* The loop over the batch: where it goes after the i-th frame.
NextFill == IF i' < rcvd THEN "fill" ELSE "submit"

FillFifo ==
    /\ pc = "fill"
    /\ ~opt.warm_buffers
    /\ FillPlain(xsk_ring_cons__desc(rx, idx_rx))
    /\ idx_rx' = u32(idx_rx + 1)
    /\ pc' = NextFill
    /\ UNCHANGED <<opt, to_add, prev_consumer, rcvd, target,
                   oldval, rx, nic, benchmark_done>>

FillWarmLoad ==
    /\ pc = "fill"
    /\ opt.warm_buffers
    /\ LoadConsumer
    /\ pc' = "exchange"
    /\ UNCHANGED <<opt, fq, to_add, prev_consumer, rcvd, i, idx_fq,
                   oldval, rx, nic, idx_rx, benchmark_done>>

FillWarmExchange ==
    /\ pc = "exchange"
    /\ Exchange(xsk_ring_cons__desc(rx, idx_rx))
    /\ idx_rx' = u32(idx_rx + 1)
    /\ pc' = "store"
    /\ UNCHANGED <<opt, to_add, prev_consumer, rcvd, i, idx_fq,
                   target, rx, nic, benchmark_done>>

FillWarmStore ==
    /\ pc = "store"
    /\ StoreOld
    /\ pc' = NextFill
    /\ UNCHANGED <<opt, to_add, prev_consumer, rcvd, rx, nic,
                   idx_rx, benchmark_done>>

Submit ==
    /\ pc = "submit"
    /\ SubmitFill
    /\ pc' = "release"
    /\ UNCHANGED <<opt, prev_consumer, rcvd, i, idx_fq, target,
                   oldval, rx, nic, idx_rx, benchmark_done>>

\* Every packet is a single frame, so frags_done = rcvd.
Release ==
    /\ pc = "release"
    /\ rx' = xsk_ring_cons__release(rx, rcvd)
    /\ pc' = "returned"
    /\ UNCHANGED <<fillVars, nic, idx_rx, benchmark_done>>

\* SIGINT, SIGTERM or SIGABRT at any moment.
int_exit ==
    /\ ~benchmark_done
    /\ benchmark_done' = TRUE
    /\ UNCHANGED <<fillVars, rx, nic, pc, idx_rx>>

-----------------------------------------------------------------------------
(* The driver and the NIC (external): frames leave the fill ring, and come  *)
(* back through the rx ring, in order.                                      *)

InSyscall == pc \in {"poll", "recvfrom", "recvfrom_fq"}

KernelRuns == pc # "exit" /\ (opt.busy_poll => InSyscall)

NicRefill ==
    /\ KernelRuns
    /\ KernelCanTake(fq)
    /\ Len(nic) < NicSize
    /\ nic' = Append(nic, KernelTaken(fq))
    /\ fq' = KernelTake(fq)
    /\ UNCHANGED <<opt, to_add, prev_consumer, rcvd, i, idx_fq,
                   target, oldval, rx, pc, idx_rx, benchmark_done>>

NicReceive ==
    /\ KernelRuns
    /\ nic # <<>>
    /\ KernelCanPut(rx)
    /\ rx' = KernelPut(rx, Head(nic))
    /\ nic' = Tail(nic)
    /\ UNCHANGED <<fillVars, pc, idx_rx, benchmark_done>>

-----------------------------------------------------------------------------

App ==
    \/ LoopTop \/ PollReturns \/ Returned
    \/ Peek \/ RecvfromReturns \/ Reserve \/ Check
    \/ FillFifo \/ FillWarmLoad \/ FillWarmExchange \/ FillWarmStore
    \/ Submit \/ Release

Kernel == NicRefill \/ NicReceive

\* After the loop: post_exp_process and the clean-up, then nothing.
Terminated == pc = "exit" /\ UNCHANGED vars

Next == App \/ int_exit \/ Kernel \/ Terminated

Spec == Init /\ [][Next]_vars

\* The application's thread keeps running.
FairSpec == Spec /\ WF_vars(App)

-----------------------------------------------------------------------------

TypeOK ==
    /\ FillTypeOK
    /\ rx \in Rings(RxSize, Frames)
    /\ nic \in Seq(Frames)
    /\ pc \in AppSteps
    /\ idx_rx \in U32Values
    /\ benchmark_done \in BOOLEAN

(***************************************************************************)
(* Where the frames are.  FillEnd is one past the last entry written to    *)
(* the fill ring, submitted or not; between the exchange and the store the *)
(* address in oldval counts as written.                                    *)
(***************************************************************************)

FillEnd == IF pc = "store" THEN u32(idx_fq + 1) ELSE idx_fq

FillContents ==
    IF pc = "store" THEN xsk_ring_prod__fill_addr(fq, idx_fq, oldval).ring
                    ELSE fq.ring

InFill == u32(FillEnd - fq.consumer)

InRx == u32(rx.producer - idx_rx)

\* The j-th frame in circulation: first those in the fill ring, then those in
\* the rx ring that have not been given back, then those in the NIC.
Circulating(j) ==
    IF j < InFill
    THEN FillContents[Slot(fq, fq.consumer + j)]
    ELSE IF j < InFill + InRx
         THEN xsk_ring_cons__desc(rx, idx_rx + j - InFill)
         ELSE nic[j - InFill - InRx + 1]

\* No frame is ever lost and none is ever in two places: whatever the
\* interleaving of receive's steps with the driver's, the fill ring, the rx
\* ring and the NIC together hold each of the NumFrames frames exactly once
\* ("put back the addresses of buffers").
FramesConserved ==
    /\ InFill + InRx + Len(nic) = NumFrames
    /\ \A f \in Frames : \E j \in Frames : Circulating(j) = f
    /\ \A j, l \in Frames : Circulating(j) = Circulating(l) => j = l

\* The retry loop around the reservation in the fill ring is never entered: a
\* batch in hand always finds room for all of its frames at the first attempt,
\* however old the cached consumer is.  So a reservation granted in part, whose
\* entries the retry would abandon, never happens here.
ReservationNeverShort == pc # "recvfrom_fq"

\* With -W, when a batch has been submitted its frames are the next ones the
\* driver will take, in the order of the batch, behind only those that were
\* given back since the consumer last moved ("Use recently read buffers first").
WarmBatchNext ==
    pc = "release" /\ opt.warm_buffers =>
        \A j \in 0 .. rcvd - 1 :
            Circulating(to_add - rcvd + j) = xsk_ring_cons__desc(rx, rx.consumer + j)

-----------------------------------------------------------------------------
(* What the ring implements, without pointers: see WarmPool. *)

\* Frames given back since the driver last took one.
Recent ==
    IF ~opt.warm_buffers \/ fq.consumer # prev_consumer \/ to_add = -1 THEN 0
    ELSE CASE pc \in {"fill", "exchange", "submit"} -> to_add + i
           [] pc = "store" -> to_add + i + 1
           [] OTHER -> to_add

Pool == INSTANCE WarmPool WITH
            warm   <- opt.warm_buffers,
            free   <- [j \in 1 .. InFill |-> Circulating(j - 1)],
            recent <- Recent,
            filled <- [j \in 1 .. InRx |-> Circulating(InFill + j - 1)],
            posted <- nic

\* Every step of the application and of the driver, on memory with wrapping
\* pointers, masks and cached copies, is a step of the plain pool of WarmPool or
\* leaves it alone: the order in which the driver will take the frames is the
\* pool's.
ImplementsWarmPool == Pool!Spec

-----------------------------------------------------------------------------
(* Liveness. *)

InFillRing(f) == \E j \in 0 .. InFill - 1 : Circulating(j) = f

InRxRing(f) == \E j \in InFill .. InFill + InRx - 1 : Circulating(j) = f

\* A frame delivered to the application is given back, unless the application
\* stops first.
FrameReturned ==
    \A f \in Frames : InRxRing(f) ~> (InFillRing(f) \/ pc = "exit")

\* After a signal the application leaves its loop: every call of receive ends,
\* whatever the driver does, and the flag is looked at after each.  With -p a poll
\* that finds nothing goes round by "continue", past the look at the flag, so then
\* it takes a driver that delivers again and again.
SignalStops ==
    []<>(opt.poll => Used(rx) > 0) => (benchmark_done ~> pc = "exit")
=============================================================================
