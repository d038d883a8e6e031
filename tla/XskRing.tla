------------------------------ MODULE XskRing ------------------------------
(***************************************************************************)
(* The single-producer/single-consumer rings an AF_XDP socket shares with  *)
(* the kernel (bpf/lib/xdp-tools/headers/xdp/xsk.h), as this repository    *)
(* has changed them: a reservation may be granted in part, and the fill    *)
(* ring has a second way of being written that exchanges the new address   *)
(* with one that is about to be consumed.                                  *)
(*                                                                         *)
(* A ring is a record.  producer and consumer are the two shared pointers, *)
(* cached_prod and cached_cons the private copies of the user-space side,  *)
(* ring the array of descriptors.  Pointers run freely modulo U32 and are  *)
(* masked only when the array is accessed.                                 *)
(***************************************************************************)
EXTENDS Integers

CONSTANT U32        \* 2^32 in the code: the number of values of a __u32

ASSUME U32Assumption == U32 \in Nat \ {0}

U32Values == 0 .. U32 - 1

u32(n) == n % U32

\* The descriptors of a ring of the given size: mask is size - 1.
Slots(size) == 0 .. size - 1

Slot(r, idx) == idx % r.size

\* A ring as xsk_umem__create and xsk_socket__create leave it to the user:
\* cached_cons is kept size ahead of the consumer in a producer ring only.
EmptyProdRing(size, d) ==
    [cached_prod |-> 0, cached_cons |-> size, producer |-> 0, consumer |-> 0,
     size |-> size, ring |-> [s \in Slots(size) |-> d]]

EmptyConsRing(size, d) == [EmptyProdRing(size, d) EXCEPT !.cached_cons = 0]

Rings(size, D) ==
    [cached_prod : U32Values, cached_cons : U32Values, producer : U32Values,
     consumer : U32Values, size : {size}, ring : [Slots(size) -> D]]

\* Number of entries the user has submitted and the kernel has not taken, or
\* the kernel has produced and the user has not released.
Used(r) == u32(r.producer - r.consumer)

(***************************************************************************)
(* Producer side.                                                          *)
(***************************************************************************)

\* Faulty variants: never refreshing; counting one entry too many.
ProdNeverRefreshed(r, nb) == r

ProdRefreshedTooFar(r, nb) ==
    IF u32(r.cached_cons - r.cached_prod) >= nb
    THEN r
    ELSE [r EXCEPT !.cached_cons = u32(r.consumer + r.size + 1)]

\* The refresh of cached_cons inside xsk_prod_nb_free, made only when the
\* private copies do not show enough room.
ProdRefreshed(r, nb) ==
    IF u32(r.cached_cons - r.cached_prod) >= nb
    THEN r
    ELSE [r EXCEPT !.cached_cons = u32(r.consumer + r.size)]

xsk_prod_nb_free(r, nb) ==
    LET q == ProdRefreshed(r, nb) IN u32(q.cached_cons - q.cached_prod)

\* What xsk_ring_prod__reserve returns: all of nb, or what there is.
Reserved(r, nb) ==
    LET free == xsk_prod_nb_free(r, nb) IN IF free >= nb THEN nb ELSE free

xsk_ring_prod__reserve(r, nb) ==
    [ProdRefreshed(r, nb) EXCEPT !.cached_prod = u32(@ + Reserved(r, nb))]

xsk_ring_prod__submit(r, nb) == [r EXCEPT !.producer = u32(@ + nb)]

\* *xsk_ring_prod__fill_addr(r, idx) = d, and the same for tx descriptors.
xsk_ring_prod__fill_addr(r, idx, d) == [r EXCEPT !.ring[Slot(r, idx)] = d]

(***************************************************************************)
(* Consumer side.                                                          *)
(***************************************************************************)

\* A faulty variant: never refreshing.
ConsNeverRefreshed(r) == r

\* The refresh of cached_prod inside xsk_cons_nb_avail, made only when the
\* private copies show an empty ring.
ConsRefreshed(r) ==
    IF r.cached_prod = r.cached_cons
    THEN [r EXCEPT !.cached_prod = r.producer]
    ELSE r

xsk_cons_nb_avail(r, nb) ==
    LET q       == ConsRefreshed(r)
        entries == u32(q.cached_prod - q.cached_cons)
    IN  IF entries > nb THEN nb ELSE entries

xsk_ring_cons__peek(r, nb) ==
    [ConsRefreshed(r) EXCEPT !.cached_cons = u32(@ + xsk_cons_nb_avail(r, nb))]

xsk_ring_cons__release(r, nb) == [r EXCEPT !.consumer = u32(@ + nb)]

\* xsk_ring_cons__rx_desc and xsk_ring_cons__comp_addr
xsk_ring_cons__desc(r, idx) == r.ring[Slot(r, idx)]

(***************************************************************************)
(* The kernel's side of a ring: the mirror image, one entry at a time.     *)
(***************************************************************************)

KernelCanTake(r) == r.producer # r.consumer

KernelTaken(r) == r.ring[Slot(r, r.consumer)]

KernelTake(r) == [r EXCEPT !.consumer = u32(@ + 1)]

KernelCanPut(r) == Used(r) < r.size

KernelPut(r, d) ==
    [r EXCEPT !.ring[Slot(r, r.producer)] = d, !.producer = u32(@ + 1)]
=============================================================================
