# Toasty in TLA+

A verification project for Toasty (`src/bpf/AF_XDP`), an AF_XDP packet-processing
program whose free packet buffers are reused while they are still warm in the
cache, and for the two stateful services it carries: the MICA key-value store and
the Maglev load balancer. TLC checks the models on small instances; TLAPS proves
the central ones for every size.

## 1. The system

Toasty owns a UMEM of equally large frames. A frame is always in one of these
places, and moves along the arrows:

    fill ring -> NIC -> rx ring -> application -> fill ring                (receiving)
    fill ring -> NIC -> rx ring -> application -> tx ring -> wire
              -> completion ring -> application -> fill ring              (forwarding)

| Part | State | Operations | What is hard about it | Module |
|---|---|---|---|---|
| AF_XDP rings (`xsk.h`) | producer, consumer, a cached copy of each, 32 bits wide; descriptors | reserve, submit, peek, release | cached copies are stale by design; counters wrap; this repository made reserve grant a part | `XskRing` |
| Warm buffers (`-W`) | the fill ring, `to_add`, `prev_consumer` | the test of the consumer, `custom_xsk_ring_prod__fill_addr` | writes entries that are already published, while the driver may take them | `FillRing`, `WarmPool` |
| Receiving | the rings, `benchmark_done`, locals | `receive`, `receive_all`, signals | every step interleaves with the driver; busy polling; waiting for room | `ToastyRx` |
| Forwarding | also tx and completion ring, `outstanding_tx` | `forward`, `complete_tx_forward`, `kick_tx` | five queues in a circle, several of half the size | `ToastyTx`, `ToastyFwd` |
| L3 forwarding | the same | `l3forward` | reserves in two rings, submits a part of each | `ToastyTx`, `ToastyL3` |
| MICA circular log | head, tail, bytes | init, reset, push, pop, is_valid | 40-bit offsets wrap; old items vanish silently | `MicaPool` |
| MICA table | buckets of (tag, offset) words, the log | set, get, delete, increment, reset | words outlive their items; offsets become valid again after a round unless swept | `MicaTable` |
| Maglev | lookup table, sessions | `configure`, `process_packet_maglev` | `int` overflow in the permutation; two map entries per session | `Maglev` |
| Chained hash map | buckets of chains | init, lookup, insert | | `HashMap` |
| Driver and NIC | frames posted, frames being sent | refill, receive, send, complete | external | in `ToastyRx`, `ToastyTx` |
| dynamic allocator, shared memory, linear-probing map, XDP program, stateless workloads | | | | not modelled, section 7 |

`PROJECT.json` lists all parts with their files, the line every definition
models, and the hazards of the code with the properties that cover them.

## 2. How the models correspond to the code

**Atomicity.** The application and the driver share only the rings, so an action
of the application contains at most one access to a word that the driver writes
or reads, or several with no driver access that could tell them apart. `receive`
is the `pc` steps peek, recvfrom, reserve, recvfrom_fq, check, fill, exchange,
store, submit, release, and its loop adds loop, poll and returned. An exchange is
three steps, as in the code: load the consumer (`fill`), swap the entry
(`exchange`), store the old address at the tail (`store`). With `-B` the driver's
actions are enabled only while the application is inside a system call; without it
they are enabled at every step.

**Pointers** are taken modulo `U32`, which stands for 2^32, and rings have
`size` entries with `size` dividing `U32`; the code uses powers of two. A frame is
named by its chunk number. `FillRing` is shared by receiving and forwarding
because the code repeats the same lines in both.

**Driver and NIC** are external and are modelled from what the code relies on:

- the driver takes one fill entry, posts the frame and publishes the consumer in
  one step; a batched driver is several such steps;
- the NIC fills frames in the order they were posted, and frames are sent and
  completed in the order of the tx ring;
- a completion entry is set aside before a frame is sent;
- there is one socket per UMEM;
- `TxFirst`: the driver empties the tx ring before it delivers packets. This is
  a CONSTANT; the passing runs of forwarding need it, and `fwd_tx_full` shows what
  happens without it.

Toasty's changes to the driver itself (adaptive refill) are in another repository.

**MICA** is modelled as Toasty opens it: one thread, one pool per table and
eviction on. `set`, `get`, `delete`, `increment` and `reset` are one action each and
contain all that the call does, including the sweep of stale words after an
allocation. Offsets are taken modulo `OffsetSpace` (2^40 in the code), an item
takes a unit for its header and key plus its value's length, and the bytes of an
item that later items overwrite are read as garbage that may match any key. Hashes
are free: every bucket and tag is chosen per key by the configuration. There
are at least two buckets, without which the sweep's arithmetic is different. An
assertion of the pool that fails stops the program, so the model takes no step.

**Maglev** computes the table from a hash per backend, where the hashes range over
all values of an `int` of width `IntRange`. Overflow of `j * skip` is undefined, so
`overflow_wraps` chooses between the two results a compiler produces: wrapping, and
arithmetic in wider registers. A turn of a backend, the end of a round, the final
loop over the unfilled slots and a packet are one action each. Packets come from any
address. `process_packet_maglev` puts the service's address in place of the packet's
destination, so a backend that answers a client is looked up as (backend, service):
it does not find the session (backend, client) stored for it and opens one of its own.
No comment or document says otherwise, so no run is about it; what the runs show is
that such packets do not disturb the sessions that are there.

The committed `toasty.c` does not compile (`opt_burst_tp` is not declared,
`l3fwd_same_port` is called with two of its three arguments, `xdpsock.h` is missing);
the models follow the evident control flow, and `l3fwd_same_port`'s verdict is a
free choice.

## 3. Runs

`tlc -config X.cfg M`, with M the module and X the configuration of `PROJECT.json`.

| Run | Question | Result |
|---|---|---|
| `rx_safe` | `-W -B`, `-B -p` or no option: are frames conserved, is there always room, are warm frames next, do the rings implement the pool, does every frame come back, does a signal end the program? | yes |
| `rx_warm_irq` | `-W` without `-B`: are frames conserved? | no |
| `rx_lifo` | Is the fill ring a LIFO stack, as the repository's README says? | no |
| `fwd_fifo` | forwarding without `-W`: conservation, exact `outstanding_tx`, full reservations, refinement of the pool, completions come back | yes |
| `fwd_warm` | forwarding with `-W -B`: conservation and refinement of the pool | yes |
| `fwd_tx_full` | forwarding, the driver delivering while the tx ring is in use: conservation | no |
| `fwd_poll_stall` | forwarding with `-p` and a fair driver: do completions come back? | no |
| `l3_frames` | L3 forwarding: conservation | no |
| `mica_table` | the table over several rounds of offsets: the log is a row of whole items, a valid word never points into garbage, tags are unique in a bucket, what was stored is found, what is lost has a cause | yes |
| `mica_evict` | Does a new item take the word of the oldest one when its bucket is full? | no |
| `maglev` | all hashes of three backends, then packets of a client, a backend and the service's own address: the table is even, `configure` ends, sessions are paired and stick | yes |
| `maglev_slots` | Does every slot name a backend after `configure`? | no |

### What the negative results show

- `rx_warm_irq`: the exchange reads the consumer and swaps the entry later. If the
  driver takes the entry in between, the frame given back is not among the free
  ones and the frame the driver holds is. Nothing makes `-W` require `-B`.
- `rx_lifo`: `to_add` restarts at 0 whenever the consumer has moved, so a warm frame
  that still waits at the head is sent to the tail, behind frames never used. What
  the ring does implement is `WarmPool`.
- `fwd_tx_full`: `forward` goes on with the whole batch when the reservation in the
  tx ring was granted in part.
- `fwd_poll_stall`: with all frames in a full tx and a full completion ring the
  socket is neither readable nor writable, and completions are taken only after
  `poll` has said otherwise.
- `l3_frames`: entries reserved in both rings, and submitted in only one of them,
  stay counted; the next batch is written beyond what it publishes.
- `mica_evict`: `mehcached_find_empty_or_oldest` keeps the word at the smallest distance
  from the tail, which is the newest; the comment where it is called says "the empty
  or oldest item". With the comparison reversed the property holds.
- `maglev_slots`: when the preferences of a backend are not a permutation, slots are
  overwritten and counted twice, and the rest keep -1. Sessions of those are dropped.

### Bounds

- Receiving: `U32 = 8`, four frames, an rx ring of 2, batches of 2, a NIC ring of 2.
  Every counter wraps, and wraps its ring twice before; batches may be of 1 or 2;
  the driver can drain the fill ring completely (NIC and rx ring hold all four);
  `to_add` can exceed a batch. Section 5 lifts these bounds for the proved
  properties.
- Forwarding: the same with a NIC ring of 1 (2 in the violation runs). The rings
  have half as many entries as there are frames, as in the code, so each can be full.
  Signals arrive under the command lines of the CONSTANT `Signals`: in `fwd_fifo`
  those with `-B`, in the other runs none.
- MICA: 3 keys, values of two kinds and lengths, 2 buckets of 2 words, a log of 4 units
  and 16 offsets. The log holds two items and is overwritten four times per
  round, sweeps happen twice a round, keys share a bucket or a tag, and a bucket
  overflows. Where items are moved to the head, values have one length: a moved
  item keeps the header of its old, larger allocation, and with several lengths the
  head overtakes the tail and the pool's assertion fails. Toasty sets `mth_threshold`
  to 1.0, which switches moving off, and there values have two lengths. The pool is
  less than half of `OffsetSpace`, as `mehcached_pool_init` asserts. `mica_evict` has a
  log of 8 units, which all three keys fit into.
- Maglev: 3 backends, 5 slots and 16 `int` values stand for the code's 65537 slots and
  2^32 values: in both, IntRange is one less than the size, squared. A
  client, a backend and the service's address send; client and service share a chain.

Symmetry is not used: frames, offsets and slots are ordered.

## 4. Fairness

- `FairSpec` of receiving and forwarding: weak fairness of the application's thread
  only. It is a loop with no blocking call but `poll`, which has a timeout, and
  `sendto`/`recvfrom` with `MSG_DONTWAIT`. The driver is promised nothing: the liveness
  properties hold with a driver that stops, except for `SignalStops` with `-p` below.
- `FairDriverSpec` adds strong fairness of each driver action. It is used only in
  `fwd_poll_stall`, so that the stall is the code's and not the driver's.
- Maglev's `FairSpec`: weak fairness of the start-up steps; `configure` is sequential
  code. Packets need not arrive.
- MICA has no liveness property: each call is one step.

With `-p`, a `poll` that returns nothing goes round without a look at
`benchmark_done`, so `SignalStops` promises an end under that option only if the
driver delivers again and again; without `-p` it promises it outright.
`CompletionReturnedWithoutPoll` excludes `-p`, for which `fwd_poll_stall` is the
counterexample.

## 5. What is proved

`XskRingProofs`, `ToastyRxProofs` and `ToastyRxFrames` hold for every number of
frames, ring size, batch size, NIC size and pointer width that satisfy the named
assumptions of `XskRing`, `FillRing` and `ToastyRx` (positive; rings smaller than,
and dividing, `U32`).

| Theorem | Says |
|---|---|
| `PointersCorrect` | in every mode, `TypeOK` and `PointersOK` |
| `TypeCorrect` | in every mode, `TypeOK` |
| `ReservationSufficient` | in every mode, the reservation in the fill ring is granted at once |
| `FramesInvariant` | `FramesOK` |
| `FramesAreConserved` | if `-W` is used only with `-B`, no frame is lost or duplicated |

The inductive invariant is in `ToastyRxInv`; TLC checks it in `rx_safe`.

*Pointers.* That frames are conserved says nothing of cached copies, yet reserve and
peek act on them only. `PointersOK` bounds each cached copy by the counter it
copies (`u32(cached_cons - producer) + Used <= NumFrames`: a reservation never reaches
an entry that the kernel owns), says how far each local has got in the batch, and
counts frames: fill ring, rx ring and NIC together hold `NumFrames`. From the count
the reservation always suffices, since the batch in hand is missing from the fill
ring. It holds even for `-W` without `-B`, where only the frames' identities go wrong.

*Frames.* The key is that the fill ring has as many entries as there are frames, so
entries the kernel has taken still hold the addresses it took. `ShadowOK` says that
these are, in order, the frames in the rx ring and then those in the NIC;
`PermutationOK` that the whole ring is a permutation of the frames. Giving a frame
back the ordinary way then overwrites an entry with itself; the exchange swaps two
entries of a permutation. The second needs `ExchangeOK`: the entry aimed at still
belongs to the ring when it is swapped, which holds since with `-B` the driver does
not move between the test and the store. FIFO mode does not need it.

`Modular` has the lemmas on `%` that these proofs use, stated through Euclidean division.

Only model-checked: the liveness properties (fairness and ENABLED are out of
the prover's reach), `WarmBatchNext`, the refinement of `WarmPool`, forwarding, MICA
and Maglev.

## 6. Plan

Done, most important behaviour first: the rings and receiving with their proofs;
forwarding; L3 forwarding; the MICA table and log; Maglev.

Extend the model:

1. The dynamic allocator (`alloc_dynamic.c`): chunks with two boundary tags, free lists
   by class, splitting and coalescing. Properties: chunks tile the arena, no two free
   neighbours, every free chunk is in exactly the list of its class.
2. Shared memory (`shm.c`): pages, entries with reference counts, mappings; removal
   scheduled while mapped.
3. The concurrent modes of the MICA table: the version of a bucket as a sequence lock,
   readers that retry, the pool's lock, one step per access. Abstract
   specification: a map with atomic operations that may forget.
4. The linear-probing map: an entry that was inserted is found after the deletion of
   another on its probe path.
5. Several sockets: the round robin of the XDP program.

Prove:

1. `WarmBatchNext`, then that `ToastyRx` implements `WarmPool`, from `FramesOK`.
2. Conservation and `OutstandingExact` for forwarding, with the completion ring in
   place of the rx ring in `ShadowOK`; the lemmas of `XskRingProofs` carry over.
3. `LogIsRowOfItems` and `ValidWordsAreIntact` of MICA; the argument is that the sweep
   visits every bucket once in half the offset space.
4. `EvenlyFilled` of Maglev for any number of backends and slots.

## 7. Not modelled

- The bytes of packets: NAT, IDS, decryption and L2 forwarding rewrite one packet in
  place and keep nothing between packets.
- Hash functions (CityHash) and statistics of MICA; bulk operations, prefetching and
  extra buckets, which are not compiled in or change no state.
- Parsing of options, set-up and removal of sockets and programs: system calls once at
  start and end. The initial state is what they leave.
- The stand-alone Maglev program, superseded by the one in `toasty.c`.
- libbpf, libxdp and xdp-tools, except the ring header the repository changed.
- The parts listed in section 6 as future work.
