----------------------------- MODULE MicaTable -----------------------------
(***************************************************************************)
(* The MICA key-value store that Toasty serves from (ported-mica/table.c), *)
(* in the mode Toasty opens it in: one thread, one pool, eviction allowed. *)
(*                                                                         *)
(*   item_vec   per bucket, ItemsPerBucket words: a tag and an offset into *)
(*              the pool, or Empty                                         *)
(*   pool       the circular log of MicaPool                               *)
(*   last       per key, what the last operation on it stored (history)    *)
(*   cfg        mth_threshold, the lengths the values may have, and the    *)
(*              hash of each key in use                                    *)
(*                                                                         *)
(* Nothing removes an entry when the log overwrites its item.  An entry is *)
(* recognised as stale by its distance from the tail, which is only known  *)
(* modulo OffsetSpace: an entry that is not swept away in time would count *)
(* as valid again.                                                         *)
(***************************************************************************)
EXTENDS MicaPool, FiniteSets

CONSTANTS
    NumBuckets,
    ItemsPerBucket,
    TagSpace,       \* MEHCACHED_TAG_MASK + 1
    Configs         \* records [mth_threshold, lengths, key_hash]

ASSUME TableAssumption ==
    /\ NumBuckets \in Nat \ {0, 1}
    /\ ItemsPerBucket \in Nat \ {0}
    /\ \E m \in 1 .. OffsetSpace : OffsetSpace = 2 * m * NumBuckets
    /\ \A c \in Configs : /\ c.lengths \subseteq 1 .. PoolSize - 1
                          /\ \E K \in SUBSET Keys : c.key_hash \in [K -> Nat]

VARIABLES item_vec, pool, last, cfg

vars == <<item_vec, pool, last, cfg>>

Buckets == 0 .. NumBuckets - 1
Slots == 1 .. ItemsPerBucket

mehcached_calc_bucket_index(k) == (cfg.key_hash[k] \div TagSpace) % NumBuckets

\* Zero is the tag of an empty word.
mehcached_calc_tag(k) ==
    LET tag == cfg.key_hash[k] % TagSpace IN IF tag = 0 THEN 1 ELSE tag

Empty == [tag |-> 0, offset |-> 0]

ItemVec(tag, offset) == [tag |-> tag, offset |-> offset]

KeysInUse == DOMAIN cfg.key_hash

Absent == [val |-> NoValue, len |-> 0]

\* Slots of a bucket that carry a tag, and the first of a set of slots.
Tagged(b, tag) == {i \in Slots : item_vec[b][i].tag = tag}

First(S) == CHOOSE i \in S : \A j \in S : i <= j

\* mehcached_find_item_index: the slot of key k.  A stale word leads to
\* whatever is now in the log; a value read as a header may match any key.
Matches(i, k) ==
    LET key == Cell(pool, item_vec[mehcached_calc_bucket_index(k)][i].offset).key
    IN  IF key = NoKey THEN BOOLEAN ELSE {key = k}

mehcached_find_item_index(k) ==
    LET S == Tagged(mehcached_calc_bucket_index(k), mehcached_calc_tag(k))
    IN  {i \in S : TRUE \in Matches(i, k)
                   /\ \A j \in S : j < i => FALSE \in Matches(j, k)}
        \cup IF \A i \in S : FALSE \in Matches(i, k) THEN {0} ELSE {}

mehcached_find_same_tag(b, tag) ==
    IF Tagged(b, tag) = {} THEN 0 ELSE First(Tagged(b, tag))

Distance(e) == Wrap(pool.tail - e.offset)

\* mehcached_find_empty_or_oldest keeps the word at the smallest distance from
\* the tail, which is the newest.
mehcached_find_empty_or_oldest(b) ==
    IF Tagged(b, 0) # {} THEN First(Tagged(b, 0))
    ELSE CHOOSE i \in Slots : \A j \in Slots :
            \/ Distance(item_vec[b][i]) < Distance(item_vec[b][j])
            \/ /\ Distance(item_vec[b][i]) = Distance(item_vec[b][j])
               /\ i <= j

\* A faulty variant: a second slot for a tag that is there already.
SlotIgnoringTag(b, tag) == mehcached_find_empty_or_oldest(b)

\* The slot mehcached_set takes for a key it has not found.
SlotToReplace(b, tag) ==
    IF mehcached_find_same_tag(b, tag) # 0 THEN mehcached_find_same_tag(b, tag)
    ELSE mehcached_find_empty_or_oldest(b)

\* mehcached_cleanup_bucket: the buckets whose turn comes when the tail moves
\* from old to new; rshift makes half of OffsetSpace one round of the table.
Span == OffsetSpace \div (2 * NumBuckets)

SweptBuckets(old, new) ==
    LET from == old \div Span
        turns == (new \div Span - from) % NumBuckets
    IN  {(from + n) % NumBuckets : n \in 0 .. turns - 1}

\* A faulty variant: the table is never swept.
NoCleanup(iv, p, old) == iv

\* A faulty variant: the sweep takes items that are still in the log.
CleanupOfLive(iv, p, old) ==
    [b \in Buckets |-> [i \in Slots |->
        IF b \in SweptBuckets(old, p.tail) THEN Empty ELSE iv[b][i]]]

mehcached_cleanup_bucket(iv, p, old) ==
    [b \in Buckets |-> [i \in Slots |->
        IF /\ b \in SweptBuckets(old, p.tail)
           /\ ~mehcached_pool_is_valid(p, iv[b][i].offset)
        THEN Empty ELSE iv[b][i]]]

-----------------------------------------------------------------------------
TypeOK ==
    /\ item_vec \in [Buckets -> [Slots -> [tag : 0 .. TagSpace - 1, offset : Offsets]]]
    /\ pool \in [head : Offsets, tail : Offsets, mem : [0 .. PoolSize - 1 -> Cells]]
    /\ last \in [Keys -> [val : Values \cup {NoValue}, len : 0 .. PoolSize]]
    /\ cfg \in Configs

\* mehcached_table_init, after which Toasty only waits for packets.
Init ==
    /\ item_vec = [b \in Buckets |-> [i \in Slots |-> Empty]]
    /\ pool = EmptyPool([c \in 0 .. PoolSize - 1 |-> ValueCell(NoValue)])
    /\ last = [k \in Keys |-> Absent]
    /\ cfg \in Configs

ItemSize(len) == 1 + len

-----------------------------------------------------------------------------
\* mehcached_set, by its ways out.

\* "already exist but cannot overwrite"
SetRefused(k) ==
    /\ \E i \in mehcached_find_item_index(k) : i # 0
    /\ UNCHANGED vars

InPlace(i, k, len) ==
    LET offset == item_vec[mehcached_calc_bucket_index(k)][i].offset IN
    /\ i # 0
    /\ mehcached_pool_is_valid(pool, offset)
    /\ Cell(pool, offset).size >= ItemSize(len)

SetInPlace(i, k, v, len) ==
    /\ InPlace(i, k, len)
    /\ pool' = mehcached_set_item_value(pool,
                 item_vec[mehcached_calc_bucket_index(k)][i].offset, v, len)
    /\ last' = [last EXCEPT ![k] = [val |-> v, len |-> len]]
    /\ UNCHANGED <<item_vec, cfg>>

SetAppended(i, k, v, len) ==
    LET b == mehcached_calc_bucket_index(k)
        tag == mehcached_calc_tag(k)
        slot == IF i # 0 THEN i ELSE SlotToReplace(b, tag)
        pushed == Pushed(pool, ItemSize(len))
        iv == [item_vec EXCEPT ![b][slot] = ItemVec(tag, pool.tail)]
    IN  /\ ~InPlace(i, k, len)
        /\ ~PopFails(pool, ItemSize(len))
        /\ pool' = mehcached_set_item(pushed, pool.tail, k, v, len)
        /\ item_vec' = mehcached_cleanup_bucket(iv, pushed, pool.tail)
        /\ last' = [last EXCEPT ![k] = [val |-> v, len |-> len]]
        /\ UNCHANGED cfg

\* A key that is found is refused or replaced as overwrite says.
mehcached_set(k, v, len) ==
    \/ SetRefused(k)
    \/ \E i \in mehcached_find_item_index(k) :
          \/ SetInPlace(i, k, v, len)
          \/ SetAppended(i, k, v, len)

-----------------------------------------------------------------------------
\* mehcached_get of a key found in slot i.

\* A faulty variant: the word is removed without a look at the pool.
GetStaleUnchecked(k, i, readonly) ==
    /\ item_vec' = IF readonly THEN item_vec
                   ELSE [item_vec EXCEPT ![mehcached_calc_bucket_index(k)][i] = Empty]
    /\ UNCHANGED <<pool, last, cfg>>

\* The word is stale: it is removed unless the caller only reads.
GetStale(k, i, readonly) ==
    LET b == mehcached_calc_bucket_index(k) IN
    /\ ~mehcached_pool_is_valid(pool, item_vec[b][i].offset)
    /\ item_vec' = IF readonly THEN item_vec
                   ELSE [item_vec EXCEPT ![b][i] = Empty]
    /\ UNCHANGED <<pool, last, cfg>>

\* Whether a value found at an offset is moved to the tail of the log.
MovesToHead(offset, readonly) ==
    /\ ~readonly
    /\ (pool.tail - offset) % PoolSize > cfg.mth_threshold

\* The allocation may have overwritten the item: it is then not moved.
Move(iv, p, offset, b, i, size) ==
    IF mehcached_pool_is_valid(p, offset)
    THEN [vec |-> [iv EXCEPT ![b][i].offset = pool.tail],
          log |-> Copied(p, offset, pool.tail, size)]
    ELSE [vec |-> iv, log |-> p]

GetValid(k, i, readonly) ==
    LET b == mehcached_calc_bucket_index(k)
        offset == item_vec[b][i].offset
        size == ItemSize(Cell(pool, offset).len)
        pushed == Pushed(pool, size)
        moved == Move(item_vec, pushed, offset, b, i, size)
    IN  /\ mehcached_pool_is_valid(pool, offset)
        /\ \/ /\ ~MovesToHead(offset, readonly)
              /\ UNCHANGED vars
           \/ /\ MovesToHead(offset, readonly)
              /\ ~PopFails(pool, size)
              /\ pool' = moved.log
              /\ item_vec' = mehcached_cleanup_bucket(moved.vec, pushed, pool.tail)
              /\ UNCHANGED <<last, cfg>>

mehcached_get(k, readonly) ==
    \E i \in mehcached_find_item_index(k) \ {0} :
        GetStale(k, i, readonly) \/ GetValid(k, i, readonly)

-----------------------------------------------------------------------------
\* mehcached_delete; there are no extra buckets from which to fill the hole.
mehcached_delete(k) ==
    /\ \E i \in mehcached_find_item_index(k) :
          item_vec' = IF i = 0 THEN item_vec
                      ELSE [item_vec EXCEPT ![mehcached_calc_bucket_index(k)][i] = Empty]
    /\ last' = [last EXCEPT ![k] = Absent]
    /\ UNCHANGED <<pool, cfg>>

\* Values are numbers; a cell holds a 64-bit one.
Incremented(v) == (v + 1) % Cardinality(Values)

mehcached_increment(k) ==
    \E i \in mehcached_find_item_index(k) \ {0} :
        LET offset == item_vec[mehcached_calc_bucket_index(k)][i].offset
            old == Cell(pool, offset + 1).val
        IN  /\ mehcached_pool_is_valid(pool, offset)
            /\ Cell(pool, offset).len = 1
            /\ pool' = WithValue(pool, offset, Incremented(old), 1)
            /\ last' = [last EXCEPT ![k].val = Incremented(@)]
            /\ UNCHANGED <<item_vec, cfg>>

mehcached_table_reset ==
    /\ item_vec' = [b \in Buckets |-> [i \in Slots |-> Empty]]
    /\ pool' = EmptyPool(pool.mem)
    /\ last' = [k \in Keys |-> Absent]
    /\ UNCHANGED cfg

Next ==
    \/ \E k \in KeysInUse, v \in Values, len \in cfg.lengths : mehcached_set(k, v, len)
    \/ \E k \in KeysInUse, readonly \in BOOLEAN : mehcached_get(k, readonly)
    \/ \E k \in KeysInUse : mehcached_delete(k)
    \/ \E k \in KeysInUse : mehcached_increment(k)
    \/ mehcached_table_reset

Spec == Init /\ [][Next]_vars

-----------------------------------------------------------------------------
\* Properties

\* mehcached_pool_check_invariants, and what pop_head relies on: the log never
\* holds more than its size, and from the head on it is a row of items each of
\* which leads to the next by the size in its header.
LogIsRowOfItems ==
    /\ InUse(pool) <= PoolSize
    /\ RowOfItems(pool)

\* A word that mehcached_pool_is_valid accepts leads to an intact item: a key of
\* that bucket and tag, with the value and the length last stored for the key.
\* So mehcached_get never returns another key's bytes, half an item, or a value
\* from a round of the 40-bit offsets ago.
ValidWordsAreIntact ==
    \A b \in Buckets, i \in Slots :
        LET e == item_vec[b][i]
            c == Cell(pool, e.offset)
        IN  e # Empty /\ mehcached_pool_is_valid(pool, e.offset) =>
                /\ c.key \in KeysInUse
                /\ mehcached_calc_bucket_index(c.key) = b
                /\ mehcached_calc_tag(c.key) = e.tag
                /\ c.len = last[c.key].len
                /\ ReadValue(pool, e.offset) = {last[c.key].val}

\* mehcached_find_item_index returns the first match: a tag stands at most once
\* in a bucket, so no stale word can hide a newer one of the same key.
TagsUnique ==
    \A b \in Buckets, tag \in 1 .. TagSpace - 1 : Cardinality(Tagged(b, tag)) <= 1

\* The slots in which mehcached_get would find key k with a valid item.
Home(k) ==
    {i \in Tagged(mehcached_calc_bucket_index(k), mehcached_calc_tag(k)) :
        LET offset == item_vec[mehcached_calc_bucket_index(k)][i].offset IN
        /\ mehcached_pool_is_valid(pool, offset)
        /\ Cell(pool, offset).key = k}

\* mehcached_set and mehcached_increment: a value they have stored is found by
\* the next mehcached_get, whatever was evicted, popped or swept on the way.
StoredIsFound ==
    [][\A k \in KeysInUse : last'[k] # last[k] /\ last'[k] # Absent => Home(k)' # {}]_vars

\* A key that could be found is lost only to a delete or a reset, to the log
\* having overwritten its item, or to a new item of its own bucket: the sweep of
\* mehcached_cleanup_bucket and the removals of mehcached_get cost nothing else.
LostForCause ==
    [][\A k \in KeysInUse : \A i \in Home(k) : LET b == mehcached_calc_bucket_index(k) IN
          \/ Home(k)' # {}
          \/ last'[k] = Absent
          \/ ~mehcached_pool_is_valid(pool', item_vec[b][i].offset)
          \/ item_vec'[b][i] # Empty /\ item_vec'[b][i].offset = pool.tail]_vars

\* mehcached_set: "if there is no matching tag, we just use the empty or oldest
\* item".  A new item that takes the place of a word with another tag takes that
\* of the word whose item was allocated first in the bucket.
EvictsOldest ==
    [][\A b \in Buckets, i \in Slots :
          /\ item_vec[b][i] # Empty
          /\ item_vec'[b][i].offset = pool.tail
          /\ item_vec'[b][i].tag \notin {0, item_vec[b][i].tag}
          => \A j \in Slots : Distance(item_vec[b][j]) <= Distance(item_vec[b][i])]_vars
=============================================================================
